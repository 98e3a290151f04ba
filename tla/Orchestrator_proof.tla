------------------------- MODULE Orchestrator_proof -------------------------
(***************************************************************************)
(* Theorems about the orchestrator for any tasks, handlers, actors, agent  *)
(* manifest, threshold and bounds: first for requests that overlap and     *)
(* fail in any way, then for requests served one at a time.                *)
(***************************************************************************)
EXTENDS OrchestratorProperties, TLAPS

-----------------------------------------------------------------------------
(* The operators that update a handler's copy keep it well-formed. *)

LEMMA SetStatusType ==
  ASSUME NEW job \in Job, NEW i \in Step, NEW st \in ActionStatus
  PROVE  SetStatus(job, i, st) \in Job
BY DEF SetStatus, Job, Plan, PlannedAction

LEMMA AdvanceType ==
  ASSUME NEW job \in Job, NEW i \in Step
  PROVE  Advance(job, i) \in Job
BY DEF Advance, Job

LEMMA AwaitingType ==
  ASSUME NEW job \in Job, NEW i \in Step, NEW g \in GateId
  PROVE  Awaiting(job, i, g) \in Job
BY DEF Awaiting, Job, Plan, PlannedAction, ActionStatus, TaskState, TaskTransitions

LEMMA UnplannedType == Unplanned \in Plan
BY DEF Unplanned, Plan, PlannedAction, ActionStatus

LEMMA PlanForType ==
  ASSUME NEW scopes \in SUBSET Scope
  PROVE  PlanFor(scopes) \in Plan
BY DEF PlanFor, Plan, PlannedAction, ActionStatus

LEMMA NewJobType ==
  ASSUME NEW t \in Task, NEW a \in Actor, NEW g \in GateId \cup {None},
         NEW d \in {"APPROVED", "REJECTED"}, NEW scopes \in ScopeSets
  PROVE  NewJob(t, a, g, d, scopes) \in Job
BY UnplannedType, ScopeAssumption
   DEF NewJob, Job, TaskState, TaskTransitions, Terminal

-----------------------------------------------------------------------------
(* The inductive invariant.  Each part speaks of the approval store as an  *)
(* argument, so that it can be carried over a step that changes the store. *)

(* Gate g was raised for step i of task t. *)
RaisedFor(store, g, t, i) ==
  g \in GateId /\ store[g] # None /\ store[g].task = t /\ store[g].step = i

(* Every gate a plan names was raised for the step that names it. *)
PlanRefers(store, t, plan) ==
  \A i \in Step : plan[i].gate # None => RaisedFor(store, plan[i].gate, t, i)

(* L3 and L4 steps wait behind a gate, unless they are blocked. *)
HeavyHeld(plan) ==
  \A i \in Step :
    RequiresHumanApproval(Manifest[i]) /\ plan[i].gate = None => plan[i].st = "BLOCKED"

GrantsHold(store, job) ==
  \A i \in job.granted : job.plan[i].gate # None /\ store[job.plan[i].gate].status = "APPROVED"

(* Stages at which a handler has not looked at any plan yet. *)
Fresh == {"plan", "load", "cancel", "find", "decideTask", "decideBrain", "brain", "record"}

Deciders == {"find", "decideTask", "decideBrain", "brain", "record"}

JobOK(store, stage, job) ==
  /\ PlanRefers(store, job.task, job.plan)
  /\ GrantsHold(store, job)
  /\ stage \in Fresh => job.plan = Unplanned /\ job.granted = {}
  /\ stage \in Deciders => job.gate \in GateId /\ store[job.gate] # None
  /\ stage \in Deciders \ {"decideTask"} => store[job.gate].task = job.task
  /\ stage = "brain" /\ Durable => store[job.gate].status = "APPROVED"
  /\ stage = "gate" => job.granted = {}
  /\ stage = "gate" =>
       \A i \in Step : RequiresHumanApproval(Manifest[i]) /\ job.plan[i].gate = None
                         => job.plan[i].st \in {"BLOCKED", "PLANNED"}
  /\ stage \in {"park", "check", "run", "exec"} => HeavyHeld(job.plan)
  /\ stage \in {"run", "exec"} => Unread(job) = {}
  /\ stage = "exec" => \A i \in Next1(job) : /\ job.plan[i].st = "RUNNING"
                                             /\ NeedsGate(i) => i \in job.granted
  /\ stage = "undo" => job.final # "COMPLETED"
  /\ stage = "settle" /\ job.final = "COMPLETED" => HeavyHeld(job.plan) /\ Unread(job) = {}

(* The status a handler holds is the one its stage expects. *)
StatusOK(stage, job) ==
  /\ stage = "plan" => job.status = "REQUESTED"
  /\ stage = "check" => job.status = "APPROVAL"
  /\ stage \in {"run", "exec"} => job.status = "EXECUTING"
  /\ stage = "undo" => job.status \in {"REQUESTED", "APPROVAL", "EXECUTING"}
  /\ stage = "settle" => job.status \in {"REQUESTED", "APPROVAL", "VERIFYING"}

ReportOK(store, t, report) ==
  /\ PlanRefers(store, t, report.plan)
  /\ report.status \in {"ABSENT", "REQUESTED", "APPROVAL"} \cup Terminal
  /\ report.status = "ABSENT" => report.plan = Unplanned
  /\ report.status = "APPROVAL" => HeavyHeld(report.plan)
  /\ report.status = "COMPLETED" =>
       \A i \in Step :
         report.plan[i].st = "SUCCEEDED" /\ RequiresHumanApproval(Manifest[i]) =>
           report.plan[i].gate # None /\ store[report.plan[i].gate].status = "APPROVED"

HandlersInv ==
  /\ pc \in [Handler -> Stage]
  /\ h \in [Handler -> Job \cup {None}]
  /\ \A r \in Handler :
       IF pc[r] = "idle" THEN h[r] = None
       ELSE h[r] \in Job /\ JobOK(gates, pc[r], h[r]) /\ StatusOK(pc[r], h[r])

StoresInv ==
  /\ tasks \in [Task -> Report]
  /\ gates \in [GateId -> Gate \cup {None}]
  /\ \A t \in Task : ReportOK(gates, t, tasks[t])

CountersInv ==
  /\ ran \in [Task -> [Step -> Nat]] /\ undone \in [Task -> [Step -> Nat]]
  /\ sent \in Nat /\ aborted \in Nat

IInv == HandlersInv /\ StoresInv /\ CountersInv

(* How the approval store may change in a step: records are added, never   *)
(* dropped or re-aimed, and a decided record keeps its decision.           *)
Evolves(old, new) ==
  \A g \in GateId : old[g] # None =>
    /\ new[g] # None
    /\ new[g].task = old[g].task /\ new[g].step = old[g].step /\ new[g].by = old[g].by
    /\ old[g].status # "PENDING" =>
         new[g].status = old[g].status /\ new[g].decidedBy = old[g].decidedBy

LEMMA IInvTypeOK == IInv => TypeOK
BY DEF IInv, HandlersInv, StoresInv, CountersInv, TypeOK

LEMMA InitIInv == Init => IInv
<1> SUFFICES ASSUME Init PROVE IInv
  OBVIOUS
<1>1. HandlersInv
  BY DEF Init, HandlersInv, Stage
<1>2. StoresInv
  <2>1. ASSUME NEW t \in Task PROVE tasks[t] \in Report /\ ReportOK(gates, t, tasks[t])
    BY UnplannedType DEF Init, Report, ReportOK, PlanRefers, Unplanned
  <2> QED  BY <2>1 DEF Init, StoresInv
<1>3. CountersInv
  BY DEF Init, CountersInv
<1> QED  BY <1>1, <1>2, <1>3 DEF IInv

-----------------------------------------------------------------------------
(* What the invariant says survives any growth of the approval store. *)

LEMMA JobOKStable ==
  ASSUME NEW old, NEW new, Evolves(old, new),
         NEW stage \in Stage, NEW job \in Job, JobOK(old, stage, job)
  PROVE  JobOK(new, stage, job)
<1>1. PlanRefers(new, job.task, job.plan)
  BY DEF JobOK, PlanRefers, RaisedFor, Evolves
<1>2. GrantsHold(new, job)
  <2> SUFFICES ASSUME NEW i \in job.granted
               PROVE  job.plan[i].gate # None /\ new[job.plan[i].gate].status = "APPROVED"
    BY DEF GrantsHold
  <2>1. i \in Step
    BY DEF Job
  <2>2. RaisedFor(old, job.plan[i].gate, job.task, i) /\ old[job.plan[i].gate].status = "APPROVED"
    BY <2>1 DEF JobOK, GrantsHold, PlanRefers
  <2> QED  BY <2>1, <2>2 DEF JobOK, GrantsHold, RaisedFor, Evolves
<1>3. stage \in Deciders =>
        /\ job.gate \in GateId /\ new[job.gate] # None
        /\ new[job.gate].task = old[job.gate].task
        /\ old[job.gate].status = "APPROVED" => new[job.gate].status = "APPROVED"
  BY DEF JobOK, Evolves
<1> QED  BY <1>1, <1>2, <1>3 DEF JobOK, Deciders

LEMMA ReportOKStable ==
  ASSUME NEW old, NEW new, Evolves(old, new),
         NEW t \in Task, NEW report \in Report, ReportOK(old, t, report)
  PROVE  ReportOK(new, t, report)
<1>1. PlanRefers(new, t, report.plan)
  BY DEF ReportOK, PlanRefers, RaisedFor, Evolves
<1>2. ASSUME NEW i \in Step, report.plan[i].gate # None,
             old[report.plan[i].gate].status = "APPROVED"
      PROVE  new[report.plan[i].gate].status = "APPROVED"
  BY <1>2 DEF ReportOK, PlanRefers, RaisedFor, Evolves
<1> QED  BY <1>1, <1>2 DEF ReportOK

LEMMA EvolvesReflexive == \A store : Evolves(store, store)
BY DEF Evolves

-----------------------------------------------------------------------------
(* A step of one handler: it is enough to look at that handler and at what *)
(* it did to the stores.                                                   *)

LEMMA GotoKeepsHandlers ==
  ASSUME HandlersInv, Evolves(gates, gates'),
         NEW r \in Handler, NEW stage \in Stage \ {"idle"}, NEW job \in Job,
         Goto(r, stage, job), JobOK(gates', stage, job), StatusOK(stage, job)
  PROVE  HandlersInv'
<1>1. pc' \in [Handler -> Stage] /\ h' \in [Handler -> Job \cup {None}]
  BY DEF HandlersInv, Goto
<1>2. ASSUME NEW q \in Handler
      PROVE  IF pc'[q] = "idle" THEN h'[q] = None
             ELSE h'[q] \in Job /\ JobOK(gates', pc'[q], h'[q]) /\ StatusOK(pc'[q], h'[q])
  <2>1. CASE q = r
    BY <2>1 DEF HandlersInv, Goto
  <2>2. CASE q # r
    <3>1. pc'[q] = pc[q] /\ h'[q] = h[q] /\ pc[q] \in Stage
      BY <2>2 DEF HandlersInv, Goto
    <3> QED  BY <3>1, JobOKStable DEF HandlersInv
  <2> QED  BY <2>1, <2>2
<1> QED  BY <1>1, <1>2 DEF HandlersInv

LEMMA ReturnKeepsHandlers ==
  ASSUME HandlersInv, Evolves(gates, gates'), NEW r \in Handler, Return(r)
  PROVE  HandlersInv'
<1>1. pc' \in [Handler -> Stage] /\ h' \in [Handler -> Job \cup {None}]
  BY DEF HandlersInv, Return, Goto, Stage
<1>2. ASSUME NEW q \in Handler
      PROVE  IF pc'[q] = "idle" THEN h'[q] = None
             ELSE h'[q] \in Job /\ JobOK(gates', pc'[q], h'[q]) /\ StatusOK(pc'[q], h'[q])
  <2>1. CASE q = r
    BY <2>1 DEF HandlersInv, Return, Goto
  <2>2. CASE q # r
    <3>1. pc'[q] = pc[q] /\ h'[q] = h[q] /\ pc[q] \in Stage
      BY <2>2 DEF HandlersInv, Return, Goto
    <3> QED  BY <3>1, JobOKStable DEF HandlersInv
  <2> QED  BY <2>1, <2>2
<1> QED  BY <1>1, <1>2 DEF HandlersInv

LEMMA SameStores ==
  ASSUME StoresInv, UNCHANGED stores
  PROVE  StoresInv' /\ Evolves(gates, gates')
BY DEF StoresInv, stores, Evolves

LEMMA GatesGrow ==
  ASSUME StoresInv, UNCHANGED tasks, Evolves(gates, gates'),
         gates' \in [GateId -> Gate \cup {None}]
  PROVE  StoresInv'
BY ReportOKStable DEF StoresInv

LEMMA TasksMove ==
  ASSUME StoresInv, UNCHANGED gates, NEW t \in Task, NEW report \in Report,
         tasks' = [tasks EXCEPT ![t] = report], ReportOK(gates, t, report)
  PROVE  StoresInv' /\ Evolves(gates, gates')
<1>1. tasks' \in [Task -> Report]
  BY DEF StoresInv
<1>2. ASSUME NEW u \in Task PROVE ReportOK(gates', u, tasks'[u])
  BY DEF StoresInv
<1> QED  BY <1>1, <1>2 DEF StoresInv, Evolves

-----------------------------------------------------------------------------
(* What the operators on a handler's copy change, field by field. *)

(* A new copy serves the same task and gate with the same grants. *)
SameErrand(new, job) ==
  /\ new \in Job
  /\ new.task = job.task /\ new.gate = job.gate
  /\ new.granted = job.granted

LEMMA SetStatusFields ==
  ASSUME NEW job \in Job, NEW i \in Step, NEW st \in ActionStatus
  PROVE  /\ SameErrand(SetStatus(job, i, st), job)
         /\ SetStatus(job, i, st).status = job.status /\ SetStatus(job, i, st).todo = job.todo
         /\ SetStatus(job, i, st).final = job.final
         /\ \A j \in Step :
              /\ SetStatus(job, i, st).plan[j].gate = job.plan[j].gate
              /\ SetStatus(job, i, st).plan[j].st = IF j = i THEN st ELSE job.plan[j].st
<1> DEFINE plan == [job.plan EXCEPT ![i].st = st]
<1>1. SameErrand(SetStatus(job, i, st), job)
  BY SetStatusType DEF SameErrand, SetStatus, Job
<1>2. /\ SetStatus(job, i, st).status = job.status /\ SetStatus(job, i, st).todo = job.todo
      /\ SetStatus(job, i, st).final = job.final /\ SetStatus(job, i, st).plan = plan
  BY DEF SetStatus, Job
<1>3. job.plan \in [Step -> PlannedAction]
  BY DEF Job, Plan
<1>4. ASSUME NEW j \in Step
      PROVE  /\ plan[j].gate = job.plan[j].gate
             /\ plan[j].st = IF j = i THEN st ELSE job.plan[j].st
  BY <1>3 DEF PlannedAction
<1> HIDE DEF plan
<1> QED  BY <1>1, <1>2, <1>4

LEMMA AdvanceFields ==
  ASSUME NEW job \in Job, NEW i \in Step
  PROVE  /\ SameErrand(Advance(job, i), job)
         /\ Advance(job, i).status = job.status /\ Advance(job, i).plan = job.plan
         /\ Advance(job, i).final = job.final
BY AdvanceType DEF SameErrand, Advance, Job

LEMMA AwaitingFields ==
  ASSUME NEW job \in Job, NEW i \in Step, NEW g \in GateId
  PROVE  /\ SameErrand(Awaiting(job, i, g), job)
         /\ \A j \in Step :
              Awaiting(job, i, g).plan[j] =
                IF j = i THEN [st |-> "AWAITING_APPROVAL", gate |-> g] ELSE job.plan[j]
<1>1. SameErrand(Awaiting(job, i, g), job)
  BY AwaitingType DEF SameErrand, Awaiting, Job
<1>2. Awaiting(job, i, g).plan = [job.plan EXCEPT ![i] = [st |-> "AWAITING_APPROVAL", gate |-> g]]
  BY DEF Awaiting, Job
<1>3. job.plan \in [Step -> PlannedAction]
  BY DEF Job, Plan
<1> QED  BY <1>1, <1>2, <1>3

LEMMA NewJobFields ==
  ASSUME NEW t \in Task, NEW a \in Actor, NEW g \in GateId \cup {None},
         NEW d \in {"APPROVED", "REJECTED"}, NEW scopes \in ScopeSets
  PROVE  /\ NewJob(t, a, g, d, scopes) \in Job
         /\ NewJob(t, a, g, d, scopes).task = t /\ NewJob(t, a, g, d, scopes).gate = g
         /\ NewJob(t, a, g, d, scopes).status = "REQUESTED"
         /\ NewJob(t, a, g, d, scopes).plan = Unplanned
         /\ NewJob(t, a, g, d, scopes).granted = {}
BY NewJobType DEF NewJob

LEMMA OpenGateGrows ==
  ASSUME StoresInv, NEW g \in GateId, NEW job \in Job, NEW i \in Step, OpenGate(g, job, i)
  PROVE  /\ Evolves(gates, gates') /\ gates' \in [GateId -> Gate \cup {None}]
         /\ RaisedFor(gates', g, job.task, i) /\ gates'[g].status = "PENDING"
<1>1. gates' = [gates EXCEPT ![g] = [task |-> job.task, step |-> i, by |-> job.actor,
                  status |-> "PENDING", decidedBy |-> None, executed |-> "NO"]]
      /\ gates[g] = None
  BY DEF OpenGate
<1>2. [task |-> job.task, step |-> i, by |-> job.actor,
       status |-> "PENDING", decidedBy |-> None, executed |-> "NO"] \in Gate
  BY DEF Job, Gate
<1>3. gates' \in [GateId -> Gate \cup {None}]
  BY <1>1, <1>2 DEF StoresInv
<1>4. gates'[g] \in Gate
  BY <1>1, <1>2 DEF StoresInv
<1>5. gates'[g].task = job.task /\ gates'[g].step = i /\ gates'[g].status = "PENDING"
  BY <1>1 DEF StoresInv
<1>6. Evolves(gates, gates')
  BY <1>1 DEF StoresInv, Evolves
<1>7. gates'[g] # None
  BY <1>4, NoneAssumption
<1> QED  BY <1>3, <1>5, <1>6, <1>7 DEF RaisedFor

-----------------------------------------------------------------------------
(* Every action keeps the handlers' and the stores' part of the invariant, *)
(* and only lets the approval store grow.                                  *)

Kept == HandlersInv' /\ StoresInv' /\ Evolves(gates, gates')

LEMMA Busy ==
  ASSUME HandlersInv, NEW r \in Handler, pc[r] # "idle"
  PROVE  h[r] \in Job /\ JobOK(gates, pc[r], h[r]) /\ StatusOK(pc[r], h[r])
BY DEF HandlersInv

LEMMA AcceptKeeps ==
  ASSUME HandlersInv, Evolves(gates, gates'),
         NEW r \in Handler, NEW stage \in {"plan", "load", "cancel", "find"},
         NEW job \in Job, job.plan = Unplanned, job.granted = {}, job.status = "REQUESTED",
         stage = "find" => /\ job.gate \in GateId /\ gates[job.gate] # None
                           /\ gates[job.gate].task = job.task,
         Accept(r, stage, job)
  PROVE  HandlersInv'
<1>1. PlanRefers(gates', job.task, job.plan) /\ GrantsHold(gates', job)
  BY DEF PlanRefers, GrantsHold, Unplanned
<1>2. stage = "find" => gates'[job.gate] # None /\ gates'[job.gate].task = job.task
  BY DEF Evolves
<1>3. JobOK(gates', stage, job) /\ StatusOK(stage, job)
  BY <1>1, <1>2 DEF JobOK, StatusOK, Deciders
<1>4. stage \in Stage \ {"idle"}
  BY DEF Stage
<1>5. Goto(r, stage, job)
  BY DEF Accept
<1> QED  BY <1>3, <1>4, <1>5, GotoKeepsHandlers

(* The owner of a task asks for something to be done with it. *)
LEMMA OwnerArrives ==
  ASSUME HandlersInv, Evolves(gates, gates'),
         NEW r \in Handler, NEW stage \in {"plan", "load", "cancel"},
         NEW t \in Task, NEW scopes \in ScopeSets,
         Accept(r, stage, NewJob(t, Owner[t], None, "APPROVED", scopes))
  PROVE  HandlersInv'
<1> DEFINE job == NewJob(t, Owner[t], None, "APPROVED", scopes)
<1>1. job \in Job /\ job.plan = Unplanned /\ job.granted = {} /\ job.status = "REQUESTED"
  BY NewJobFields, ActorAssumption
<1>2. Accept(r, stage, job)
  OBVIOUS
<1> HIDE DEF job
<1> QED  BY <1>1, <1>2, AcceptKeeps

LEMMA StartTaskKeeps ==
  ASSUME IInv, NEW r \in Handler, NEW t \in Task, StartTask(r, t)
  PROVE  Kept
<1>1. HandlersInv /\ StoresInv
  BY DEF IInv
<1> DEFINE report == [tasks[t] EXCEPT !.status = "REQUESTED"]
<1>2. report \in Report /\ report.plan = tasks[t].plan /\ report.status = "REQUESTED"
  BY <1>1 DEF StoresInv, Report, TaskState, TaskTransitions
<1>3. tasks' = [tasks EXCEPT ![t] = report] /\ UNCHANGED gates
  BY <1>1 DEF StartTask, StoresInv
<1>4. ReportOK(gates, t, tasks[t])
  BY <1>1 DEF StoresInv
<1> HIDE DEF report
<1>5. ReportOK(gates, t, report)
  BY <1>2, <1>4 DEF ReportOK, Terminal
<1>6. StoresInv' /\ Evolves(gates, gates')
  BY <1>1, <1>2, <1>3, <1>5, TasksMove
<1>7. PICK scopes \in ScopeSets : Accept(r, "plan", NewJob(t, Owner[t], None, "APPROVED", scopes))
  BY DEF StartTask
<1>8. HandlersInv'
  BY <1>1, <1>6, <1>7, OwnerArrives
<1> QED  BY <1>6, <1>8 DEF Kept

LEMMA ResumeTaskKeeps ==
  ASSUME IInv, NEW r \in Handler, NEW t \in Task, ResumeTask(r, t)
  PROVE  Kept
<1>1. HandlersInv /\ StoresInv
  BY DEF IInv
<1>2. StoresInv' /\ Evolves(gates, gates')
  BY <1>1, SameStores DEF ResumeTask
<1>3. PICK scopes \in ScopeSets : Accept(r, "load", NewJob(t, Owner[t], None, "APPROVED", scopes))
  BY DEF ResumeTask
<1>4. HandlersInv'
  BY <1>1, <1>2, <1>3, OwnerArrives
<1> QED  BY <1>2, <1>4 DEF Kept

LEMMA CancelTaskKeeps ==
  ASSUME IInv, NEW r \in Handler, NEW t \in Task, CancelTask(r, t)
  PROVE  Kept
<1>1. HandlersInv /\ StoresInv
  BY DEF IInv
<1>2. StoresInv' /\ Evolves(gates, gates')
  BY <1>1, SameStores DEF CancelTask
<1>3. PICK scopes \in ScopeSets : Accept(r, "cancel", NewJob(t, Owner[t], None, "APPROVED", scopes))
  BY DEF CancelTask
<1>4. HandlersInv'
  BY <1>1, <1>2, <1>3, OwnerArrives
<1> QED  BY <1>2, <1>4 DEF Kept

LEMMA DecideRequestKeeps ==
  ASSUME IInv, NEW r \in Handler, NEW a \in Actor, NEW g \in GateId,
         NEW d \in {"APPROVED", "REJECTED"}, DecideRequest(r, a, g, d)
  PROVE  Kept
<1>1. HandlersInv /\ StoresInv
  BY DEF IInv
<1>2. StoresInv' /\ Evolves(gates, gates')
  BY <1>1, SameStores DEF DecideRequest
<1>3. PICK scopes \in ScopeSets : Accept(r, "find", NewJob(gates[g].task, a, g, d, scopes))
  BY DEF DecideRequest
<1>4. gates[g] # None /\ gates[g].task \in Task
  BY <1>1 DEF DecideRequest, StoresInv, Gate
<1> DEFINE job == NewJob(gates[g].task, a, g, d, scopes)
<1>5. job \in Job /\ job.plan = Unplanned /\ job.granted = {} /\ job.status = "REQUESTED"
  BY <1>4, NewJobFields
<1>6. job.gate = g /\ job.task = gates[g].task
  BY DEF NewJob
<1> HIDE DEF job
<1>7. HandlersInv'
  BY <1>1, <1>2, <1>3, <1>4, <1>5, <1>6, AcceptKeeps DEF job
<1> QED  BY <1>2, <1>7 DEF Kept

LEMMA AbortKeeps ==
  ASSUME IInv, NEW r \in Handler, Abort(r)
  PROVE  Kept
BY SameStores, ReturnKeepsHandlers DEF IInv, Abort, Kept
-----------------------------------------------------------------------------
(* Serving a request. *)

LEMMA LocalMove ==
  ASSUME IInv, UNCHANGED stores,
         NEW r \in Handler, NEW stage \in Stage \ {"idle"}, NEW job \in Job,
         Goto(r, stage, job), JobOK(gates, stage, job), StatusOK(stage, job)
  PROVE  Kept
<1>1. StoresInv' /\ Evolves(gates, gates')
  BY SameStores DEF IInv
<1>2. JobOK(gates', stage, job)
  BY DEF stores
<1> QED  BY <1>1, <1>2, GotoKeepsHandlers DEF IInv, Kept

LEMMA LocalReturn ==
  ASSUME IInv, UNCHANGED stores, NEW r \in Handler, Return(r)
  PROVE  Kept
BY SameStores, ReturnKeepsHandlers DEF IInv, Kept

(* A copy whose plan names the same gates is as well-founded as before. *)
LEMMA SameGates ==
  ASSUME NEW store, NEW job \in Job, NEW new \in Job, SameErrand(new, job),
         \A j \in Step : new.plan[j].gate = job.plan[j].gate,
         PlanRefers(store, job.task, job.plan), GrantsHold(store, job)
  PROVE  /\ PlanRefers(store, new.task, new.plan) /\ GrantsHold(store, new)
         /\ Unread(new) = Unread(job)
<1>1. PlanRefers(store, new.task, new.plan)
  BY DEF SameErrand, PlanRefers
<1>2. GrantsHold(store, new)
  BY DEF SameErrand, GrantsHold, Job
<1>3. Unread(new) = Unread(job)
  BY DEF SameErrand, Unread
<1> QED  BY <1>1, <1>2, <1>3

LEMMA StageFacts ==
  ASSUME IInv, NEW r \in Handler, NEW stage \in Stage \ {"idle"}, pc[r] = stage
  PROVE  h[r] \in Job /\ JobOK(gates, stage, h[r]) /\ StatusOK(stage, h[r])
BY DEF IInv, HandlersInv

LEMMA MakePlanKeeps ==
  ASSUME IInv, NEW r \in Handler, MakePlan(r)
  PROVE  Kept
<1> DEFINE plan == PlanFor(h[r].scopes)
           held == [h[r] EXCEPT !.plan = plan, !.status = "APPROVAL"]
           free == [h[r] EXCEPT !.plan = plan, !.status = "EXECUTING", !.todo = Step]
<1>1. h[r] \in Job /\ JobOK(gates, "plan", h[r]) /\ UNCHANGED stores
  BY StageFacts DEF MakePlan, Serve, Stage
<1>2. h[r].scopes \in SUBSET Scope
  BY <1>1 DEF Job
<1>3. plan \in Plan /\ \A i \in Step : plan[i].gate = None /\ plan[i].st \in {"PLANNED", "BLOCKED"}
  BY <1>2, PlanForType DEF PlanFor
<1>4. h[r].granted = {}
  BY <1>1 DEF JobOK, Fresh
<1> HIDE DEF plan
<1>5. CASE GatedActions(plan) # {}
  <2>1. held \in Job /\ held.plan = plan /\ held.granted = {} /\ held.status = "APPROVAL"
    BY <1>1, <1>3, <1>4 DEF Job, TaskState, TaskTransitions
  <2>2. Goto(r, "gate", held)
    BY <1>5 DEF MakePlan, plan
  <2> HIDE DEF held
  <2>3. PlanRefers(gates, held.task, held.plan) /\ GrantsHold(gates, held)
    BY <1>3, <2>1 DEF PlanRefers, GrantsHold
  <2>4. JobOK(gates, "gate", held) /\ StatusOK("gate", held)
    BY <1>3, <2>1, <2>3 DEF JobOK, StatusOK, Fresh, Deciders
  <2> QED  BY <1>1, <2>1, <2>2, <2>4, LocalMove DEF Stage
<1>6. CASE GatedActions(plan) = {}
  <2>1. /\ free \in Job /\ free.plan = plan /\ free.granted = {} /\ free.status = "EXECUTING"
        /\ free.final = h[r].final
    BY <1>1, <1>3, <1>4 DEF Job, TaskState, TaskTransitions
  <2>2. Goto(r, "run", free)
    BY <1>6 DEF MakePlan, plan
  <2> HIDE DEF free
  <2>3. PlanRefers(gates, free.task, free.plan) /\ GrantsHold(gates, free) /\ Unread(free) = {}
    BY <1>3, <2>1 DEF PlanRefers, GrantsHold, Unread
  <2>4. HeavyHeld(free.plan)
    BY <1>3, <1>6, <2>1 DEF HeavyHeld, GatedActions
  <2>5. JobOK(gates, "run", free) /\ StatusOK("run", free)
    BY <2>1, <2>3, <2>4 DEF JobOK, StatusOK, Fresh, Deciders
  <2> QED  BY <1>1, <2>1, <2>2, <2>5, LocalMove DEF Stage
<1> QED  BY <1>5, <1>6

LEMMA RequestGateKeeps ==
  ASSUME IInv, NEW r \in Handler, RequestGate(r)
  PROVE  Kept
<1>1. h[r] \in Job /\ JobOK(gates, "gate", h[r]) /\ UNCHANGED tasks
  BY StageFacts DEF RequestGate, Serve, Stage
<1>2. PICK i \in Step, g \in GateId :
        /\ First(i, GatedActions(h[r].plan))
        /\ OpenGate(g, h[r], i)
        /\ Goto(r, IF GatedActions(h[r].plan) = {i} THEN "park" ELSE "gate", Awaiting(h[r], i, g))
  BY DEF RequestGate
<1> DEFINE job == Awaiting(h[r], i, g)
           stage == IF GatedActions(h[r].plan) = {i} THEN "park" ELSE "gate"
<1>3. /\ Evolves(gates, gates') /\ gates' \in [GateId -> Gate \cup {None}]
      /\ RaisedFor(gates', g, h[r].task, i)
  BY <1>1, <1>2, OpenGateGrows DEF IInv
<1>4. StoresInv'
  BY <1>1, <1>3, GatesGrow DEF IInv
<1>5. /\ SameErrand(job, h[r])
      /\ \A j \in Step :
           job.plan[j] = IF j = i THEN [st |-> "AWAITING_APPROVAL", gate |-> g] ELSE h[r].plan[j]
  BY <1>1, <1>2, AwaitingFields
<1>6. JobOK(gates', "gate", h[r])
  BY <1>1, <1>3, JobOKStable DEF Stage
<1>7. h[r].plan[i].st = "PLANNED" /\ RequiresHumanApproval(Manifest[i])
  BY <1>2 DEF First, GatedActions
<1> HIDE DEF job
<1>8. PlanRefers(gates', job.task, job.plan)
  BY <1>3, <1>5, <1>6 DEF JobOK, PlanRefers, SameErrand
<1>9. GrantsHold(gates', job)
  BY <1>5, <1>6 DEF JobOK, GrantsHold, SameErrand
<1>10. CASE GatedActions(h[r].plan) # {i}
  <2>1. JobOK(gates', "gate", job) /\ StatusOK("gate", job)
    BY <1>5, <1>6, <1>8, <1>9, NoneAssumption DEF JobOK, StatusOK, Fresh, Deciders, SameErrand
  <2> QED  BY <1>2, <1>3, <1>4, <1>5, <1>10, <2>1, GotoKeepsHandlers
           DEF IInv, Kept, SameErrand, Stage, job
<1>11. CASE GatedActions(h[r].plan) = {i}
  <2>1. HeavyHeld(job.plan)
    BY <1>5, <1>6, <1>11, NoneAssumption DEF HeavyHeld, GatedActions, JobOK
  <2>2. JobOK(gates', "park", job) /\ StatusOK("park", job)
    BY <1>8, <1>9, <2>1 DEF JobOK, StatusOK, Fresh, Deciders
  <2> QED  BY <1>2, <1>3, <1>4, <1>5, <1>11, <2>2, GotoKeepsHandlers
           DEF IInv, Kept, SameErrand, Stage, job
<1> QED  BY <1>10, <1>11

LEMMA ParkKeeps ==
  ASSUME IInv, NEW r \in Handler, Park(r)
  PROVE  Kept
<1>1. h[r] \in Job /\ JobOK(gates, "park", h[r]) /\ UNCHANGED gates /\ Return(r)
  BY StageFacts DEF Park, Serve, Stage
<1> DEFINE report == [status |-> "APPROVAL", plan |-> h[r].plan]
<1>2. tasks' = [tasks EXCEPT ![h[r].task] = report]
  BY DEF Park, Persist
<1>3. h[r].task \in Task /\ report \in Report
  BY <1>1 DEF Job, Report, TaskState, TaskTransitions
<1>4. ReportOK(gates, h[r].task, report)
  BY <1>1 DEF JobOK, ReportOK
<1> HIDE DEF report
<1>5. StoresInv' /\ Evolves(gates, gates')
  BY <1>1, <1>2, <1>3, <1>4, TasksMove DEF IInv
<1> QED  BY <1>1, <1>5, ReturnKeepsHandlers DEF IInv, Kept
LEMMA LoadParkedKeeps ==
  ASSUME IInv, NEW r \in Handler, LoadParked(r)
  PROVE  Kept
<1>1. h[r] \in Job /\ JobOK(gates, "load", h[r]) /\ UNCHANGED stores
  BY StageFacts DEF LoadParked, Serve, Stage
<1> DEFINE job == Loaded(h[r])
<1>2. CASE tasks[h[r].task].status = "APPROVAL"
  <2>1. h[r].task \in Task
    BY <1>1 DEF Job
  <2>2. tasks[h[r].task] \in Report /\ ReportOK(gates, h[r].task, tasks[h[r].task])
    BY <2>1 DEF IInv, StoresInv
  <2>3. /\ job \in Job /\ job.task = h[r].task /\ job.plan = tasks[h[r].task].plan
        /\ job.granted = h[r].granted /\ job.status = "APPROVAL"
    BY <1>1, <1>2, <2>2 DEF Loaded, Job, Report, TaskState, TaskTransitions
  <2>4. Goto(r, "check", job)
    BY <1>2 DEF LoadParked
  <2> HIDE DEF job
  <2>5. PlanRefers(gates, job.task, job.plan) /\ HeavyHeld(job.plan)
    BY <1>2, <2>2, <2>3 DEF ReportOK
  <2>6. GrantsHold(gates, job)
    BY <1>1, <2>3 DEF JobOK, GrantsHold, Fresh
  <2>7. JobOK(gates, "check", job) /\ StatusOK("check", job)
    BY <2>3, <2>5, <2>6 DEF JobOK, StatusOK, Fresh, Deciders
  <2> QED  BY <1>1, <2>3, <2>4, <2>7, LocalMove DEF Stage
<1>3. CASE tasks[h[r].task].status # "APPROVAL"
  BY <1>1, <1>3, LocalReturn DEF LoadParked
<1> QED  BY <1>2, <1>3

LEMMA CheckGateKeeps ==
  ASSUME IInv, NEW r \in Handler, CheckGate(r)
  PROVE  Kept
<1>1. h[r] \in Job /\ JobOK(gates, "check", h[r]) /\ StatusOK("check", h[r]) /\ UNCHANGED stores
  BY StageFacts DEF CheckGate, Serve, Stage
<1>2. PICK i \in Step :
        /\ First(i, Unread(h[r]))
        /\ CASE gates[h[r].plan[i].gate].status = "REJECTED" ->
                  Goto(r, "settle", [SetStatus(h[r], i, "BLOCKED") EXCEPT !.final = "BLOCKED"])
             [] gates[h[r].plan[i].gate].status = "PENDING" -> Return(r)
             [] OTHER ->
                  Goto(r, "check", [SetStatus(h[r], i, "PLANNED") EXCEPT !.granted = @ \cup {i}])
  BY DEF CheckGate
<1> DEFINE g == h[r].plan[i].gate
<1>3. g # None /\ i \notin h[r].granted
  BY <1>2 DEF First, Unread
<1>4. RaisedFor(gates, g, h[r].task, i) /\ gates[g] \in Gate
  BY <1>1, <1>3 DEF JobOK, PlanRefers, RaisedFor, IInv, StoresInv
<1>5. CASE gates[g].status = "REJECTED"
  <2> DEFINE set == SetStatus(h[r], i, "BLOCKED")
             job == [set EXCEPT !.final = "BLOCKED"]
  <2>1. /\ SameErrand(set, h[r]) /\ set.status = h[r].status
        /\ \A j \in Step : set.plan[j].gate = h[r].plan[j].gate
    BY <1>1, SetStatusFields DEF ActionStatus
  <2>2. Goto(r, "settle", job)
    BY <1>2, <1>5
  <2> HIDE DEF set
  <2>3. /\ job \in Job /\ SameErrand(job, h[r]) /\ job.status = h[r].status
        /\ job.plan = set.plan /\ job.final = "BLOCKED"
    BY <2>1 DEF SameErrand, Job, Terminal
  <2> HIDE DEF job
  <2>4. PlanRefers(gates, job.task, job.plan) /\ GrantsHold(gates, job)
    BY <1>1, <2>1, <2>3, SameGates DEF JobOK
  <2>5. JobOK(gates, "settle", job) /\ StatusOK("settle", job)
    BY <1>1, <2>3, <2>4 DEF JobOK, StatusOK, Fresh, Deciders
  <2> QED  BY <1>1, <2>2, <2>3, <2>5, LocalMove DEF Stage
<1>6. CASE gates[g].status = "PENDING"
  BY <1>1, <1>2, <1>6, LocalReturn
<1>7. CASE gates[g].status = "APPROVED"
  <2> DEFINE set == SetStatus(h[r], i, "PLANNED")
             job == [set EXCEPT !.granted = @ \cup {i}]
  <2>1. /\ SameErrand(set, h[r]) /\ set.status = h[r].status
        /\ \A j \in Step : /\ set.plan[j].gate = h[r].plan[j].gate
                           /\ set.plan[j].st = IF j = i THEN "PLANNED" ELSE h[r].plan[j].st
    BY <1>1, SetStatusFields DEF ActionStatus
  <2>2. Goto(r, "check", job)
    BY <1>2, <1>7
  <2> HIDE DEF set
  <2>3. /\ job \in Job /\ job.status = h[r].status /\ job.task = h[r].task
        /\ job.plan = set.plan /\ job.granted = h[r].granted \cup {i}
    BY <2>1 DEF SameErrand, Job
  <2> HIDE DEF job
  <2>4. PlanRefers(gates, job.task, job.plan)
    BY <1>1, <2>1, <2>3 DEF JobOK, PlanRefers
  <2>5. GrantsHold(gates, job)
    BY <1>1, <1>3, <1>7, <2>1, <2>3 DEF JobOK, GrantsHold, Job
  <2>6. HeavyHeld(job.plan)
    BY <1>1, <1>3, <2>1, <2>3 DEF JobOK, HeavyHeld
  <2>7. JobOK(gates, "check", job) /\ StatusOK("check", job)
    BY <1>1, <2>3, <2>4, <2>5, <2>6 DEF JobOK, StatusOK, Fresh, Deciders
  <2> QED  BY <1>1, <2>2, <2>3, <2>7, LocalMove DEF Stage
<1>8. gates[g].status \in {"PENDING", "APPROVED", "REJECTED"}
  BY <1>4 DEF Gate
<1> QED  BY <1>5, <1>6, <1>7, <1>8

LEMMA BeginRunKeeps ==
  ASSUME IInv, NEW r \in Handler, BeginRun(r)
  PROVE  Kept
<1>1. h[r] \in Job /\ JobOK(gates, "check", h[r]) /\ UNCHANGED stores /\ Unread(h[r]) = {}
  BY StageFacts DEF BeginRun, Serve, Stage
<1> DEFINE job == [h[r] EXCEPT !.status = "EXECUTING", !.todo = Step]
<1>2. job \in Job /\ SameErrand(job, h[r]) /\ job.plan = h[r].plan /\ job.status = "EXECUTING"
  BY <1>1 DEF SameErrand, Job, TaskState, TaskTransitions
<1>3. Goto(r, "run", job)
  BY DEF BeginRun
<1> HIDE DEF job
<1>4. PlanRefers(gates, job.task, job.plan) /\ GrantsHold(gates, job) /\ Unread(job) = {}
  BY <1>1, <1>2, SameGates DEF JobOK
<1>5. JobOK(gates, "run", job) /\ StatusOK("run", job)
  BY <1>1, <1>2, <1>4 DEF JobOK, StatusOK, Fresh, Deciders
<1> QED  BY <1>1, <1>2, <1>3, <1>5, LocalMove DEF Stage
(* Leaving an action behind keeps a run in order, unless it would let a    *)
(* heavy action through without a gate.                                    *)
LEMMA StepOver ==
  ASSUME NEW store, NEW stage \in {"run", "exec"}, NEW job \in Job,
         JobOK(store, stage, job), StatusOK(stage, job),
         NEW i \in Step, NEW st \in ActionStatus,
         RequiresHumanApproval(Manifest[i]) /\ job.plan[i].gate = None => st = "BLOCKED"
  PROVE  /\ Advance(SetStatus(job, i, st), i) \in Job
         /\ JobOK(store, "run", Advance(SetStatus(job, i, st), i))
         /\ StatusOK("run", Advance(SetStatus(job, i, st), i))
<1> DEFINE set == SetStatus(job, i, st)
           new == Advance(set, i)
<1>1. /\ SameErrand(set, job) /\ set.status = job.status
      /\ \A j \in Step : /\ set.plan[j].gate = job.plan[j].gate
                         /\ set.plan[j].st = IF j = i THEN st ELSE job.plan[j].st
  BY SetStatusFields
<1> HIDE DEF set
<1>2. SameErrand(new, set) /\ new.status = set.status /\ new.plan = set.plan
  BY <1>1, AdvanceFields DEF SameErrand
<1> HIDE DEF new
<1>3. SameErrand(new, job)
  BY <1>1, <1>2 DEF SameErrand
<1>4. PlanRefers(store, new.task, new.plan) /\ GrantsHold(store, new) /\ Unread(new) = {}
  BY <1>1, <1>2, <1>3, SameGates DEF JobOK, SameErrand
<1>5. HeavyHeld(new.plan)
  BY <1>1, <1>2 DEF JobOK, HeavyHeld
<1>6. JobOK(store, "run", new) /\ StatusOK("run", new)
  BY <1>1, <1>2, <1>4, <1>5 DEF JobOK, StatusOK, Fresh, Deciders
<1> QED  BY <1>3, <1>6 DEF SameErrand, set, new

LEMMA SkipActionKeeps ==
  ASSUME IInv, NEW r \in Handler, SkipAction(r)
  PROVE  Kept
<1>1. h[r] \in Job /\ JobOK(gates, "run", h[r]) /\ StatusOK("run", h[r]) /\ UNCHANGED stores
  BY StageFacts DEF SkipAction, Serve, Stage
<1>2. PICK i \in Step : Goto(r, "run", Advance(SetStatus(h[r], i, "BLOCKED"), i))
  BY DEF SkipAction, Next1
<1> DEFINE job == Advance(SetStatus(h[r], i, "BLOCKED"), i)
<1>3. job \in Job /\ JobOK(gates, "run", job) /\ StatusOK("run", job)
  BY <1>1, StepOver DEF ActionStatus
<1> HIDE DEF job
<1> QED  BY <1>1, <1>2, <1>3, LocalMove DEF Stage, job

LEMMA RaiseGateKeeps ==
  ASSUME IInv, NEW r \in Handler, RaiseGate(r)
  PROVE  Kept
<1>1. h[r] \in Job /\ JobOK(gates, "run", h[r]) /\ UNCHANGED tasks
  BY StageFacts DEF RaiseGate, Serve, Stage
<1>2. PICK i \in Step, g \in GateId :
        i \notin h[r].granted /\ OpenGate(g, h[r], i) /\ Goto(r, "park", Awaiting(h[r], i, g))
  BY DEF RaiseGate, Next1
<1> DEFINE job == Awaiting(h[r], i, g)
<1>3. /\ Evolves(gates, gates') /\ gates' \in [GateId -> Gate \cup {None}]
      /\ RaisedFor(gates', g, h[r].task, i)
  BY <1>1, <1>2, OpenGateGrows DEF IInv
<1>4. StoresInv'
  BY <1>1, <1>3, GatesGrow DEF IInv
<1>5. /\ SameErrand(job, h[r])
      /\ \A j \in Step :
           job.plan[j] = IF j = i THEN [st |-> "AWAITING_APPROVAL", gate |-> g] ELSE h[r].plan[j]
  BY <1>1, <1>2, AwaitingFields
<1>6. JobOK(gates', "run", h[r])
  BY <1>1, <1>3, JobOKStable DEF Stage
<1> HIDE DEF job
<1>7. PlanRefers(gates', job.task, job.plan)
  BY <1>3, <1>5, <1>6 DEF JobOK, PlanRefers, SameErrand
<1>8. GrantsHold(gates', job)
  BY <1>1, <1>2, <1>5, <1>6 DEF JobOK, GrantsHold, SameErrand, Job
<1>9. HeavyHeld(job.plan)
  BY <1>5, <1>6, NoneAssumption DEF JobOK, HeavyHeld
<1>10. JobOK(gates', "park", job) /\ StatusOK("park", job)
  BY <1>7, <1>8, <1>9 DEF JobOK, StatusOK, Fresh, Deciders
<1> QED  BY <1>2, <1>3, <1>4, <1>5, <1>10, GotoKeepsHandlers DEF IInv, Kept, SameErrand, Stage, job

(* An action that may run is marked RUNNING and handed to the runtime. *)
LEMMA SetRunning ==
  ASSUME NEW store, NEW job \in Job, JobOK(store, "run", job), StatusOK("run", job),
         NEW i \in Next1(job), Runnable(job, i), NeedsGate(i) => i \in job.granted
  PROVE  /\ SetStatus(job, i, "RUNNING") \in Job
         /\ JobOK(store, "exec", SetStatus(job, i, "RUNNING"))
         /\ StatusOK("exec", SetStatus(job, i, "RUNNING"))
<1> DEFINE new == SetStatus(job, i, "RUNNING")
<1>1. i \in Step /\ First(i, job.todo)
  BY DEF Next1
<1>2. /\ SameErrand(new, job) /\ new.status = job.status /\ new.todo = job.todo
      /\ \A j \in Step : /\ new.plan[j].gate = job.plan[j].gate
                         /\ new.plan[j].st = IF j = i THEN "RUNNING" ELSE job.plan[j].st
  BY <1>1, SetStatusFields DEF ActionStatus
<1> HIDE DEF new
<1>3. PlanRefers(store, new.task, new.plan) /\ GrantsHold(store, new) /\ Unread(new) = {}
  BY <1>2, SameGates DEF JobOK, SameErrand
<1>4. HeavyHeld(new.plan)
  BY <1>1, <1>2 DEF JobOK, HeavyHeld, Runnable
<1>5. ASSUME NEW j \in Next1(new) PROVE j = i
  <2>1. j \in Step /\ i \in Nat /\ j \in Nat
    BY <1>1, ManifestAssumption DEF Next1, Step
  <2> QED  BY <1>1, <1>2, <1>5, <2>1 DEF Next1, First
<1>6. JobOK(store, "exec", new) /\ StatusOK("exec", new)
  BY <1>1, <1>2, <1>3, <1>4, <1>5 DEF JobOK, StatusOK, Fresh, Deciders, SameErrand
<1> QED  BY <1>2, <1>6 DEF SameErrand, new

LEMMA HonourGrantKeeps ==
  ASSUME IInv, NEW r \in Handler, HonourGrant(r)
  PROVE  Kept
<1>1. h[r] \in Job /\ JobOK(gates, "run", h[r]) /\ StatusOK("run", h[r]) /\ UNCHANGED stores
  BY StageFacts DEF HonourGrant, Serve, Stage
<1>2. PICK i \in Next1(h[r]) :
        /\ Runnable(h[r], i) /\ i \in h[r].granted
        /\ IF gates[h[r].plan[i].gate].status = "APPROVED"
           THEN Goto(r, "exec", SetStatus(h[r], i, "RUNNING"))
           ELSE Goto(r, "run", Advance(SetStatus(h[r], i, "BLOCKED"), i))
  BY DEF HonourGrant
<1>3. i \in Step
  BY DEF Next1
<1>4. CASE gates[h[r].plan[i].gate].status = "APPROVED"
  <2> DEFINE job == SetStatus(h[r], i, "RUNNING")
  <2>1. job \in Job /\ JobOK(gates, "exec", job) /\ StatusOK("exec", job)
    BY <1>1, <1>2, SetRunning
  <2> HIDE DEF job
  <2> QED  BY <1>1, <1>2, <1>4, <2>1, LocalMove DEF Stage, job
<1>5. CASE gates[h[r].plan[i].gate].status # "APPROVED"
  <2> DEFINE job == Advance(SetStatus(h[r], i, "BLOCKED"), i)
  <2>1. job \in Job /\ JobOK(gates, "run", job) /\ StatusOK("run", job)
    BY <1>1, <1>3, StepOver DEF ActionStatus
  <2> HIDE DEF job
  <2> QED  BY <1>1, <1>2, <1>5, <2>1, LocalMove DEF Stage, job
<1> QED  BY <1>4, <1>5

LEMMA ProceedKeeps ==
  ASSUME IInv, NEW r \in Handler, Proceed(r)
  PROVE  Kept
<1>1. h[r] \in Job /\ JobOK(gates, "run", h[r]) /\ StatusOK("run", h[r]) /\ UNCHANGED stores
  BY StageFacts DEF Proceed, Serve, Stage
<1>2. PICK i \in Next1(h[r]) :
        Runnable(h[r], i) /\ ~NeedsGate(i) /\ Goto(r, "exec", SetStatus(h[r], i, "RUNNING"))
  BY DEF Proceed
<1> DEFINE job == SetStatus(h[r], i, "RUNNING")
<1>3. job \in Job /\ JobOK(gates, "exec", job) /\ StatusOK("exec", job)
  BY <1>1, <1>2, SetRunning
<1> HIDE DEF job
<1> QED  BY <1>1, <1>2, <1>3, LocalMove DEF Stage, job
(* A heavy action that reached the runtime is behind a gate. *)
LEMMA RunningIsHeld ==
  ASSUME NEW store, NEW job \in Job, JobOK(store, "exec", job),
         NEW i \in Next1(job), RequiresHumanApproval(Manifest[i])
  PROVE  job.plan[i].gate # None /\ i \in job.granted
<1>1. i \in Step /\ job.plan[i].st = "RUNNING" /\ HeavyHeld(job.plan) /\ Unread(job) = {}
  BY DEF JobOK, Next1
<1>2. job.plan[i].gate # None
  BY <1>1 DEF HeavyHeld
<1> QED  BY <1>1, <1>2 DEF Unread

LEMMA ExecuteSucceedsKeeps ==
  ASSUME IInv, NEW r \in Handler, ExecuteSucceeds(r)
  PROVE  Kept
<1>1. h[r] \in Job /\ JobOK(gates, "exec", h[r]) /\ StatusOK("exec", h[r]) /\ UNCHANGED stores
  BY StageFacts DEF ExecuteSucceeds, Serve, Stage
<1>2. PICK i \in Next1(h[r]) : Goto(r, "run", Advance(SetStatus(h[r], i, "SUCCEEDED"), i))
  BY DEF ExecuteSucceeds
<1>3. i \in Step /\ (RequiresHumanApproval(Manifest[i]) => h[r].plan[i].gate # None)
  BY <1>1, RunningIsHeld DEF Next1
<1> DEFINE job == Advance(SetStatus(h[r], i, "SUCCEEDED"), i)
<1>4. job \in Job /\ JobOK(gates, "run", job) /\ StatusOK("run", job)
  BY <1>1, <1>3, StepOver DEF ActionStatus
<1> HIDE DEF job
<1> QED  BY <1>1, <1>2, <1>4, LocalMove DEF Stage, job

(* Compensating only needs a plan whose gates are in order. *)
LEMMA Undoing ==
  ASSUME NEW store, NEW job \in Job,
         PlanRefers(store, job.task, job.plan), GrantsHold(store, job),
         NEW new \in Job, new.task = job.task, new.granted = job.granted,
         \A j \in Step : new.plan[j].gate = job.plan[j].gate,
         new.final # "COMPLETED"
  PROVE  JobOK(store, "undo", new) /\ JobOK(store, "settle", new)
<1>1. PlanRefers(store, new.task, new.plan)
  BY DEF PlanRefers
<1>2. GrantsHold(store, new)
  BY DEF GrantsHold, Job
<1> QED  BY <1>1, <1>2 DEF JobOK, Fresh, Deciders

LEMMA ExecuteFailsKeeps ==
  ASSUME IInv, NEW r \in Handler, ExecuteFails(r)
  PROVE  Kept
<1>1. h[r] \in Job /\ JobOK(gates, "exec", h[r]) /\ StatusOK("exec", h[r]) /\ UNCHANGED stores
  BY StageFacts DEF ExecuteFails, Serve, Stage
<1> DEFINE tries == h[r].tries + 1
           failed(i) == SetStatus(h[r], i, "FAILED")
           retry == [h[r] EXCEPT !.tries = tries]
           undo(i) == [failed(i) EXCEPT !.todo = Undoable(failed(i).plan), !.tries = 0,
                                        !.final = "FAILED"]
<1>2. PICK i \in Step :
        IF tries < MaxAttempts THEN Goto(r, "run", retry) ELSE Goto(r, "undo", undo(i))
  BY DEF ExecuteFails, Next1
<1>3. CASE tries < MaxAttempts
  <2>1. Goto(r, "run", retry)
    BY <1>2, <1>3
  <2>2. /\ retry \in Job /\ SameErrand(retry, h[r]) /\ retry.plan = h[r].plan
        /\ retry.status = h[r].status
    BY <1>1 DEF SameErrand, Job
  <2> HIDE DEF retry
  <2>3. PlanRefers(gates, retry.task, retry.plan) /\ GrantsHold(gates, retry) /\ Unread(retry) = {}
    BY <1>1, <2>2, SameGates DEF JobOK
  <2>4. JobOK(gates, "run", retry) /\ StatusOK("run", retry)
    BY <1>1, <2>2, <2>3 DEF JobOK, StatusOK, Fresh, Deciders
  <2> QED  BY <1>1, <2>1, <2>2, <2>4, LocalMove DEF Stage
<1>4. CASE ~(tries < MaxAttempts)
  <2> DEFINE set == failed(i)
             job == [set EXCEPT !.todo = Undoable(set.plan), !.tries = 0, !.final = "FAILED"]
  <2>1. Goto(r, "undo", job)
    BY <1>2, <1>4
  <2>2. /\ SameErrand(set, h[r]) /\ set.status = h[r].status
        /\ \A j \in Step : set.plan[j].gate = h[r].plan[j].gate
    BY <1>1, SetStatusFields DEF ActionStatus
  <2>3. Undoable(set.plan) \in SUBSET Step
    BY DEF Undoable
  <2> HIDE DEF set
  <2>4. /\ job \in Job /\ job.task = set.task /\ job.granted = set.granted
        /\ job.plan = set.plan /\ job.status = set.status /\ job.final = "FAILED"
    BY <2>2, <2>3 DEF SameErrand, Job, Terminal
  <2> HIDE DEF job
  <2>5. JobOK(gates, "undo", job)
    <3>1. PlanRefers(gates, h[r].task, h[r].plan) /\ GrantsHold(gates, h[r])
      BY <1>1 DEF JobOK
    <3>2. /\ job \in Job /\ job.task = h[r].task /\ job.granted = h[r].granted
          /\ \A j \in Step : job.plan[j].gate = h[r].plan[j].gate
      BY <2>2, <2>4 DEF SameErrand
    <3> QED  BY <1>1, <2>4, <3>1, <3>2, Undoing
  <2>6. StatusOK("undo", job)
    BY <1>1, <2>2, <2>4 DEF StatusOK
  <2> QED  BY <1>1, <2>1, <2>4, <2>5, <2>6, LocalMove DEF Stage
<1> QED  BY <1>3, <1>4

LEMMA CompensateKeeps ==
  ASSUME IInv, NEW r \in Handler, Compensate(r)
  PROVE  Kept
<1>1. h[r] \in Job /\ JobOK(gates, "undo", h[r]) /\ StatusOK("undo", h[r]) /\ UNCHANGED stores
  BY StageFacts DEF Compensate, Serve, Stage, stores
<1>2. PICK i \in Step, ok \in BOOLEAN :
        Goto(r, "undo", Advance(IF ok THEN SetStatus(h[r], i, "COMPENSATED") ELSE h[r], i))
  BY DEF Compensate
<1> DEFINE set == IF ok THEN SetStatus(h[r], i, "COMPENSATED") ELSE h[r]
           job == Advance(set, i)
<1>3. /\ SameErrand(SetStatus(h[r], i, "COMPENSATED"), h[r])
      /\ SetStatus(h[r], i, "COMPENSATED").status = h[r].status
      /\ SetStatus(h[r], i, "COMPENSATED").final = h[r].final
      /\ \A j \in Step : SetStatus(h[r], i, "COMPENSATED").plan[j].gate = h[r].plan[j].gate
  BY <1>1, SetStatusFields DEF ActionStatus
<1>4. /\ SameErrand(set, h[r]) /\ set.status = h[r].status /\ set.final = h[r].final
      /\ \A j \in Step : set.plan[j].gate = h[r].plan[j].gate
  BY <1>1, <1>3 DEF SameErrand
<1>5. Goto(r, "undo", job)
  BY <1>2
<1> HIDE DEF set
<1>6. /\ SameErrand(job, set) /\ job.plan = set.plan /\ job.final = set.final
      /\ job.status = set.status
  BY <1>4, AdvanceFields DEF SameErrand
<1> HIDE DEF job
<1>7. JobOK(gates, "undo", job)
  <2>1. PlanRefers(gates, h[r].task, h[r].plan) /\ GrantsHold(gates, h[r]) /\ h[r].final # "COMPLETED"
    BY <1>1 DEF JobOK
  <2>2. /\ job \in Job /\ job.task = h[r].task /\ job.granted = h[r].granted
        /\ \A j \in Step : job.plan[j].gate = h[r].plan[j].gate
        /\ job.final # "COMPLETED"
    BY <1>4, <1>6, <2>1 DEF SameErrand
  <2> QED  BY <1>1, <2>1, <2>2, Undoing
<1>8. StatusOK("undo", job)
  BY <1>1, <1>4, <1>6 DEF StatusOK
<1> QED  BY <1>1, <1>5, <1>6, <1>7, <1>8, LocalMove DEF Stage, SameErrand

LEMMA CompensatedKeeps ==
  ASSUME IInv, NEW r \in Handler, Compensated(r)
  PROVE  Kept
<1>1. h[r] \in Job /\ JobOK(gates, "undo", h[r]) /\ StatusOK("undo", h[r]) /\ UNCHANGED stores
  BY StageFacts DEF Compensated, Serve, Stage
<1> DEFINE job == [h[r] EXCEPT !.status = IF @ = "EXECUTING" THEN "VERIFYING" ELSE @]
<1>2. /\ job \in Job /\ job.task = h[r].task /\ job.granted = h[r].granted
      /\ job.plan = h[r].plan /\ job.final = h[r].final
      /\ job.status = IF h[r].status = "EXECUTING" THEN "VERIFYING" ELSE h[r].status
  BY <1>1 DEF Job, TaskState, TaskTransitions
<1>3. Goto(r, "settle", job)
  BY DEF Compensated
<1> HIDE DEF job
<1>4. JobOK(gates, "settle", job)
  <2>1. PlanRefers(gates, h[r].task, h[r].plan) /\ GrantsHold(gates, h[r]) /\ h[r].final # "COMPLETED"
    BY <1>1 DEF JobOK
  <2> QED  BY <1>1, <1>2, <2>1, Undoing
<1>5. StatusOK("settle", job)
  BY <1>1, <1>2 DEF StatusOK
<1> QED  BY <1>1, <1>2, <1>3, <1>4, <1>5, LocalMove DEF Stage

LEMMA VerifyKeeps ==
  ASSUME IInv, NEW r \in Handler, Verify(r)
  PROVE  Kept
<1>1. h[r] \in Job /\ JobOK(gates, "run", h[r]) /\ UNCHANGED stores
  BY StageFacts DEF Verify, Serve, Stage
<1>2. PICK final \in Outcomes(h[r].plan) :
        Goto(r, "settle", [h[r] EXCEPT !.status = "VERIFYING", !.final = final])
  BY DEF Verify
<1> DEFINE job == [h[r] EXCEPT !.status = "VERIFYING", !.final = final]
<1>3. final \in Terminal
  BY DEF Outcomes, Terminal
<1>4. job \in Job /\ SameErrand(job, h[r]) /\ job.plan = h[r].plan /\ job.status = "VERIFYING"
  BY <1>1, <1>3 DEF SameErrand, Job, TaskState, TaskTransitions
<1> HIDE DEF job
<1>5. PlanRefers(gates, job.task, job.plan) /\ GrantsHold(gates, job) /\ Unread(job) = {}
  BY <1>1, <1>4, SameGates DEF JobOK
<1>6. JobOK(gates, "settle", job) /\ StatusOK("settle", job)
  BY <1>1, <1>4, <1>5 DEF JobOK, StatusOK, Fresh, Deciders
<1> QED  BY <1>1, <1>2, <1>4, <1>6, LocalMove DEF Stage, job

LEMMA SettleKeeps ==
  ASSUME IInv, NEW r \in Handler, Settle(r)
  PROVE  Kept
<1>1. h[r] \in Job /\ JobOK(gates, "settle", h[r]) /\ UNCHANGED gates /\ Return(r)
  BY StageFacts DEF Settle, Serve, Stage
<1> DEFINE report == [status |-> h[r].final, plan |-> h[r].plan]
<1>2. tasks' = [tasks EXCEPT ![h[r].task] = report]
  BY DEF Settle, Persist
<1>3. h[r].task \in Task /\ report \in Report /\ report.status \in Terminal
  BY <1>1 DEF Job, Report, TaskState, TaskTransitions, Terminal
<1>4. ASSUME report.status = "COMPLETED", NEW i \in Step,
             report.plan[i].st = "SUCCEEDED", RequiresHumanApproval(Manifest[i])
      PROVE  report.plan[i].gate # None /\ gates[report.plan[i].gate].status = "APPROVED"
  <2>1. report.plan[i].gate # None /\ Unread(h[r]) = {} /\ GrantsHold(gates, h[r])
    BY <1>1, <1>4 DEF JobOK, HeavyHeld
  <2>2. i \in h[r].granted
    BY <2>1 DEF Unread
  <2> QED  BY <2>1, <2>2 DEF GrantsHold
<1>5. ReportOK(gates, h[r].task, report)
  BY <1>1, <1>3, <1>4 DEF JobOK, ReportOK, Terminal
<1> HIDE DEF report
<1>6. StoresInv' /\ Evolves(gates, gates')
  BY <1>1, <1>2, <1>3, <1>5, TasksMove DEF IInv
<1> QED  BY <1>1, <1>6, ReturnKeepsHandlers DEF IInv, Kept
LEMMA LoadForCancelKeeps ==
  ASSUME IInv, NEW r \in Handler, LoadForCancel(r)
  PROVE  Kept
<1> DEFINE report == tasks[h[r].task]
           job == [Loaded(h[r]) EXCEPT !.todo = Undoable(report.plan), !.final = "CANCELLED"]
<1>1. h[r] \in Job /\ JobOK(gates, "cancel", h[r]) /\ UNCHANGED stores
  BY StageFacts DEF LoadForCancel, Serve, Stage
<1>2. CASE report.status \notin Terminal /\ Routed(report)
  <2>1. h[r].task \in Task
    BY <1>1 DEF Job
  <2>2. report \in Report /\ ReportOK(gates, h[r].task, report)
    BY <2>1 DEF IInv, StoresInv
  <2>3. report.status \in {"REQUESTED", "APPROVAL"}
    BY <1>2, <2>2 DEF ReportOK, Routed
  <2>4. Undoable(report.plan) \in SUBSET Step
    BY DEF Undoable
  <2>5. Goto(r, "undo", job)
    BY <1>2 DEF LoadForCancel
  <2> HIDE DEF report
  <2>6. /\ job \in Job /\ job.task = h[r].task /\ job.granted = h[r].granted
        /\ job.plan = report.plan /\ job.status = report.status /\ job.final = "CANCELLED"
    BY <1>1, <2>2, <2>3, <2>4
       DEF report, Loaded, Job, Report, TaskState, TaskTransitions, Terminal
  <2> HIDE DEF job
  <2>7. PlanRefers(gates, job.task, job.plan) /\ GrantsHold(gates, job)
    BY <1>1, <2>2, <2>6 DEF ReportOK, JobOK, GrantsHold, Fresh
  <2>8. JobOK(gates, "undo", job) /\ StatusOK("undo", job)
    BY <2>3, <2>6, <2>7 DEF JobOK, StatusOK, Fresh, Deciders
  <2> QED  BY <1>1, <2>5, <2>6, <2>8, LocalMove DEF Stage
<1>3. CASE ~(report.status \notin Terminal /\ Routed(report))
  BY <1>1, <1>3, LocalReturn DEF LoadForCancel
<1> QED  BY <1>2, <1>3

LEMMA FindTaskKeeps ==
  ASSUME IInv, NEW r \in Handler, FindTask(r)
  PROVE  Kept
<1>1. h[r] \in Job /\ JobOK(gates, "find", h[r]) /\ UNCHANGED stores
  BY StageFacts DEF FindTask, Serve, Stage
<1>2. CASE OwnTasks(h[r].actor, h[r].gate) = {}
  <2>1. Goto(r, "decideBrain", h[r])
    BY <1>2 DEF FindTask
  <2>2. JobOK(gates, "decideBrain", h[r]) /\ StatusOK("decideBrain", h[r])
    BY <1>1 DEF JobOK, StatusOK, Fresh, Deciders
  <2> QED  BY <1>1, <2>1, <2>2, LocalMove DEF Stage
<1>3. CASE OwnTasks(h[r].actor, h[r].gate) # {}
  <2>1. PICK t \in OwnTasks(h[r].actor, h[r].gate) :
          Goto(r, "decideTask", [h[r] EXCEPT !.task = t])
    BY <1>3 DEF FindTask
  <2> DEFINE job == [h[r] EXCEPT !.task = t]
  <2>2. /\ job \in Job /\ job.gate = h[r].gate /\ job.granted = h[r].granted
        /\ job.plan = h[r].plan
    BY <1>1 DEF Job, OwnTasks
  <2> HIDE DEF job
  <2>3. JobOK(gates, "decideTask", job) /\ StatusOK("decideTask", job)
    BY <1>1, <2>2 DEF JobOK, StatusOK, Fresh, Deciders, PlanRefers, GrantsHold, Unplanned
  <2> QED  BY <1>1, <2>1, <2>2, <2>3, LocalMove DEF Stage, job
<1> QED  BY <1>2, <1>3

(* Whatever the decision came to, the handler carries on in order: the     *)
(* Brain only with an approval, unless the store is the in-memory one.     *)
LEMMA AfterDecisionKeeps ==
  ASSUME IInv, NEW r \in Handler, pc[r] \in {"decideTask", "decideBrain"},
         AfterDecision(r), UNCHANGED tasks, StoresInv', Evolves(gates, gates'),
         Durable /\ h[r].decision = "APPROVED" => gates'[h[r].gate].status = "APPROVED"
  PROVE  Kept
<1>1. h[r] \in Job /\ JobOK(gates, pc[r], h[r])
  BY StageFacts DEF Stage
<1>2. JobOK(gates', pc[r], h[r])
  BY <1>1, JobOKStable DEF Stage
<1>3. CASE pc[r] = "decideTask"
  <2>1. Goto(r, "load", h[r])
    BY <1>3 DEF AfterDecision
  <2>2. JobOK(gates', "load", h[r]) /\ StatusOK("load", h[r])
    BY <1>2, <1>3 DEF JobOK, StatusOK, Fresh, Deciders
  <2> QED  BY <1>1, <2>1, <2>2, GotoKeepsHandlers DEF IInv, Kept, Stage
<1>4. CASE pc[r] = "decideBrain" /\ h[r].decision = "APPROVED"
  <2>1. Goto(r, "brain", h[r])
    BY <1>4 DEF AfterDecision
  <2>2. JobOK(gates', "brain", h[r]) /\ StatusOK("brain", h[r])
    BY <1>2, <1>4 DEF JobOK, StatusOK, Fresh, Deciders
  <2> QED  BY <1>1, <2>1, <2>2, GotoKeepsHandlers DEF IInv, Kept, Stage
<1>5. CASE pc[r] = "decideBrain" /\ h[r].decision # "APPROVED"
  BY <1>5, ReturnKeepsHandlers DEF IInv, Kept, AfterDecision
<1> QED  BY <1>3, <1>4, <1>5

LEMMA DecideKeeps ==
  ASSUME IInv, NEW r \in Handler, Decide(r)
  PROVE  Kept
<1>1. h[r] \in Job /\ JobOK(gates, pc[r], h[r]) /\ pc[r] \in {"decideTask", "decideBrain"}
  BY StageFacts DEF Decide, Deciding, Stage
<1> DEFINE g == h[r].gate
<1>2. g \in GateId /\ gates[g] \in Gate /\ gates[g].status = "PENDING"
  BY <1>1 DEF JobOK, Deciders, Decide, MayDecide, IInv, StoresInv
<1>3. gates' = [gates EXCEPT ![g] = [gates[g] EXCEPT !.status = h[r].decision,
                                                     !.decidedBy = h[r].actor]]
  BY <1>2 DEF Decide, IInv, StoresInv
<1> HIDE DEF g
<1> DEFINE new == [gates[g] EXCEPT !.status = h[r].decision, !.decidedBy = h[r].actor]
<1>4. /\ new \in Gate /\ new.task = gates[g].task /\ new.step = gates[g].step
      /\ new.by = gates[g].by /\ new.status = h[r].decision
  BY <1>1, <1>2 DEF Gate, Job
<1> HIDE DEF new
<1>5. gates' \in [GateId -> Gate \cup {None}] /\ gates'[g] = new
      /\ \A q \in GateId : q # g => gates'[q] = gates[q]
  BY <1>2, <1>3, <1>4 DEF IInv, StoresInv, new
<1>6. Evolves(gates, gates')
  BY <1>2, <1>4, <1>5, NoneAssumption DEF Evolves
<1>7. StoresInv'
  BY <1>5, <1>6, GatesGrow DEF IInv, Decide
<1>8. Durable /\ h[r].decision = "APPROVED" => gates'[h[r].gate].status = "APPROVED"
  BY <1>4, <1>5 DEF g
<1> QED  BY <1>1, <1>6, <1>7, <1>8, AfterDecisionKeeps DEF Decide

LEMMA DecideRefusedKeeps ==
  ASSUME IInv, NEW r \in Handler, DecideRefused(r)
  PROVE  Kept
<1>1. UNCHANGED stores /\ pc[r] \in {"decideTask", "decideBrain"}
  BY DEF DecideRefused, Deciding
<1>2. CASE Durable
  BY <1>1, <1>2, LocalReturn DEF DecideRefused
<1>3. CASE ~Durable
  <2>1. StoresInv' /\ Evolves(gates, gates')
    BY <1>1, SameStores DEF IInv
  <2> QED  BY <1>1, <1>3, <2>1, AfterDecisionKeeps DEF DecideRefused, stores
<1> QED  BY <1>2, <1>3

LEMMA BrainExecutesKeeps ==
  ASSUME IInv, NEW r \in Handler, BrainExecutes(r)
  PROVE  Kept
<1>1. h[r] \in Job /\ JobOK(gates, "brain", h[r]) /\ UNCHANGED stores
  BY StageFacts DEF BrainExecutes, Serve, Stage
<1>2. PICK result \in {"COMPLETED", "FAILED"} : Goto(r, "record", [h[r] EXCEPT !.final = result])
  BY DEF BrainExecutes
<1> DEFINE job == [h[r] EXCEPT !.final = result]
<1>3. SameErrand(job, h[r]) /\ job.plan = h[r].plan
  BY <1>1 DEF SameErrand, Job, Terminal
<1> HIDE DEF job
<1>4. JobOK(gates, "record", job) /\ StatusOK("record", job)
  BY <1>1, <1>3 DEF JobOK, StatusOK, Fresh, Deciders, SameErrand, PlanRefers, GrantsHold
<1> QED  BY <1>1, <1>2, <1>3, <1>4, LocalMove DEF Stage, SameErrand, job

LEMMA RecordExecutionKeeps ==
  ASSUME IInv, NEW r \in Handler, RecordExecution(r)
  PROVE  Kept
<1>1. h[r] \in Job /\ JobOK(gates, "record", h[r]) /\ UNCHANGED tasks /\ Return(r)
  BY StageFacts DEF RecordExecution, Serve, Stage
<1>2. h[r].gate \in GateId /\ gates[h[r].gate] \in Gate
  BY <1>1 DEF JobOK, Deciders, IInv, StoresInv
<1>3. CASE Durable
  <2> DEFINE g == h[r].gate
             outcome == IF h[r].final = "COMPLETED" THEN "SUCCEEDED" ELSE "FAILED"
             new == [gates[g] EXCEPT !.executed = outcome]
  <2>1. gates' = [gates EXCEPT ![g] = new]
    BY <1>2, <1>3 DEF RecordExecution, IInv, StoresInv
  <2> HIDE DEF g
  <2>2. /\ new \in Gate /\ new.task = gates[g].task /\ new.step = gates[g].step
        /\ new.by = gates[g].by /\ new.status = gates[g].status
        /\ new.decidedBy = gates[g].decidedBy
    BY <1>2 DEF Gate, g
  <2> HIDE DEF new
  <2>3. gates' \in [GateId -> Gate \cup {None}] /\ Evolves(gates, gates')
    BY <1>2, <2>1, <2>2, NoneAssumption DEF IInv, StoresInv, Evolves, g
  <2>4. StoresInv'
    BY <1>1, <2>3, GatesGrow DEF IInv
  <2> QED  BY <1>1, <2>3, <2>4, ReturnKeepsHandlers DEF IInv, Kept
<1>4. CASE ~Durable
  BY <1>1, <1>4, LocalReturn DEF RecordExecution, stores
<1> QED  BY <1>3, <1>4
-----------------------------------------------------------------------------
(* The counters only count, and only two actions run anything. *)

LEMMA CountType ==
  ASSUME NEW f \in [Task -> [Step -> Nat]], NEW t \in Task, NEW i \in Step
  PROVE  Count(f, t, i) \in [Task -> [Step -> Nat]]
<1>1. [f[t] EXCEPT ![i] = @ + 1] \in [Step -> Nat]
  OBVIOUS
<1> QED  BY <1>1 DEF Count

LEMMA CountersKept ==
  ASSUME IInv, Next
  PROVE  CountersInv'
<1>1. PICK r \in Handler : Request(r) \/ Work(r) \/ Abort(r)
  BY DEF Next
<1>2. sent' \in Nat /\ aborted' \in Nat
  <2>1. CASE Request(r)
    BY <2>1 DEF IInv, CountersInv, Request, StartTask, ResumeTask, CancelTask, DecideRequest, Accept
  <2>2. CASE Work(r)
    BY <2>2 DEF IInv, CountersInv, Work, Start, Resume, Execute, Finish, Approve, Serve, Deciding,
         MakePlan, RequestGate, Park, LoadParked, CheckGate, BeginRun, SkipAction, RaiseGate,
         HonourGrant, Proceed, ExecuteSucceeds, ExecuteFails, Compensate, Compensated, Verify,
         Settle, LoadForCancel, FindTask, Decide, DecideRefused, BrainExecutes, RecordExecution
  <2>3. CASE Abort(r)
    BY <2>3 DEF IInv, CountersInv, Abort
  <2> QED  BY <1>1, <2>1, <2>2, <2>3
<1>3. CASE ExecuteSucceeds(r)
  <2>1. h[r].task \in Task
    BY <1>3, StageFacts DEF ExecuteSucceeds, Serve, Stage, Job
  <2>2. PICK i \in Step : ran' = Count(ran, h[r].task, i) /\ undone' = undone
    BY <1>3 DEF ExecuteSucceeds, Next1
  <2> QED  BY <1>2, <2>1, <2>2, CountType DEF IInv, CountersInv
<1>4. CASE BrainExecutes(r)
  <2>1. h[r].task \in Task /\ gates[h[r].gate].step \in Step
    BY <1>4, StageFacts DEF BrainExecutes, Serve, Stage, Job, JobOK, Deciders, IInv, StoresInv, Gate
  <2>2. ran' \in [Task -> [Step -> Nat]] /\ undone' = undone
    BY <1>4, <2>1, CountType DEF BrainExecutes, IInv, CountersInv
  <2> QED  BY <1>2, <2>2 DEF IInv, CountersInv
<1>5. CASE Compensate(r)
  <2>1. h[r].task \in Task
    BY <1>5, StageFacts DEF Compensate, Serve, Stage, Job
  <2>2. PICK i \in Step, ok \in BOOLEAN :
          undone' = IF ok THEN Count(undone, h[r].task, i) ELSE undone
    BY <1>5 DEF Compensate
  <2>3. Count(undone, h[r].task, i) \in [Task -> [Step -> Nat]]
    BY <2>1, CountType DEF IInv, CountersInv
  <2>4. undone' \in [Task -> [Step -> Nat]] /\ ran' = ran
    BY <1>5, <2>2, <2>3 DEF Compensate, IInv, CountersInv
  <2> QED  BY <1>2, <2>4 DEF IInv, CountersInv
<1>6. CASE ~ExecuteSucceeds(r) /\ ~BrainExecutes(r) /\ ~Compensate(r)
  <2>1. UNCHANGED world
    BY <1>1, <1>6
       DEF world, Request, StartTask, ResumeTask, CancelTask, DecideRequest, Abort,
         Work, Start, Resume, Execute, Finish, Approve,
         MakePlan, RequestGate, Park, LoadParked, CheckGate, BeginRun, SkipAction, RaiseGate,
         HonourGrant, Proceed, ExecuteFails, Compensated, Verify,
         Settle, LoadForCancel, FindTask, Decide, DecideRefused, RecordExecution
  <2> QED  BY <1>2, <2>1 DEF IInv, CountersInv, world
<1> QED  BY <1>3, <1>4, <1>5, <1>6

(* Every step keeps the invariant and lets the approval store only grow. *)
LEMMA StepKeeps ==
  ASSUME IInv, Next
  PROVE  IInv' /\ Evolves(gates, gates')
<1>1. PICK r \in Handler : Request(r) \/ Work(r) \/ Abort(r)
  BY DEF Next
<1>2. CASE Request(r)
  <2>1. CASE \E t \in Task : StartTask(r, t) \/ ResumeTask(r, t) \/ CancelTask(r, t)
    BY <2>1, StartTaskKeeps, ResumeTaskKeeps, CancelTaskKeeps, CountersKept DEF IInv, Kept
  <2>2. CASE \E a \in Actor, g \in GateId, d \in {"APPROVED", "REJECTED"} :
               DecideRequest(r, a, g, d)
    BY <2>2, DecideRequestKeeps, CountersKept DEF IInv, Kept
  <2> QED  BY <1>2, <2>1, <2>2 DEF Request
<1>3. CASE Work(r)
  <2>1. CASE Start(r)
    BY <2>1, MakePlanKeeps, RequestGateKeeps, ParkKeeps, CountersKept DEF IInv, Kept, Start
  <2>2. CASE Resume(r)
    BY <2>2, LoadParkedKeeps, CheckGateKeeps, BeginRunKeeps, CountersKept DEF IInv, Kept, Resume
  <2>3. CASE Execute(r)
    BY <2>3, SkipActionKeeps, RaiseGateKeeps, HonourGrantKeeps, ProceedKeeps,
       ExecuteSucceedsKeeps, ExecuteFailsKeeps, CountersKept DEF IInv, Kept, Execute
  <2>4. CASE Finish(r)
    BY <2>4, CompensateKeeps, CompensatedKeeps, VerifyKeeps, SettleKeeps, CountersKept
       DEF IInv, Kept, Finish
  <2>5. CASE Approve(r)
    BY <2>5, FindTaskKeeps, DecideKeeps, DecideRefusedKeeps, BrainExecutesKeeps,
       RecordExecutionKeeps, CountersKept DEF IInv, Kept, Approve
  <2>6. CASE LoadForCancel(r)
    BY <2>6, LoadForCancelKeeps, CountersKept DEF IInv, Kept
  <2> QED  BY <1>3, <2>1, <2>2, <2>3, <2>4, <2>5, <2>6 DEF Work
<1>4. CASE Abort(r)
  BY <1>4, AbortKeeps, CountersKept DEF IInv, Kept
<1> QED  BY <1>1, <1>2, <1>3, <1>4

LEMMA StutterKeeps ==
  ASSUME IInv, UNCHANGED vars
  PROVE  IInv'
<1>1. HandlersInv'
  BY DEF IInv, HandlersInv, vars
<1>2. StoresInv' /\ CountersInv'
  BY DEF IInv, StoresInv, CountersInv, vars
<1> QED  BY <1>1, <1>2 DEF IInv

(* The inductive invariant: what every handler holds and every store keeps *)
(* agrees with the gates that were raised and decided.                     *)
THEOREM Invariance == Spec => []IInv
<1>1. IInv /\ [Next]_vars => IInv'
  BY StepKeeps, StutterKeeps
<1> QED  BY InitIInv, <1>1, PTL DEF Spec

-----------------------------------------------------------------------------
(* Type correctness: whatever requests arrive, overlap or are lost, the    *)
(* stores and every handler's own copy hold well-formed records.           *)
THEOREM TypeCorrectness == Spec => []TypeOK
BY Invariance, IInvTypeOK, PTL

(* A decision on a gate is final, for any number of approvers racing: the  *)
(* conditional update of approvals.service.ts and of the in-memory store.  *)
THEOREM DecisionsStand == Spec => DecisionsAreFinal
<1>1. IInv /\ [Next]_vars =>
        [\A g \in GateId : gates[g] # None /\ gates[g].status # "PENDING" =>
           gates'[g].status = gates[g].status /\ gates'[g].decidedBy = gates[g].decidedBy]_vars
  BY StepKeeps DEF Evolves
<1> QED  BY <1>1, Invariance, PTL DEF Spec, DecisionsAreFinal

(* A report that says COMPLETED holds an approved gate of its own for      *)
(* every heavy action that succeeded, whatever ran concurrently.           *)
THEOREM CompletedIsApproved == Spec => []CompletedWasApproved
<1>1. IInv => CompletedWasApproved
  <2> SUFFICES ASSUME IInv, NEW t \in Task, tasks[t].status = "COMPLETED", NEW i \in Step,
                      tasks[t].plan[i].st = "SUCCEEDED", RequiresHumanApproval(Manifest[i])
               PROVE  LET g == tasks[t].plan[i].gate IN
                      g # None /\ gates[g].task = t /\ gates[g].step = i
                               /\ gates[g].status = "APPROVED"
    BY DEF CompletedWasApproved
  <2>1. ReportOK(gates, t, tasks[t])
    BY DEF IInv, StoresInv
  <2> QED  BY <2>1 DEF ReportOK, PlanRefers, RaisedFor
<1> QED  BY <1>1, Invariance, PTL

(* The transition table never refuses a move the orchestrator is about to  *)
(* make, so no request dies half-way in move().                            *)
THEOREM EveryMoveIsLegal == Spec => []MovesAreLegal
<1>1. IInv => MovesAreLegal
  <2> SUFFICES ASSUME IInv, NEW r \in Handler, pc[r] \in {"plan", "check", "run", "settle", "undo"}
               PROVE  LET status == h[r].status IN
                      /\ pc[r] = "plan"   => CanTransition(status, "UNDERSTANDING")
                      /\ pc[r] = "check"  => /\ CanTransition(status, "EXECUTING")
                                             /\ CanTransition(status, "REPORTING")
                      /\ pc[r] = "run"    => /\ CanTransition(status, "APPROVAL")
                                             /\ CanTransition(status, "VERIFYING")
                      /\ pc[r] = "settle" => /\ CanTransition(status, "REPORTING")
                                             /\ CanTransition("REMEMBERING", h[r].final)
                      /\ pc[r] = "undo" /\ h[r].final = "CANCELLED" =>
                           CanTransition(status, "REPORTING")
    BY DEF MovesAreLegal
  <2>1. StatusOK(pc[r], h[r]) /\ h[r].final \in Terminal
    BY DEF IInv, HandlersInv, Job
  <2> QED  BY <2>1 DEF StatusOK, CanTransition, TaskTransitions
<1> QED  BY <1>1, Invariance, PTL
-----------------------------------------------------------------------------
(* Only the execution manager and the Brain hand anything to the runtime. *)
LEMMA WhoRuns ==
  ASSUME NEW r \in Handler, Request(r) \/ Work(r) \/ Abort(r), ran' # ran
  PROVE  ExecuteSucceeds(r) \/ BrainExecutes(r)
BY DEF world, Request, StartTask, ResumeTask, CancelTask, DecideRequest, Abort,
       Work, Start, Resume, Execute, Finish, Approve,
       MakePlan, RequestGate, Park, LoadParked, CheckGate, BeginRun, SkipAction, RaiseGate,
       HonourGrant, Proceed, ExecuteFails, Compensate, Compensated, Verify,
       Settle, LoadForCancel, FindTask, Decide, DecideRefused, RecordExecution

LEMMA CountElsewhere ==
  ASSUME NEW f \in [Task -> [Step -> Nat]], NEW u \in Task, NEW j \in Step,
         NEW t \in Task, NEW i \in Step, Count(f, u, j)[t][i] # f[t][i]
  PROVE  t = u /\ i = j
<1>1. [f[u] EXCEPT ![j] = @ + 1] \in [Step -> Nat]
  OBVIOUS
<1>2. Count(f, u, j) = [f EXCEPT ![u] = [f[u] EXCEPT ![j] = @ + 1]]
  BY DEF Count
<1>3. t = u
  BY <1>2
<1> QED  BY <1>2, <1>3

(* A guarded action the execution manager runs has an approved gate. *)
LEMMA ExecutedWasApproved ==
  ASSUME IInv, NEW r \in Handler, ExecuteSucceeds(r), NEW t \in Task, NEW i \in Step,
         Runs(t, i), Guarded(i)
  PROVE  \E g \in GateId : /\ gates[g] # None /\ gates[g].task = t /\ gates[g].step = i
                           /\ gates[g].status = "APPROVED"
<1>1. h[r] \in Job /\ JobOK(gates, "exec", h[r])
  BY StageFacts DEF ExecuteSucceeds, Serve, Stage
<1>2. PICK j \in Next1(h[r]) : ran' = Count(ran, h[r].task, j)
  BY DEF ExecuteSucceeds
<1>3. h[r].task \in Task /\ j \in Step
  BY <1>1 DEF Job, Next1
<1>4. t = h[r].task /\ i = j
  <2>1. ran \in [Task -> [Step -> Nat]]
    BY DEF IInv, CountersInv
  <2>2. Count(ran, h[r].task, j)[t][i] # ran[t][i]
    BY <1>2 DEF Runs
  <2> QED  BY <1>3, <2>1, <2>2, CountElsewhere
<1>5. i \in h[r].granted
  <2>1. CASE RequiresHumanApproval(Manifest[i])
    BY <1>1, <1>2, <1>4, <2>1, RunningIsHeld
  <2>2. CASE NeedsGate(i)
    BY <1>1, <1>2, <1>4, <2>2 DEF JobOK
  <2> QED  BY <2>1, <2>2 DEF Guarded
<1>6. h[r].plan[i].gate # None /\ gates[h[r].plan[i].gate].status = "APPROVED"
  BY <1>1, <1>5 DEF JobOK, GrantsHold
<1>7. RaisedFor(gates, h[r].plan[i].gate, t, i)
  BY <1>1, <1>4, <1>6 DEF JobOK, PlanRefers
<1> QED  BY <1>6, <1>7 DEF RaisedFor

(* With the durable store, so has one the Brain runs. *)
LEMMA BrainRunsApproved ==
  ASSUME IInv, Durable, NEW r \in Handler, BrainExecutes(r), NEW t \in Task, NEW i \in Step,
         Runs(t, i)
  PROVE  \E g \in GateId : /\ gates[g] # None /\ gates[g].task = t /\ gates[g].step = i
                           /\ gates[g].status = "APPROVED"
<1> DEFINE g == h[r].gate
<1>1. h[r] \in Job /\ JobOK(gates, "brain", h[r])
  BY StageFacts DEF BrainExecutes, Serve, Stage
<1>2. g \in GateId /\ gates[g] # None /\ gates[g].task = h[r].task /\ gates[g].status = "APPROVED"
  BY <1>1 DEF JobOK, Deciders
<1>3. gates[g].step \in Step /\ h[r].task \in Task
  BY <1>1, <1>2 DEF IInv, StoresInv, Gate, Job
<1>4. ran' = Count(ran, h[r].task, gates[g].step)
  BY DEF BrainExecutes, Runs
<1> HIDE DEF g
<1>5. t = h[r].task /\ i = gates[g].step
  <2>1. ran \in [Task -> [Step -> Nat]]
    BY DEF IInv, CountersInv
  <2>2. Count(ran, h[r].task, gates[g].step)[t][i] # ran[t][i]
    BY <1>4 DEF Runs
  <2> QED  BY <1>3, <2>1, <2>2, CountElsewhere
<1> QED  BY <1>2, <1>5

(* The central promise: with the durable store, an L3 or L4 action, or one *)
(* the configured threshold guards, never runs without a gate raised for   *)
(* it and approved by a human, however requests interleave or are lost.    *)
THEOREM NothingGuardedRunsUnapproved ==
  ASSUME Durable
  PROVE  Spec => GuardedRunsAreApproved
<1>1. IInv /\ [Next]_vars =>
        [\A t \in Task, i \in Step : Runs(t, i) /\ Guarded(i) =>
           \E g \in GateId : /\ gates[g] # None
                             /\ gates[g].task = t /\ gates[g].step = i
                             /\ gates[g].status = "APPROVED"]_vars
  <2> SUFFICES ASSUME IInv, Next, NEW t \in Task, NEW i \in Step, Runs(t, i), Guarded(i)
               PROVE  \E g \in GateId : /\ gates[g] # None
                                        /\ gates[g].task = t /\ gates[g].step = i
                                        /\ gates[g].status = "APPROVED"
    OBVIOUS
  <2>1. PICK r \in Handler : Request(r) \/ Work(r) \/ Abort(r)
    BY DEF Next
  <2>2. ExecuteSucceeds(r) \/ BrainExecutes(r)
    BY <2>1, WhoRuns DEF Runs
  <2> QED  BY <2>2, ExecutedWasApproved, BrainRunsApproved
<1> QED  BY <1>1, Invariance, PTL DEF Spec, GuardedRunsAreApproved

(* Opening a gate decides nothing. *)
LEMMA OpeningDecidesNothing ==
  ASSUME StoresInv, NEW g \in GateId, NEW job \in Job, NEW i \in Step, OpenGate(g, job, i),
         NEW q \in GateId
  PROVE  gates'[q] = gates[q] \/ gates'[q].status = "PENDING"
BY DEF OpenGate, StoresInv

(* Recording an execution decides nothing. *)
LEMMA RecordingDecidesNothing ==
  ASSUME IInv, NEW r \in Handler, RecordExecution(r), NEW q \in GateId
  PROVE  /\ gates'[q] # None => gates[q] # None
         /\ gates[q] # None => /\ gates'[q].status = gates[q].status
                               /\ gates'[q].decidedBy = gates[q].decidedBy
                               /\ gates'[q].by = gates[q].by
<1>1. h[r].gate \in GateId /\ gates[h[r].gate] \in Gate
  BY StageFacts DEF RecordExecution, Serve, Stage, JobOK, Deciders, IInv, StoresInv
<1>2. CASE q # h[r].gate
  BY <1>1, <1>2 DEF RecordExecution, IInv, StoresInv
<1>3. CASE q = h[r].gate
  <2>1. gates[q] # None
    BY <1>1, <1>3, NoneAssumption
  <2>2. /\ gates'[q].status = gates[q].status /\ gates'[q].decidedBy = gates[q].decidedBy
        /\ gates'[q].by = gates[q].by
    BY <1>1, <1>3 DEF RecordExecution, IInv, StoresInv, Gate
  <2> QED  BY <2>1, <2>2
<1> QED  BY <1>2, <1>3

(* A decision is taken by someone other than the requester. *)
LEMMA DecidedByAnother ==
  ASSUME IInv, Durable, RequireSeparateApprover, SeparationOfDuty,
         NEW r \in Handler, Decide(r), NEW q \in GateId,
         gates'[q] # None, gates'[q].status # "PENDING"
  PROVE  gates'[q].decidedBy # gates'[q].by
<1>1. h[r] \in Job /\ h[r].gate \in GateId /\ gates[h[r].gate] \in Gate
  BY StageFacts DEF Decide, Deciding, Stage, JobOK, Deciders, IInv, StoresInv
<1>2. gates[h[r].gate].by # h[r].actor
  BY DEF Decide, MayDecide
<1>3. CASE q # h[r].gate
  BY <1>1, <1>3 DEF Decide, IInv, StoresInv, SeparationOfDuty
<1>4. CASE q = h[r].gate
  BY <1>1, <1>2, <1>4 DEF Decide, IInv, StoresInv, Gate
<1> QED  BY <1>3, <1>4

(* With separation of duty on, no gate is ever decided by whoever raised   *)
(* it, through either door (approvals.service.ts:192).                     *)
THEOREM DutiesAreSeparate ==
  ASSUME Durable, RequireSeparateApprover
  PROVE  Spec => []SeparationOfDuty
<1>1. Init => SeparationOfDuty
  BY DEF Init, SeparationOfDuty
<1>2. IInv /\ SeparationOfDuty /\ [Next]_vars => SeparationOfDuty'
  <2> SUFFICES ASSUME IInv, SeparationOfDuty, [Next]_vars, NEW q \in GateId,
                      gates'[q] # None, gates'[q].status # "PENDING"
               PROVE  gates'[q].decidedBy # gates'[q].by
    BY DEF SeparationOfDuty
  <2>1. CASE UNCHANGED gates
    BY <2>1 DEF SeparationOfDuty
  <2>2. CASE \E r \in Handler : RequestGate(r) \/ RaiseGate(r)
    <3>1. PICK r \in Handler : RequestGate(r) \/ RaiseGate(r)
      BY <2>2
    <3>2. h[r] \in Job
      BY <3>1, StageFacts DEF RequestGate, RaiseGate, Serve, Stage
    <3>3. PICK g \in GateId, i \in Step : OpenGate(g, h[r], i)
      BY <3>1 DEF RequestGate, RaiseGate, Next1
    <3>4. gates'[q] = gates[q]
      BY <3>2, <3>3, OpeningDecidesNothing DEF IInv
    <3> QED  BY <3>4 DEF SeparationOfDuty
  <2>3. CASE \E r \in Handler : Decide(r)
    BY <2>3, DecidedByAnother
  <2>4. CASE \E r \in Handler : RecordExecution(r)
    <3>1. PICK r \in Handler : RecordExecution(r)
      BY <2>4
    <3>2. /\ gates[q] # None /\ gates'[q].status = gates[q].status
          /\ gates'[q].decidedBy = gates[q].decidedBy /\ gates'[q].by = gates[q].by
      BY <3>1, RecordingDecidesNothing
    <3> QED  BY <3>2 DEF SeparationOfDuty
  <2>5. \/ UNCHANGED gates
        \/ \E r \in Handler : RequestGate(r) \/ RaiseGate(r) \/ Decide(r) \/ RecordExecution(r)
    BY ZenonT(60) DEF vars, stores, Next, Request, StartTask, ResumeTask, CancelTask, DecideRequest, Abort,
         Work, Start, Resume, Execute, Finish, Approve,
         MakePlan, Park, LoadParked, CheckGate, BeginRun, SkipAction,
         HonourGrant, Proceed, ExecuteSucceeds, ExecuteFails, Compensate, Compensated, Verify,
         Settle, LoadForCancel, FindTask, DecideRefused, BrainExecutes
  <2> QED  BY <2>1, <2>2, <2>3, <2>4, <2>5
<1> QED  BY <1>1, <1>2, Invariance, PTL DEF Spec

-----------------------------------------------------------------------------
(***************************************************************************)
(* What the orchestrator promises when requests are served one at a time:  *)
(* that it implements GovernedTask, that its reports are true and that it  *)
(* strands nothing.                                                        *)
(***************************************************************************)

(* No two requests overlap, none is lost on the way, who may approve owns  *)
(* the tasks, and the deployment asks for no gate the plan does not raise: *)
(* the threshold is at L3, or no tool of the manifest lies between.        *)
OneAtATime ==
  /\ \A r, q \in Handler : r = q
  /\ MaxAborts = 0
  /\ \A a \in Approver, t \in Task : a = Owner[t]
  /\ \A i \in Step : NeedsGate(i) => RequiresHumanApproval(Manifest[i])

-----------------------------------------------------------------------------
(* The inductive invariant. A report is what the store keeps of task t,    *)
(* done and back are what ran and was undone of it, step by step.          *)

Untouched(done, back) == \A i \in Step : done[i] = 0 /\ back[i] = 0

NothingRan(plan) == \A i \in Step : plan[i].st # "SUCCEEDED"

(* What reads SUCCEEDED in a plan is what stands. *)
Stands(done, back, plan) == \A i \in Step : (done[i] > back[i]) <=> (plan[i].st = "SUCCEEDED")

(* Every gate of task t is named by its step in the plan. *)
LeadsBack(store, t, plan) ==
  \A g \in GateId : store[g] # None /\ store[g].task = t => plan[store[g].step].gate = g

(* A task in nobody's hands: never started, parked untouched, or ended. *)
AtRest(store, t, report, done, back) ==
  /\ report.status # "REQUESTED"
  /\ LeadsBack(store, t, report.plan)
  /\ report.status = "APPROVAL" => \E i \in Step : report.plan[i].gate # None
  /\ IF report.status \in Terminal THEN Stands(done, back, report.plan)
     ELSE Untouched(done, back) /\ NothingRan(report.plan)

(* The stages at which a handler has a task in its hands. *)
Working == {"plan", "gate", "park", "check", "run", "exec", "undo", "settle"}

(* Step by step, what a run has done so far is what its plan says. *)
RunSoFar(job, done, back) ==
  \A i \in Step :
    /\ back[i] = 0
    /\ done[i] = IF job.plan[i].st = "SUCCEEDED" THEN 1 ELSE 0
    /\ i \in job.todo => job.plan[i].st # "SUCCEEDED"

(* A task a handler works on: open, with its gates in the handler's plan,  *)
(* and touched only once the run has begun.                                *)
InHand(store, stage, job, report, done, back) ==
  /\ report.status \in {"REQUESTED", "APPROVAL"}
  /\ LeadsBack(store, job.task, job.plan)
  /\ stage \in {"plan", "gate", "park", "check"} => Untouched(done, back) /\ NothingRan(job.plan)
  /\ stage = "gate" => \A i \in Step : job.plan[i].st = "PLANNED" => job.plan[i].gate = None
  /\ stage = "park" => \E i \in Step : job.plan[i].gate # None
  /\ stage = "check" => AtRest(store, job.task, report, done, back)
  /\ stage \in {"run", "exec"} => RunSoFar(job, done, back)
  /\ stage \in {"undo", "settle"} => Stands(done, back, job.plan)
  /\ stage = "undo" => \A i \in job.todo : done[i] = 1 /\ back[i] = 0

(* The Brain never gets to decide or to execute. *)
HandOK(stage, job) ==
  /\ stage \notin {"decideBrain", "brain", "record"}
  /\ stage \in {"find", "decideTask"} => job.actor \in Approver

RanOnce == \A t \in Task, i \in Step : ran[t][i] <= 1

HeavyGates(store) ==
  \A g \in GateId : store[g] # None => RequiresHumanApproval(Manifest[store[g].step])

HandsInv ==
  \A r \in Handler : pc[r] # "idle" =>
    /\ HandOK(pc[r], h[r])
    /\ pc[r] \in Working =>
         InHand(gates, pc[r], h[r], tasks[h[r].task], ran[h[r].task], undone[h[r].task])

RestInv ==
  \A t \in Task : (\A r \in Handler : pc[r] \in Working => h[r].task # t) =>
    AtRest(gates, t, tasks[t], ran[t], undone[t])

PInv == RanOnce /\ HeavyGates(gates) /\ HandsInv /\ RestInv

LEMMA InitPInv == Init => PInv
<1> SUFFICES ASSUME Init PROVE PInv
  OBVIOUS
<1>1. RanOnce
  BY DEF Init, RanOnce
<1>2. HeavyGates(gates) /\ HandsInv
  BY DEF Init, HeavyGates, HandsInv
<1>3. ASSUME NEW t \in Task PROVE AtRest(gates, t, tasks[t], ran[t], undone[t])
  BY DEF Init, AtRest, LeadsBack, Untouched, NothingRan, Terminal, Unplanned
<1> QED  BY <1>1, <1>2, <1>3 DEF PInv, RestInv

-----------------------------------------------------------------------------
(* A step of the only handler. *)

(* What is left to show of a step that takes the handler to a new stage. *)
LEMMA AfterMove ==
  ASSUME OneAtATime, IInv, NEW r \in Handler, NEW stage, NEW job, Goto(r, stage, job),
         RanOnce', HeavyGates(gates'),
         stage # "idle" => HandOK(stage, job),
         stage \in Working =>
           InHand(gates', stage, job, tasks'[job.task], ran'[job.task], undone'[job.task]),
         \A t \in Task : (stage \in Working => job.task # t) =>
           AtRest(gates', t, tasks'[t], ran'[t], undone'[t])
  PROVE  PInv'
<1>1. pc'[r] = stage /\ h'[r] = job /\ \A q \in Handler : q = r
  BY DEF IInv, HandlersInv, Goto, OneAtATime
<1>2. HandsInv'
  BY <1>1 DEF HandsInv
<1>3. RestInv'
  BY <1>1 DEF RestInv
<1> QED  BY <1>2, <1>3 DEF PInv

(* No task but the one the handler holds is in anyone's hands. *)
LEMMA OthersRest ==
  ASSUME OneAtATime, PInv, NEW r \in Handler, NEW t \in Task,
         pc[r] \in Working => h[r].task # t
  PROVE  AtRest(gates, t, tasks[t], ran[t], undone[t])
BY DEF PInv, RestInv, OneAtATime

LEMMA HeldFacts ==
  ASSUME PInv, NEW r \in Handler, pc[r] \in Working
  PROVE  InHand(gates, pc[r], h[r], tasks[h[r].task], ran[h[r].task], undone[h[r].task])
BY DEF PInv, HandsInv, Working

(* A step that touches neither the stores nor the world. *)
LEMMA QuietMove ==
  ASSUME OneAtATime, IInv, PInv, UNCHANGED <<stores, world>>,
         NEW r \in Handler, NEW stage, NEW job, Goto(r, stage, job),
         stage # "idle" => HandOK(stage, job),
         stage \in Working =>
           InHand(gates, stage, job, tasks[job.task], ran[job.task], undone[job.task]),
         \A t \in Task : (stage \in Working => job.task # t) =>
           AtRest(gates, t, tasks[t], ran[t], undone[t])
  PROVE  PInv'
<1>1. tasks' = tasks /\ gates' = gates /\ ran' = ran /\ undone' = undone
  BY DEF stores, world
<1>2. RanOnce' /\ HeavyGates(gates')
  BY <1>1 DEF PInv, RanOnce
<1> QED  BY <1>1, <1>2, AfterMove

(* The handler carries on with the task it holds. *)
LEMMA CarryOn ==
  ASSUME OneAtATime, IInv, PInv, UNCHANGED <<stores, world>>,
         NEW r \in Handler, NEW stage \in Working, NEW job, Goto(r, stage, job),
         pc[r] \in Working, job.task = h[r].task,
         InHand(gates, stage, job, tasks[job.task], ran[job.task], undone[job.task])
  PROVE  PInv'
<1>1. HandOK(stage, job)
  BY DEF HandOK, Working
<1>2. \A t \in Task : job.task # t => AtRest(gates, t, tasks[t], ran[t], undone[t])
  BY OthersRest
<1> QED  BY <1>1, <1>2, QuietMove

(* The handler holds no task, before or after. *)
LEMMA EmptyHanded ==
  ASSUME OneAtATime, IInv, PInv, UNCHANGED <<stores, world>>,
         NEW r \in Handler, NEW stage, NEW job, Goto(r, stage, job),
         pc[r] \notin Working, stage \notin Working,
         stage # "idle" => HandOK(stage, job)
  PROVE  PInv'
<1>1. \A t \in Task : AtRest(gates, t, tasks[t], ran[t], undone[t])
  BY OthersRest
<1> QED  BY <1>1, QuietMove

-----------------------------------------------------------------------------
(* Requests arrive. *)

(* A gate that no plan names was never raised. *)
LEMMA NoGatesYet ==
  ASSUME NEW store, NEW t, LeadsBack(store, t, Unplanned), NEW plan,
         StoresInv, store = gates
  PROVE  LeadsBack(store, t, plan)
BY NoneAssumption DEF LeadsBack, Unplanned, StoresInv, Gate

LEMMA NothingPlanned == NothingRan(Unplanned)
BY DEF NothingRan, Unplanned

LEMMA StartTaskServes ==
  ASSUME OneAtATime, IInv, PInv, NEW r \in Handler, NEW t \in Task, StartTask(r, t)
  PROVE  PInv'
<1>1. PICK scopes \in ScopeSets : Accept(r, "plan", NewJob(t, Owner[t], None, "APPROVED", scopes))
  BY DEF StartTask
<1> DEFINE job == NewJob(t, Owner[t], None, "APPROVED", scopes)
<1>2. job.task = t /\ job.plan = Unplanned
  BY NewJobFields, ActorAssumption
<1>3. Goto(r, "plan", job) /\ pc[r] = "idle"
  BY <1>1 DEF Accept
<1>4. /\ tasks[t].status = "ABSENT" /\ tasks[t].plan = Unplanned
      /\ tasks' = [tasks EXCEPT ![t].status = "REQUESTED"]
      /\ UNCHANGED <<gates, ran, undone>>
  BY DEF StartTask, world, IInv, StoresInv, ReportOK
<1>5. /\ tasks'[t].status = "REQUESTED"
      /\ \A u \in Task : u # t => tasks'[u] = tasks[u]
  BY <1>4 DEF IInv, StoresInv, Report
<1>6. \A u \in Task : AtRest(gates, u, tasks[u], ran[u], undone[u])
  BY <1>3, OthersRest DEF Working
<1>7. LeadsBack(gates, t, job.plan) /\ Untouched(ran[t], undone[t]) /\ NothingRan(job.plan)
  BY <1>2, <1>4, <1>6, NothingPlanned DEF AtRest, Terminal
<1> HIDE DEF job
<1>8. InHand(gates', "plan", job, tasks'[job.task], ran'[job.task], undone'[job.task])
  BY <1>2, <1>4, <1>5, <1>7 DEF InHand
<1>9. \A u \in Task : job.task # u => AtRest(gates', u, tasks'[u], ran'[u], undone'[u])
  BY <1>2, <1>4, <1>5, <1>6
<1>10. RanOnce' /\ HeavyGates(gates')
  BY <1>4 DEF PInv, RanOnce
<1>11. HandOK("plan", job)
  BY DEF HandOK
<1> QED  BY <1>3, <1>8, <1>9, <1>10, <1>11, AfterMove DEF Working

(* A resume, a cancel or a decision takes nothing into its hands yet. *)
LEMMA AcceptServes ==
  ASSUME OneAtATime, IInv, PInv, UNCHANGED <<stores, world>>,
         NEW r \in Handler, NEW stage \in {"load", "cancel", "find"}, NEW job,
         Accept(r, stage, job), stage = "find" => job.actor \in Approver
  PROVE  PInv'
<1>1. Goto(r, stage, job) /\ pc[r] \notin Working /\ stage \notin Working
  BY DEF Accept, Working
<1>2. HandOK(stage, job)
  BY DEF HandOK
<1> QED  BY <1>1, <1>2, EmptyHanded

LEMMA RequestServes ==
  ASSUME OneAtATime, IInv, PInv, NEW r \in Handler, Request(r)
  PROVE  PInv'
<1>1. CASE \E t \in Task : StartTask(r, t)
  BY <1>1, StartTaskServes
<1>2. CASE \E t \in Task : ResumeTask(r, t)
  <2>1. PICK t \in Task : ResumeTask(r, t)
    BY <1>2
  <2>2. PICK scopes \in ScopeSets :
          Accept(r, "load", NewJob(t, Owner[t], None, "APPROVED", scopes))
    BY <2>1 DEF ResumeTask
  <2> QED  BY <2>1, <2>2, AcceptServes DEF ResumeTask
<1>3. CASE \E t \in Task : CancelTask(r, t)
  <2>1. PICK t \in Task : CancelTask(r, t)
    BY <1>3
  <2>2. PICK scopes \in ScopeSets :
          Accept(r, "cancel", NewJob(t, Owner[t], None, "APPROVED", scopes))
    BY <2>1 DEF CancelTask
  <2> QED  BY <2>1, <2>2, AcceptServes DEF CancelTask
<1>4. CASE \E a \in Actor, g \in GateId, d \in {"APPROVED", "REJECTED"} : DecideRequest(r, a, g, d)
  <2>1. PICK a \in Actor, g \in GateId, d \in {"APPROVED", "REJECTED"} : DecideRequest(r, a, g, d)
    BY <1>4
  <2>2. PICK scopes \in ScopeSets : Accept(r, "find", NewJob(gates[g].task, a, g, d, scopes))
    BY <2>1 DEF DecideRequest
  <2>3. NewJob(gates[g].task, a, g, d, scopes).actor \in Approver
    BY <2>1 DEF DecideRequest, NewJob
  <2> QED  BY <2>1, <2>2, <2>3, AcceptServes DEF DecideRequest
<1> QED  BY <1>1, <1>2, <1>3, <1>4 DEF Request

-----------------------------------------------------------------------------
(* Starting a task. *)

LEMMA MakePlanServes ==
  ASSUME OneAtATime, IInv, PInv, NEW r \in Handler, MakePlan(r)
  PROVE  PInv'
<1> DEFINE plan == PlanFor(h[r].scopes)
           held == [h[r] EXCEPT !.plan = plan, !.status = "APPROVAL"]
           free == [h[r] EXCEPT !.plan = plan, !.status = "EXECUTING", !.todo = Step]
           t == h[r].task
<1>1. h[r] \in Job /\ h[r].plan = Unplanned /\ UNCHANGED <<stores, world>> /\ pc[r] = "plan"
  BY StageFacts DEF MakePlan, Serve, Stage, JobOK, Fresh
<1>2. InHand(gates, "plan", h[r], tasks[t], ran[t], undone[t])
  BY <1>1, HeldFacts DEF Working
<1>3. \A i \in Step : plan[i].gate = None /\ plan[i].st \in {"PLANNED", "BLOCKED"}
  BY DEF PlanFor
<1>4. LeadsBack(gates, t, plan)
  BY <1>1, <1>2, NoGatesYet DEF InHand, IInv
<1> HIDE DEF plan
<1>5. /\ held.task = t /\ held.plan = plan
      /\ free.task = t /\ free.plan = plan
  BY <1>1 DEF Job
<1>6. Goto(r, "gate", held) \/ Goto(r, "run", free)
  BY DEF MakePlan, plan
<1> HIDE DEF held, free
<1>7. CASE Goto(r, "gate", held)
  <2>1. InHand(gates, "gate", held, tasks[t], ran[t], undone[t])
    BY <1>2, <1>3, <1>4, <1>5 DEF InHand, NothingRan
  <2> QED  BY <1>1, <1>5, <1>7, <2>1, CarryOn DEF Working
<1>8. CASE Goto(r, "run", free)
  <2>1. RunSoFar(free, ran[t], undone[t])
    BY <1>2, <1>3, <1>5 DEF InHand, Untouched, RunSoFar
  <2>2. InHand(gates, "run", free, tasks[t], ran[t], undone[t])
    BY <1>2, <1>4, <1>5, <2>1 DEF InHand
  <2> QED  BY <1>1, <1>5, <1>8, <2>2, CarryOn DEF Working
<1> QED  BY <1>6, <1>7, <1>8

LEMMA RequestGateServes ==
  ASSUME OneAtATime, IInv, PInv, NEW r \in Handler, RequestGate(r)
  PROVE  PInv'
<1> DEFINE t == h[r].task
<1>1. h[r] \in Job /\ t \in Task /\ UNCHANGED <<tasks, world>> /\ pc[r] = "gate"
  BY StageFacts DEF RequestGate, Serve, Stage, Job
<1>2. PICK i \in Step, g \in GateId :
        /\ First(i, GatedActions(h[r].plan))
        /\ OpenGate(g, h[r], i)
        /\ Goto(r, IF GatedActions(h[r].plan) = {i} THEN "park" ELSE "gate", Awaiting(h[r], i, g))
  BY DEF RequestGate
<1> DEFINE job == Awaiting(h[r], i, g)
           stage == IF GatedActions(h[r].plan) = {i} THEN "park" ELSE "gate"
<1>3. InHand(gates, "gate", h[r], tasks[t], ran[t], undone[t])
  BY <1>1, HeldFacts DEF Working
<1>4. h[r].plan[i].st = "PLANNED" /\ RequiresHumanApproval(Manifest[i])
  BY <1>2 DEF First, GatedActions
<1>5. /\ job.task = t
      /\ \A j \in Step :
           job.plan[j] = IF j = i THEN [st |-> "AWAITING_APPROVAL", gate |-> g] ELSE h[r].plan[j]
  BY <1>1, <1>2, AwaitingFields DEF SameErrand
<1>6. /\ gates'[g].task = t /\ gates'[g].step = i
      /\ \A q \in GateId : q # g => gates'[q] = gates[q]
  BY <1>1, <1>2 DEF OpenGate, IInv, StoresInv
<1>7. Goto(r, stage, job) /\ stage \in {"park", "gate"}
  BY <1>2
<1> HIDE DEF job, stage
<1>8. LeadsBack(gates', t, job.plan)
  <2> SUFFICES ASSUME NEW q \in GateId, gates'[q] # None, gates'[q].task = t
               PROVE  job.plan[gates'[q].step].gate = q
    BY DEF LeadsBack
  <2>1. CASE q = g
    BY <1>2, <1>5, <1>6, <2>1
  <2>2. CASE q # g
    <3>1. gates[q] # None /\ gates[q].task = t /\ gates'[q] = gates[q]
      BY <1>6, <2>2
    <3>2. gates[q].step \in Step
      BY <3>1 DEF IInv, StoresInv, Gate
    <3>3. h[r].plan[gates[q].step].gate = q
      BY <1>3, <3>1 DEF InHand, LeadsBack
    <3>4. h[r].plan[i].gate = None
      BY <1>3, <1>4 DEF InHand
    <3>5. gates[q].step # i
      BY <3>3, <3>4, NoneAssumption
    <3> QED  BY <1>5, <3>1, <3>2, <3>3, <3>5
  <2> QED  BY <2>1, <2>2
<1>9. /\ NothingRan(job.plan)
      /\ \A j \in Step : job.plan[j].st = "PLANNED" => job.plan[j].gate = None
      /\ \E j \in Step : job.plan[j].gate # None
  BY <1>2, <1>3, <1>5, NoneAssumption DEF InHand, NothingRan
<1>10. InHand(gates', stage, job, tasks'[t], ran'[t], undone'[t])
  BY <1>1, <1>3, <1>5, <1>7, <1>8, <1>9 DEF InHand, world
<1>11. ASSUME NEW u \in Task, job.task # u
       PROVE  AtRest(gates', u, tasks'[u], ran'[u], undone'[u])
  <2>1. AtRest(gates, u, tasks[u], ran[u], undone[u])
    BY <1>5, <1>11, OthersRest
  <2>2. LeadsBack(gates', u, tasks[u].plan)
    BY <1>5, <1>6, <1>11, <2>1 DEF AtRest, LeadsBack
  <2> QED  BY <1>1, <2>1, <2>2 DEF AtRest, world
<1>12. HeavyGates(gates') /\ RanOnce'
  BY <1>1, <1>4, <1>6 DEF PInv, HeavyGates, RanOnce, world
<1>13. HandOK(stage, job)
  BY <1>7 DEF HandOK
<1>14. stage \in Working
  BY <1>7 DEF Working
<1>15. InHand(gates', stage, job, tasks'[job.task], ran'[job.task], undone'[job.task])
  BY <1>5, <1>10
<1> QED  BY <1>7, <1>11, <1>12, <1>13, <1>14, <1>15, AfterMove

LEMMA ParkServes ==
  ASSUME OneAtATime, IInv, PInv, NEW r \in Handler, Park(r)
  PROVE  PInv'
<1> DEFINE t == h[r].task
<1>1. h[r] \in Job /\ t \in Task /\ UNCHANGED <<gates, ran, undone>> /\ pc[r] = "park"
  BY StageFacts DEF Park, Serve, Stage, Job, world
<1>2. InHand(gates, "park", h[r], tasks[t], ran[t], undone[t])
  BY <1>1, HeldFacts DEF Working
<1>3. /\ tasks'[t] = [status |-> "APPROVAL", plan |-> h[r].plan]
      /\ \A u \in Task : u # t => tasks'[u] = tasks[u]
  BY <1>1 DEF Park, Persist, IInv, StoresInv
<1>4. AtRest(gates', t, tasks'[t], ran'[t], undone'[t])
  BY <1>1, <1>2, <1>3 DEF InHand, AtRest, Terminal
<1>5. ASSUME NEW u \in Task PROVE AtRest(gates', u, tasks'[u], ran'[u], undone'[u])
  BY <1>1, <1>3, <1>4, OthersRest
<1>6. HeavyGates(gates') /\ RanOnce'
  BY <1>1 DEF PInv, RanOnce
<1>7. Goto(r, "idle", None)
  BY DEF Park, Return
<1> QED  BY <1>5, <1>6, <1>7, AfterMove DEF Working

-----------------------------------------------------------------------------
(* Resuming a task. *)

LEMMA LoadParkedServes ==
  ASSUME OneAtATime, IInv, PInv, NEW r \in Handler, LoadParked(r)
  PROVE  PInv'
<1> DEFINE t == h[r].task
           job == Loaded(h[r])
<1>1. h[r] \in Job /\ t \in Task /\ UNCHANGED <<stores, world>> /\ pc[r] = "load"
  BY StageFacts DEF LoadParked, Serve, Stage, Job
<1>2. \A u \in Task : AtRest(gates, u, tasks[u], ran[u], undone[u])
  BY <1>1, OthersRest DEF Working
<1>3. CASE tasks[t].status = "APPROVAL"
  <2>1. job.task = t /\ job.plan = tasks[t].plan
    BY <1>1 DEF Loaded, Job
  <2>2. Goto(r, "check", job)
    BY <1>3 DEF LoadParked
  <2> HIDE DEF job
  <2>3. InHand(gates, "check", job, tasks[t], ran[t], undone[t])
    BY <1>1, <1>2, <1>3, <2>1 DEF InHand, AtRest, Terminal
  <2>4. HandOK("check", job)
    BY DEF HandOK
  <2> QED  BY <1>1, <1>2, <2>1, <2>2, <2>3, <2>4, QuietMove
<1>4. CASE tasks[t].status # "APPROVAL"
  <2>1. Goto(r, "idle", None)
    BY <1>4 DEF LoadParked, Return
  <2> QED  BY <1>1, <2>1, EmptyHanded DEF Working
<1> QED  BY <1>3, <1>4

LEMMA CheckGateServes ==
  ASSUME OneAtATime, IInv, PInv, NEW r \in Handler, CheckGate(r)
  PROVE  PInv'
<1> DEFINE t == h[r].task
<1>1. h[r] \in Job /\ t \in Task /\ UNCHANGED <<stores, world>> /\ pc[r] = "check"
  BY StageFacts DEF CheckGate, Serve, Stage, Job
<1>2. InHand(gates, "check", h[r], tasks[t], ran[t], undone[t])
  BY <1>1, HeldFacts DEF Working
<1>3. PICK i \in Step :
        \/ Goto(r, "settle", [SetStatus(h[r], i, "BLOCKED") EXCEPT !.final = "BLOCKED"])
        \/ Return(r)
        \/ Goto(r, "check", [SetStatus(h[r], i, "PLANNED") EXCEPT !.granted = @ \cup {i}])
  BY DEF CheckGate
<1> DEFINE gone(st) == SetStatus(h[r], i, st)
<1>4. ASSUME NEW st \in {"BLOCKED", "PLANNED"}, NEW job, job.task = gone(st).task,
             job.plan = gone(st).plan
      PROVE  job.task = t /\ LeadsBack(gates, t, job.plan) /\ NothingRan(job.plan)
  <2>0. /\ gone(st).task = t
        /\ \A j \in Step : /\ gone(st).plan[j].gate = h[r].plan[j].gate
                           /\ gone(st).plan[j].st = IF j = i THEN st ELSE h[r].plan[j].st
    <3>1. st \in ActionStatus
      BY <1>4 DEF ActionStatus
    <3> QED  BY <1>1, <3>1, SetStatusFields DEF SameErrand
  <2> HIDE DEF gone
  <2>1. /\ job.task = t
        /\ \A j \in Step : /\ job.plan[j].gate = h[r].plan[j].gate
                           /\ job.plan[j].st = IF j = i THEN st ELSE h[r].plan[j].st
    BY <1>4, <2>0
  <2>2. NothingRan(job.plan)
    BY <1>2, <2>1 DEF InHand, NothingRan
  <2>3. LeadsBack(gates, t, job.plan)
    BY <1>2, <2>1 DEF InHand, LeadsBack, IInv, StoresInv, Gate
  <2> QED  BY <2>1, <2>2, <2>3
<1>5. /\ SetStatus(h[r], i, "BLOCKED") \in Job /\ SetStatus(h[r], i, "PLANNED") \in Job
  BY <1>1, SetStatusType DEF ActionStatus
<1>6. CASE Goto(r, "settle", [SetStatus(h[r], i, "BLOCKED") EXCEPT !.final = "BLOCKED"])
  <2> DEFINE job == [SetStatus(h[r], i, "BLOCKED") EXCEPT !.final = "BLOCKED"]
  <2>1. job.task = gone("BLOCKED").task /\ job.plan = gone("BLOCKED").plan
    BY <1>5 DEF Job
  <2>2. Goto(r, "settle", job)
    BY <1>6
  <2> HIDE DEF job, gone
  <2>3. job.task = t /\ LeadsBack(gates, t, job.plan) /\ NothingRan(job.plan)
    BY <1>4, <2>1
  <2>4. Stands(ran[t], undone[t], job.plan)
    BY <1>2, <2>3 DEF InHand, Untouched, NothingRan, Stands
  <2>5. InHand(gates, "settle", job, tasks[t], ran[t], undone[t])
    BY <1>2, <2>3, <2>4 DEF InHand
  <2> QED  BY <1>1, <2>2, <2>3, <2>5, CarryOn DEF Working
<1>7. CASE Return(r)
  <2>1. \A u \in Task : AtRest(gates, u, tasks[u], ran[u], undone[u])
    BY <1>1, <1>2, OthersRest DEF InHand
  <2> QED  BY <1>1, <1>7, <2>1, QuietMove DEF Return, Working
<1>8. CASE Goto(r, "check", [SetStatus(h[r], i, "PLANNED") EXCEPT !.granted = @ \cup {i}])
  <2> DEFINE job == [SetStatus(h[r], i, "PLANNED") EXCEPT !.granted = @ \cup {i}]
  <2>1. job.task = gone("PLANNED").task /\ job.plan = gone("PLANNED").plan
    BY <1>5 DEF Job
  <2>2. Goto(r, "check", job)
    BY <1>8
  <2> HIDE DEF job, gone
  <2>3. job.task = t /\ LeadsBack(gates, t, job.plan) /\ NothingRan(job.plan)
    BY <1>4, <2>1
  <2>4. InHand(gates, "check", job, tasks[t], ran[t], undone[t])
    BY <1>2, <2>3 DEF InHand
  <2> QED  BY <1>1, <2>2, <2>3, <2>4, CarryOn DEF Working
<1> QED  BY <1>3, <1>6, <1>7, <1>8

LEMMA BeginRunServes ==
  ASSUME OneAtATime, IInv, PInv, NEW r \in Handler, BeginRun(r)
  PROVE  PInv'
<1> DEFINE t == h[r].task
           job == [h[r] EXCEPT !.status = "EXECUTING", !.todo = Step]
<1>1. h[r] \in Job /\ UNCHANGED <<stores, world>> /\ pc[r] = "check"
  BY StageFacts DEF BeginRun, Serve, Stage
<1>2. InHand(gates, "check", h[r], tasks[t], ran[t], undone[t])
  BY <1>1, HeldFacts DEF Working
<1>3. job.task = t /\ job.plan = h[r].plan
  BY <1>1 DEF Job
<1>4. Goto(r, "run", job)
  BY DEF BeginRun
<1> HIDE DEF job
<1>5. RunSoFar(job, ran[t], undone[t])
  BY <1>2, <1>3 DEF InHand, Untouched, NothingRan, RunSoFar
<1>6. InHand(gates, "run", job, tasks[t], ran[t], undone[t])
  BY <1>2, <1>3, <1>5 DEF InHand
<1> QED  BY <1>1, <1>3, <1>4, <1>6, CarryOn DEF Working

-----------------------------------------------------------------------------
(* Running a plan. *)

(* A plan that names the same gates leads every gate back as before. *)
LEMMA SameGatesLeadBack ==
  ASSUME IInv, NEW t, NEW plan, NEW new, LeadsBack(gates, t, plan),
         \A j \in Step : new[j].gate = plan[j].gate
  PROVE  LeadsBack(gates, t, new)
BY DEF LeadsBack, IInv, StoresInv, Gate

LEMMA NextFacts ==
  ASSUME NEW job, NEW i \in Next1(job)
  PROVE  i \in Step /\ i \in job.todo
BY DEF Next1, First

(* Passing over a step, or handing it to the runtime. *)
LEMMA RunMove ==
  ASSUME OneAtATime, IInv, PInv, UNCHANGED <<stores, world>>, NEW r \in Handler, pc[r] = "run",
         NEW i \in Next1(h[r]),
         NEW stage, NEW job, Goto(r, stage, job),
         \/ stage = "run" /\ job = Advance(SetStatus(h[r], i, "BLOCKED"), i)
         \/ stage = "exec" /\ job = SetStatus(h[r], i, "RUNNING")
  PROVE  PInv'
<1> DEFINE t == h[r].task
           st == IF stage = "run" THEN "BLOCKED" ELSE "RUNNING"
           set == SetStatus(h[r], i, st)
<1>1. h[r] \in Job /\ i \in Step /\ i \in h[r].todo
  BY StageFacts, NextFacts DEF Stage
<1>2. InHand(gates, "run", h[r], tasks[t], ran[t], undone[t])
  BY HeldFacts DEF Working
<1>3. /\ SameErrand(set, h[r]) /\ set.todo = h[r].todo
      /\ \A j \in Step : /\ set.plan[j].gate = h[r].plan[j].gate
                         /\ set.plan[j].st = IF j = i THEN st ELSE h[r].plan[j].st
  <2>1. st \in ActionStatus
    BY DEF ActionStatus
  <2> HIDE DEF st
  <2> QED  BY <1>1, <2>1, SetStatusFields
<1>4. job = Advance(set, i) \/ job = set
  OBVIOUS
<1> HIDE DEF set
<1>5. job.task = t /\ job.plan = set.plan /\ \A j \in job.todo : j \in h[r].todo
  BY <1>3, <1>4 DEF Advance, Job, SameErrand
<1>6. RunSoFar(job, ran[t], undone[t]) /\ LeadsBack(gates, t, job.plan)
  <2>1. RunSoFar(h[r], ran[t], undone[t]) /\ LeadsBack(gates, t, h[r].plan)
    BY <1>2 DEF InHand
  <2>2. \A j \in Step : /\ job.plan[j].gate = h[r].plan[j].gate
                        /\ job.plan[j].st = IF j = i THEN st ELSE h[r].plan[j].st
    BY <1>3, <1>5
  <2>3. st # "SUCCEEDED"
    OBVIOUS
  <2> HIDE DEF st, t
  <2>4. RunSoFar(job, ran[t], undone[t])
    BY <1>1, <1>5, <2>1, <2>2, <2>3 DEF RunSoFar
  <2>5. LeadsBack(gates, t, job.plan)
    BY <2>1, <2>2, SameGatesLeadBack
  <2> QED  BY <2>4, <2>5
<1>7. stage \in {"run", "exec"}
  OBVIOUS
<1>8. InHand(gates, stage, job, tasks[t], ran[t], undone[t])
  BY <1>2, <1>5, <1>6, <1>7 DEF InHand
<1> QED  BY <1>5, <1>7, <1>8, CarryOn DEF Working

LEMMA SkipActionServes ==
  ASSUME OneAtATime, IInv, PInv, NEW r \in Handler, SkipAction(r)
  PROVE  PInv'
<1>1. UNCHANGED <<stores, world>> /\ pc[r] = "run"
  BY DEF SkipAction, Serve
<1>2. PICK i \in Next1(h[r]) : Goto(r, "run", Advance(SetStatus(h[r], i, "BLOCKED"), i))
  BY DEF SkipAction
<1> QED  BY <1>1, <1>2, RunMove

LEMMA HonourGrantServes ==
  ASSUME OneAtATime, IInv, PInv, NEW r \in Handler, HonourGrant(r)
  PROVE  PInv'
<1>1. UNCHANGED <<stores, world>> /\ pc[r] = "run"
  BY DEF HonourGrant, Serve
<1>2. PICK i \in Next1(h[r]) :
        \/ Goto(r, "exec", SetStatus(h[r], i, "RUNNING"))
        \/ Goto(r, "run", Advance(SetStatus(h[r], i, "BLOCKED"), i))
  BY DEF HonourGrant
<1>3. CASE Goto(r, "exec", SetStatus(h[r], i, "RUNNING"))
  BY <1>1, <1>3, RunMove
<1>4. CASE Goto(r, "run", Advance(SetStatus(h[r], i, "BLOCKED"), i))
  BY <1>1, <1>4, RunMove
<1> QED  BY <1>2, <1>3, <1>4

LEMMA ProceedServes ==
  ASSUME OneAtATime, IInv, PInv, NEW r \in Handler, Proceed(r)
  PROVE  PInv'
<1>1. UNCHANGED <<stores, world>> /\ pc[r] = "run"
  BY DEF Proceed, Serve
<1>2. PICK i \in Next1(h[r]) : Goto(r, "exec", SetStatus(h[r], i, "RUNNING"))
  BY DEF Proceed
<1> QED  BY <1>1, <1>2, RunMove

(* Every action that needs a gate is heavy, its gate was raised before the *)
(* task was parked, and the resume collected the grant.                    *)
LEMMA NoGateMidRun ==
  ASSUME OneAtATime, IInv, NEW r \in Handler
  PROVE  ~RaiseGate(r)
<1> SUFFICES ASSUME RaiseGate(r) PROVE FALSE
  OBVIOUS
<1>1. JobOK(gates, "run", h[r])
  BY StageFacts DEF RaiseGate, Serve, Stage
<1>2. PICK i \in Next1(h[r]) : Runnable(h[r], i) /\ NeedsGate(i) /\ i \notin h[r].granted
  BY DEF RaiseGate
<1>3. i \in Step /\ RequiresHumanApproval(Manifest[i]) /\ h[r].plan[i].st # "BLOCKED"
  BY <1>2, NextFacts DEF OneAtATime, Runnable
<1>4. h[r].plan[i].gate # None /\ Unread(h[r]) = {}
  BY <1>1, <1>3 DEF JobOK, HeavyHeld
<1> QED  BY <1>2, <1>3, <1>4 DEF Unread

(* What a success does to the counts. *)
LEMMA CountRaises ==
  ASSUME NEW f \in [Task -> [Step -> Nat]], NEW t \in Task, NEW i \in Step
  PROVE  /\ \A u \in Task : u # t => Count(f, t, i)[u] = f[u]
         /\ \A j \in Step : Count(f, t, i)[t][j] = IF j = i THEN f[t][j] + 1 ELSE f[t][j]
<1>1. Count(f, t, i) = [f EXCEPT ![t] = [f[t] EXCEPT ![i] = @ + 1]]
  BY DEF Count
<1>2. f[t] \in [Step -> Nat]
  OBVIOUS
<1> QED  BY <1>1, <1>2

LEMMA ExecuteSucceedsServes ==
  ASSUME OneAtATime, IInv, PInv, NEW r \in Handler, ExecuteSucceeds(r)
  PROVE  PInv'
<1> DEFINE t == h[r].task
<1>1. /\ h[r] \in Job /\ t \in Task /\ pc[r] = "exec"
      /\ UNCHANGED <<tasks, gates, undone>>
  BY StageFacts DEF ExecuteSucceeds, Serve, Stage, Job, stores
<1>2. PICK i \in Next1(h[r]) :
        /\ ran' = Count(ran, t, i)
        /\ Goto(r, "run", Advance(SetStatus(h[r], i, "SUCCEEDED"), i))
  BY DEF ExecuteSucceeds
<1> DEFINE set == SetStatus(h[r], i, "SUCCEEDED")
           job == Advance(set, i)
<1>3. i \in Step /\ i \in h[r].todo
  BY NextFacts
<1>4. InHand(gates, "exec", h[r], tasks[t], ran[t], undone[t])
  BY <1>1, HeldFacts DEF Working
<1>5. /\ SameErrand(set, h[r]) /\ set.todo = h[r].todo
      /\ \A j \in Step : /\ set.plan[j].gate = h[r].plan[j].gate
                         /\ set.plan[j].st = IF j = i THEN "SUCCEEDED" ELSE h[r].plan[j].st
  <2>1. "SUCCEEDED" \in ActionStatus
    BY DEF ActionStatus
  <2> QED  BY <1>1, <1>3, <2>1, SetStatusFields
<1>6. Goto(r, "run", job)
  BY <1>2
<1> HIDE DEF set
<1>7. job.task = t /\ job.plan = set.plan /\ job.todo = h[r].todo \ {i}
  BY <1>5 DEF Advance, Job, SameErrand
<1> HIDE DEF job
<1>8. /\ \A u \in Task : u # t => ran'[u] = ran[u]
      /\ \A j \in Step : ran'[t][j] = IF j = i THEN ran[t][j] + 1 ELSE ran[t][j]
  BY <1>1, <1>2, <1>3, CountRaises, SMTT(60) DEF IInv, CountersInv
<1>9. ran[t][i] = 0
  BY <1>3, <1>4 DEF InHand, RunSoFar
<1>10. RunSoFar(job, ran'[t], undone'[t])
  BY <1>1, <1>3, <1>4, <1>5, <1>7, <1>8, <1>9 DEF InHand, RunSoFar
<1>11. LeadsBack(gates, t, job.plan)
  BY <1>4, <1>5, <1>7, SameGatesLeadBack DEF InHand
<1>12. InHand(gates', "run", job, tasks'[job.task], ran'[job.task], undone'[job.task])
  BY <1>1, <1>4, <1>7, <1>10, <1>11 DEF InHand
<1>13. ASSUME NEW u \in Task, job.task # u
       PROVE  AtRest(gates', u, tasks'[u], ran'[u], undone'[u])
  BY <1>1, <1>7, <1>8, <1>13, OthersRest
<1>14. RanOnce'
  <2> SUFFICES ASSUME NEW u \in Task, NEW j \in Step PROVE ran'[u][j] <= 1
    BY DEF RanOnce
  <2> QED  BY <1>8, <1>9 DEF PInv, RanOnce
<1>15. HeavyGates(gates') /\ HandOK("run", job)
  BY <1>1 DEF PInv, HandOK
<1> QED  BY <1>6, <1>12, <1>13, <1>14, <1>15, AfterMove DEF Working

LEMMA ExecuteFailsServes ==
  ASSUME OneAtATime, IInv, PInv, NEW r \in Handler, ExecuteFails(r)
  PROVE  PInv'
<1> DEFINE t == h[r].task
           set(i) == SetStatus(h[r], i, "FAILED")
           retry == [h[r] EXCEPT !.tries = h[r].tries + 1]
           undo(i) == [set(i) EXCEPT !.todo = Undoable(set(i).plan), !.tries = 0,
                                     !.final = "FAILED"]
<1>1. h[r] \in Job /\ UNCHANGED <<stores, world>> /\ pc[r] = "exec"
  BY StageFacts DEF ExecuteFails, Serve, Stage
<1>2. InHand(gates, "exec", h[r], tasks[t], ran[t], undone[t])
  BY <1>1, HeldFacts DEF Working
<1>3. PICK i \in Next1(h[r]) : Goto(r, "run", retry) \/ Goto(r, "undo", undo(i))
  BY DEF ExecuteFails
<1>4. i \in Step /\ i \in h[r].todo
  BY NextFacts
<1>5. CASE Goto(r, "run", retry)
  <2>1. retry.task = t /\ retry.plan = h[r].plan /\ retry.todo = h[r].todo
    BY <1>1 DEF Job
  <2> HIDE DEF retry
  <2>2. InHand(gates, "run", retry, tasks[t], ran[t], undone[t])
    BY <1>2, <2>1 DEF InHand, RunSoFar
  <2> QED  BY <1>1, <1>5, <2>1, <2>2, CarryOn DEF Working
<1>6. CASE Goto(r, "undo", undo(i))
  <2> DEFINE new == set(i)
             job == [new EXCEPT !.todo = Undoable(new.plan), !.tries = 0, !.final = "FAILED"]
  <2>1. Goto(r, "undo", job)
    BY <1>6
  <2>2. /\ SameErrand(new, h[r])
        /\ \A j \in Step : /\ new.plan[j].gate = h[r].plan[j].gate
                           /\ new.plan[j].st = IF j = i THEN "FAILED" ELSE h[r].plan[j].st
    <3>1. "FAILED" \in ActionStatus
      BY DEF ActionStatus
    <3> QED  BY <1>1, <1>4, <3>1, SetStatusFields
  <2> HIDE DEF new
  <2>3. job.task = t /\ job.plan = new.plan /\ job.todo = Undoable(new.plan)
    BY <2>2 DEF Job, SameErrand
  <2> HIDE DEF job
  <2>4. LeadsBack(gates, t, job.plan)
    BY <1>2, <2>2, <2>3, SameGatesLeadBack DEF InHand
  <2>5. \A j \in Step : /\ undone[t][j] = 0
                        /\ ran[t][j] = IF job.plan[j].st = "SUCCEEDED" THEN 1 ELSE 0
    BY <1>2, <1>4, <2>2, <2>3 DEF InHand, RunSoFar
  <2>6. Stands(ran[t], undone[t], job.plan)
    BY <2>5 DEF Stands
  <2>7. \A j \in job.todo : ran[t][j] = 1 /\ undone[t][j] = 0
    BY <2>3, <2>5 DEF Undoable
  <2>8. InHand(gates, "undo", job, tasks[t], ran[t], undone[t])
    BY <1>2, <2>3, <2>4, <2>6, <2>7 DEF InHand
  <2> QED  BY <1>1, <2>1, <2>3, <2>8, CarryOn DEF Working
<1> QED  BY <1>3, <1>5, <1>6

-----------------------------------------------------------------------------
(* Ending a task. *)

LEMMA CompensateServes ==
  ASSUME OneAtATime, IInv, PInv, NEW r \in Handler, Compensate(r)
  PROVE  PInv'
<1> DEFINE t == h[r].task
<1>1. /\ h[r] \in Job /\ t \in Task /\ pc[r] = "undo"
      /\ UNCHANGED <<tasks, gates, ran>>
  BY StageFacts DEF Compensate, Serve, Stage, Job, stores
<1>2. PICK i \in Step, ok \in BOOLEAN :
        /\ Last(i, h[r].todo)
        /\ undone' = IF ok THEN Count(undone, t, i) ELSE undone
        /\ Goto(r, "undo", Advance(IF ok THEN SetStatus(h[r], i, "COMPENSATED") ELSE h[r], i))
  BY DEF Compensate
<1> DEFINE set == IF ok THEN SetStatus(h[r], i, "COMPENSATED") ELSE h[r]
           job == Advance(set, i)
<1>3. InHand(gates, "undo", h[r], tasks[t], ran[t], undone[t])
  BY <1>1, HeldFacts DEF Working
<1>4. /\ SameErrand(SetStatus(h[r], i, "COMPENSATED"), h[r])
      /\ SetStatus(h[r], i, "COMPENSATED").todo = h[r].todo
      /\ \A j \in Step :
           /\ SetStatus(h[r], i, "COMPENSATED").plan[j].gate = h[r].plan[j].gate
           /\ SetStatus(h[r], i, "COMPENSATED").plan[j].st =
                IF j = i THEN "COMPENSATED" ELSE h[r].plan[j].st
  <2>1. "COMPENSATED" \in ActionStatus
    BY DEF ActionStatus
  <2> QED  BY <1>1, <2>1, SetStatusFields
<1>5. /\ SameErrand(set, h[r]) /\ set.todo = h[r].todo
      /\ \A j \in Step :
           /\ set.plan[j].gate = h[r].plan[j].gate
           /\ set.plan[j].st = IF ok /\ j = i THEN "COMPENSATED" ELSE h[r].plan[j].st
  BY <1>1, <1>4 DEF SameErrand
<1>6. Goto(r, "undo", job)
  BY <1>2
<1> HIDE DEF set
<1>7. job.task = t /\ job.plan = set.plan /\ job.todo = h[r].todo \ {i}
  BY <1>5 DEF Advance, Job, SameErrand
<1> HIDE DEF job
<1>8. i \in h[r].todo /\ ran[t][i] = 1 /\ undone[t][i] = 0
  BY <1>2, <1>3 DEF Last, InHand
<1>9. /\ \A u \in Task : u # t => undone'[u] = undone[u]
      /\ \A j \in Step : undone'[t][j] = IF ok /\ j = i THEN 1 ELSE undone[t][j]
  <2>1. CASE ok
    BY <1>1, <1>2, <1>8, <2>1, CountRaises, SMTT(60) DEF IInv, CountersInv
  <2>2. CASE ~ok
    BY <1>2, <2>2
  <2> QED  BY <2>1, <2>2
<1>10. Stands(ran'[t], undone'[t], job.plan)
  <2>1. \A j \in Step : (ran[t][j] > undone[t][j]) <=> (h[r].plan[j].st = "SUCCEEDED")
    BY <1>3 DEF InHand, Stands
  <2> QED  BY <1>1, <1>5, <1>7, <1>8, <1>9, <2>1 DEF Stands
<1>11. LeadsBack(gates, t, job.plan)
  BY <1>3, <1>5, <1>7, SameGatesLeadBack DEF InHand
<1>12. \A j \in job.todo : ran'[t][j] = 1 /\ undone'[t][j] = 0
  BY <1>1, <1>3, <1>7, <1>9 DEF InHand, Job
<1>13. InHand(gates', "undo", job, tasks'[job.task], ran'[job.task], undone'[job.task])
  BY <1>1, <1>3, <1>7, <1>10, <1>11, <1>12 DEF InHand
<1>14. ASSUME NEW u \in Task, job.task # u
       PROVE  AtRest(gates', u, tasks'[u], ran'[u], undone'[u])
  BY <1>1, <1>7, <1>9, <1>14, OthersRest
<1>15. RanOnce' /\ HeavyGates(gates') /\ HandOK("undo", job)
  BY <1>1 DEF PInv, RanOnce, HandOK
<1> QED  BY <1>6, <1>13, <1>14, <1>15, AfterMove DEF Working

LEMMA CompensatedServes ==
  ASSUME OneAtATime, IInv, PInv, NEW r \in Handler, Compensated(r)
  PROVE  PInv'
<1> DEFINE t == h[r].task
           job == [h[r] EXCEPT !.status = IF @ = "EXECUTING" THEN "VERIFYING" ELSE @]
<1>1. h[r] \in Job /\ UNCHANGED <<stores, world>> /\ pc[r] = "undo" /\ Goto(r, "settle", job)
  BY StageFacts DEF Compensated, Serve, Stage
<1>2. InHand(gates, "undo", h[r], tasks[t], ran[t], undone[t])
  BY <1>1, HeldFacts DEF Working
<1>3. job.task = t /\ job.plan = h[r].plan
  BY <1>1 DEF Job
<1> HIDE DEF job
<1>4. InHand(gates, "settle", job, tasks[t], ran[t], undone[t])
  BY <1>2, <1>3 DEF InHand
<1> QED  BY <1>1, <1>3, <1>4, CarryOn DEF Working

LEMMA VerifyServes ==
  ASSUME OneAtATime, IInv, PInv, NEW r \in Handler, Verify(r)
  PROVE  PInv'
<1> DEFINE t == h[r].task
<1>1. h[r] \in Job /\ UNCHANGED <<stores, world>> /\ pc[r] = "run"
  BY StageFacts DEF Verify, Serve, Stage
<1>2. PICK final \in Outcomes(h[r].plan) :
        Goto(r, "settle", [h[r] EXCEPT !.status = "VERIFYING", !.final = final])
  BY DEF Verify
<1> DEFINE job == [h[r] EXCEPT !.status = "VERIFYING", !.final = final]
<1>3. InHand(gates, "run", h[r], tasks[t], ran[t], undone[t])
  BY <1>1, HeldFacts DEF Working
<1>4. Goto(r, "settle", job) /\ job.task = t /\ job.plan = h[r].plan
  BY <1>1, <1>2 DEF Job
<1> HIDE DEF job
<1>5. Stands(ran[t], undone[t], job.plan)
  BY <1>3, <1>4 DEF InHand, RunSoFar, Stands
<1>6. InHand(gates, "settle", job, tasks[t], ran[t], undone[t])
  BY <1>3, <1>4, <1>5 DEF InHand
<1> QED  BY <1>1, <1>4, <1>6, CarryOn DEF Working

LEMMA SettleServes ==
  ASSUME OneAtATime, IInv, PInv, NEW r \in Handler, Settle(r)
  PROVE  PInv'
<1> DEFINE t == h[r].task
<1>1. h[r] \in Job /\ t \in Task /\ UNCHANGED <<gates, ran, undone>> /\ pc[r] = "settle"
  BY StageFacts DEF Settle, Serve, Stage, Job, world
<1>2. InHand(gates, "settle", h[r], tasks[t], ran[t], undone[t]) /\ h[r].final \in Terminal
  BY <1>1, HeldFacts DEF Working, Job
<1>3. /\ tasks'[t] = [status |-> h[r].final, plan |-> h[r].plan]
      /\ \A u \in Task : u # t => tasks'[u] = tasks[u]
  BY <1>1 DEF Settle, Persist, IInv, StoresInv
<1>4. AtRest(gates', t, tasks'[t], ran'[t], undone'[t])
  BY <1>1, <1>2, <1>3 DEF InHand, AtRest, Terminal
<1>5. ASSUME NEW u \in Task PROVE AtRest(gates', u, tasks'[u], ran'[u], undone'[u])
  BY <1>1, <1>3, <1>4, OthersRest
<1>6. HeavyGates(gates') /\ RanOnce'
  BY <1>1 DEF PInv, RanOnce
<1>7. Goto(r, "idle", None)
  BY DEF Settle, Return
<1> QED  BY <1>5, <1>6, <1>7, AfterMove DEF Working

(* A task that may be cancelled has not run yet: what is undone is nothing. *)
LEMMA LoadForCancelServes ==
  ASSUME OneAtATime, IInv, PInv, NEW r \in Handler, LoadForCancel(r)
  PROVE  PInv'
<1> DEFINE t == h[r].task
           report == tasks[t]
           job == [Loaded(h[r]) EXCEPT !.todo = Undoable(report.plan), !.final = "CANCELLED"]
<1>1. h[r] \in Job /\ t \in Task /\ UNCHANGED <<stores, world>> /\ pc[r] = "cancel"
  BY StageFacts DEF LoadForCancel, Serve, Stage, Job
<1>2. \A u \in Task : AtRest(gates, u, tasks[u], ran[u], undone[u])
  BY <1>1, OthersRest DEF Working
<1>3. CASE report.status \notin Terminal /\ Routed(report)
  <2>1. Goto(r, "undo", job)
    BY <1>3 DEF LoadForCancel
  <2>2. job.task = t /\ job.plan = report.plan /\ job.todo = Undoable(report.plan)
    BY <1>1 DEF Loaded, Job
  <2>3. report.status = "APPROVAL"
    BY <1>1, <1>2, <1>3 DEF AtRest, Routed, IInv, StoresInv, ReportOK
  <2>4. /\ LeadsBack(gates, t, report.plan) /\ Untouched(ran[t], undone[t])
        /\ NothingRan(report.plan)
    BY <1>1, <1>2, <1>3 DEF AtRest
  <2> HIDE DEF job
  <2>5. InHand(gates, "undo", job, tasks[t], ran[t], undone[t])
    <3>1. Undoable(report.plan) = {}
      BY <2>4 DEF NothingRan, Undoable
    <3>2. Stands(ran[t], undone[t], report.plan)
      BY <2>4 DEF Untouched, NothingRan, Stands
    <3> QED  BY <2>2, <2>3, <2>4, <3>1, <3>2 DEF InHand
  <2>6. HandOK("undo", job)
    BY DEF HandOK
  <2> QED  BY <1>1, <1>2, <2>1, <2>2, <2>5, <2>6, QuietMove
<1>4. CASE ~(report.status \notin Terminal /\ Routed(report))
  <2>1. Goto(r, "idle", None)
    BY <1>4 DEF LoadForCancel, Return
  <2> QED  BY <1>1, <2>1, EmptyHanded DEF Working
<1> QED  BY <1>3, <1>4

-----------------------------------------------------------------------------
(* Deciding on a gate. *)

(* The task a gate was raised for is found, as the approver owns it and    *)
(* its stored plan names the gate.                                         *)
LEMMA TaskIsFound ==
  ASSUME OneAtATime, IInv, PInv, NEW r \in Handler, pc[r] = "find"
  PROVE  OwnTasks(h[r].actor, h[r].gate) # {}
<1> DEFINE g == h[r].gate
           t == h[r].task
<1>1. h[r] \in Job /\ t \in Task /\ g \in GateId /\ gates[g] # None /\ gates[g].task = t
  BY StageFacts DEF Stage, Job, JobOK, Deciders
<1>2. h[r].actor = Owner[t]
  BY <1>1 DEF PInv, HandsInv, HandOK, OneAtATime
<1>3. gates[g].step \in Step /\ g # None
  BY <1>1, NoneAssumption DEF IInv, StoresInv, Gate
<1>4. tasks[t].plan[gates[g].step].gate = g
  BY <1>1, OthersRest DEF AtRest, LeadsBack, Working
<1>5. tasks[t].status # "ABSENT"
  <2>1. tasks[t].status = "ABSENT" => tasks[t].plan = Unplanned
    BY <1>1 DEF IInv, StoresInv, ReportOK
  <2>2. Unplanned[gates[g].step].gate = None
    BY <1>3 DEF Unplanned
  <2> QED  BY <1>3, <1>4, <2>1, <2>2
<1> QED  BY <1>1, <1>2, <1>3, <1>4, <1>5 DEF OwnTasks

LEMMA FindTaskServes ==
  ASSUME OneAtATime, IInv, PInv, NEW r \in Handler, FindTask(r)
  PROVE  PInv'
<1>1. h[r] \in Job /\ UNCHANGED <<stores, world>> /\ pc[r] = "find"
  BY StageFacts DEF FindTask, Serve, Stage
<1>2. PICK t \in OwnTasks(h[r].actor, h[r].gate) :
        Goto(r, "decideTask", [h[r] EXCEPT !.task = t])
  BY <1>1, TaskIsFound DEF FindTask
<1> DEFINE job == [h[r] EXCEPT !.task = t]
<1>3. job.actor = h[r].actor /\ h[r].actor \in Approver
  BY <1>1 DEF Job, PInv, HandsInv, HandOK
<1> HIDE DEF job
<1>4. HandOK("decideTask", job)
  BY <1>3 DEF HandOK
<1> QED  BY <1>1, <1>2, <1>4, EmptyHanded DEF Working, job

(* Deciding re-aims no gate and drops none. *)
LEMMA DecideKeepsAims ==
  ASSUME IInv, NEW r \in Handler, Decide(r)
  PROVE  /\ h[r].gate \in GateId /\ gates[h[r].gate] \in Gate
         /\ gates'[h[r].gate] = [gates[h[r].gate] EXCEPT !.status = h[r].decision,
                                                         !.decidedBy = h[r].actor]
         /\ \A g \in GateId : g # h[r].gate => gates'[g] = gates[g]
         /\ \A g \in GateId :
              gates'[g] # None => /\ gates[g] # None /\ gates'[g].task = gates[g].task
                                  /\ gates'[g].step = gates[g].step
<1>1. h[r].gate \in GateId /\ gates[h[r].gate] # None /\ gates[h[r].gate] \in Gate
  BY StageFacts DEF Decide, Deciding, Stage, JobOK, Deciders, IInv, StoresInv
<1>2. gates' = [gates EXCEPT ![h[r].gate] = [gates[h[r].gate] EXCEPT !.status = h[r].decision,
                                                                     !.decidedBy = h[r].actor]]
  BY <1>1 DEF Decide, IInv, StoresInv
<1>3. ASSUME NEW g \in GateId, gates'[g] # None
      PROVE  gates[g] # None /\ gates'[g].task = gates[g].task /\ gates'[g].step = gates[g].step
  <2>1. CASE g # h[r].gate
    BY <1>2, <1>3, <2>1 DEF IInv, StoresInv
  <2>2. CASE g = h[r].gate
    <3>1. gates'[g] = [gates[g] EXCEPT !.status = h[r].decision, !.decidedBy = h[r].actor]
      BY <1>1, <1>2, <2>2 DEF IInv, StoresInv
    <3> QED  BY <1>1, <2>2, <3>1 DEF Gate
  <2> QED  BY <2>1, <2>2
<1> QED  BY <1>1, <1>2, <1>3 DEF IInv, StoresInv

LEMMA NotTheBrain ==
  ASSUME PInv, NEW r \in Handler
  PROVE  pc[r] \notin {"decideBrain", "brain", "record"}
BY DEF PInv, HandsInv, HandOK

LEMMA DecideServes ==
  ASSUME OneAtATime, IInv, PInv, NEW r \in Handler, Decide(r)
  PROVE  PInv'
<1>1. pc[r] = "decideTask" /\ UNCHANGED <<tasks, ran, undone>>
  BY NotTheBrain DEF Decide, Deciding, world
<1>2. Goto(r, "load", h[r])
  BY <1>1 DEF Decide, AfterDecision
<1>3. ASSUME NEW t \in Task PROVE AtRest(gates', t, tasks'[t], ran'[t], undone'[t])
  <2>1. AtRest(gates, t, tasks[t], ran[t], undone[t])
    BY <1>1, OthersRest DEF Working
  <2>2. LeadsBack(gates', t, tasks[t].plan)
    BY <2>1, DecideKeepsAims DEF AtRest, LeadsBack
  <2> QED  BY <1>1, <2>1, <2>2 DEF AtRest
<1>4. HeavyGates(gates')
  BY DecideKeepsAims DEF PInv, HeavyGates
<1>5. RanOnce' /\ HandOK("load", h[r])
  BY <1>1 DEF PInv, RanOnce, HandOK
<1> QED  BY <1>2, <1>3, <1>4, <1>5, AfterMove DEF Working

LEMMA DecideRefusedServes ==
  ASSUME OneAtATime, IInv, PInv, NEW r \in Handler, DecideRefused(r)
  PROVE  PInv'
<1>1. pc[r] = "decideTask" /\ UNCHANGED <<stores, world>>
  BY NotTheBrain DEF DecideRefused, Deciding
<1>2. Goto(r, "load", h[r]) \/ Goto(r, "idle", None)
  BY <1>1 DEF DecideRefused, AfterDecision, Return
<1>3. HandOK("load", h[r])
  BY DEF HandOK
<1> QED  BY <1>1, <1>2, <1>3, EmptyHanded DEF Working

(* Every step of a request served alone keeps the invariant. *)
LEMMA ServedAlone ==
  ASSUME OneAtATime, IInv, PInv, Next
  PROVE  PInv'
<1>1. PICK r \in Handler : Request(r) \/ Work(r) \/ Abort(r)
  BY DEF Next
<1>2. CASE Request(r)
  BY <1>2, RequestServes
<1>3. CASE Work(r)
  <2>1. CASE Start(r)
    BY <2>1, MakePlanServes, RequestGateServes, ParkServes DEF Start
  <2>2. CASE Resume(r)
    BY <2>2, LoadParkedServes, CheckGateServes, BeginRunServes DEF Resume
  <2>3. CASE Execute(r)
    BY <2>3, SkipActionServes, NoGateMidRun, HonourGrantServes, ProceedServes,
       ExecuteSucceedsServes, ExecuteFailsServes DEF Execute
  <2>4. CASE Finish(r)
    BY <2>4, CompensateServes, CompensatedServes, VerifyServes, SettleServes DEF Finish
  <2>5. CASE Approve(r)
    <3>1. ~BrainExecutes(r) /\ ~RecordExecution(r)
      BY NotTheBrain DEF BrainExecutes, RecordExecution, Serve
    <3> QED  BY <2>5, <3>1, FindTaskServes, DecideServes, DecideRefusedServes DEF Approve
  <2>6. CASE LoadForCancel(r)
    BY <2>6, LoadForCancelServes
  <2> QED  BY <1>3, <2>1, <2>2, <2>3, <2>4, <2>5, <2>6 DEF Work
<1>4. CASE Abort(r)
  BY <1>4 DEF Abort, OneAtATime, IInv, CountersInv
<1> QED  BY <1>1, <1>2, <1>3, <1>4

LEMMA StutterServes ==
  ASSUME PInv, UNCHANGED vars
  PROVE  PInv'
<1>1. tasks' = tasks /\ gates' = gates /\ pc' = pc /\ h' = h /\ ran' = ran /\ undone' = undone
  BY DEF vars
<1>2. RanOnce' /\ HandsInv' /\ RestInv'
  BY <1>1 DEF PInv, RanOnce, HandsInv, RestInv
<1> QED  BY <1>1, <1>2 DEF PInv

(* The inductive invariant of a deployment that serves one request at a    *)
(* time: what a handler holds, what is stored and what has been run agree. *)
THEOREM AloneInvariance ==
  ASSUME OneAtATime
  PROVE  Spec => [](IInv /\ PInv)
<1>1. IInv /\ PInv /\ [Next]_vars => (IInv /\ PInv)'
  BY StepKeeps, StutterKeeps, ServedAlone, StutterServes
<1>2. Init => IInv /\ PInv
  BY InitIInv, InitPInv
<1> QED  BY <1>1, <1>2, PTL DEF Spec

-----------------------------------------------------------------------------
(* The report of an ended task tells what happened: an action reads        *)
(* SUCCEEDED exactly when a run of it has not been compensated             *)
(* (TaskOrchestrator.finish).                                              *)
THEOREM ReportsAreTrue ==
  ASSUME OneAtATime
  PROVE  Spec => []ReportsTellTheTruth
<1>1. PInv => ReportsTellTheTruth
  <2> SUFFICES ASSUME PInv, NEW t \in Task, tasks[t].status \in Terminal
               PROVE  Stands(ran[t], undone[t], tasks[t].plan)
    BY DEF ReportsTellTheTruth, Stands
  <2>1. \A r \in Handler : pc[r] \in Working => h[r].task # t
    BY HeldFacts DEF InHand, Terminal
  <2> QED  BY <2>1 DEF PInv, RestInv, AtRest
<1> QED  BY <1>1, AloneInvariance, PTL

(* Nothing is stranded once nobody works on it: an open task names the     *)
(* agent that resume and cancel ask for, and every gate is named by the    *)
(* stored plan (approvals/route.ts:61).                                    *)
THEOREM NothingIsLeftBehind ==
  ASSUME OneAtATime
  PROVE  Spec => []NothingIsStranded
<1>1. IInv /\ PInv => NothingIsStranded
  <2> SUFFICES ASSUME IInv, PInv PROVE NothingIsStranded
    OBVIOUS
  <2>1. ASSUME NEW t \in Task, Serving(t) = {}
        PROVE  AtRest(gates, t, tasks[t], ran[t], undone[t])
    BY <2>1 DEF Serving, PInv, RestInv, Working
  <2>2. OpenTasksCanBeClosed
    <3> SUFFICES ASSUME NEW t \in Task, tasks[t].status \notin Terminal \cup {"ABSENT"},
                        Serving(t) = {}
                 PROVE  tasks[t].plan # Unplanned
      BY DEF OpenTasksCanBeClosed, Routed
    <3>1. tasks[t].status = "APPROVAL"
      BY <2>1 DEF AtRest, IInv, StoresInv, ReportOK
    <3> QED  BY <2>1, <3>1 DEF AtRest, Unplanned
  <2>3. GatesLeadBack
    BY <2>1 DEF GatesLeadBack, AtRest, LeadsBack, IInv, StoresInv, Gate
  <2> QED  BY <2>2, <2>3 DEF NothingIsStranded
<1> QED  BY <1>1, AloneInvariance, PTL

(* Only the execution manager runs anything when nobody decides past it,   *)
(* and it runs the step its handler stands at.                             *)
LEMMA WhatRuns ==
  ASSUME IInv, PInv, Next, NEW t \in Task, NEW i \in Step, Runs(t, i)
  PROVE  \E r \in Handler :
           ExecuteSucceeds(r) /\ pc[r] = "exec" /\ h[r].task = t /\ i \in Next1(h[r])
<1>1. PICK r \in Handler : Request(r) \/ Work(r) \/ Abort(r)
  BY DEF Next
<1>2. ExecuteSucceeds(r) /\ pc[r] = "exec"
  BY <1>1, WhoRuns, NotTheBrain DEF Runs, BrainExecutes, ExecuteSucceeds, Serve
<1>3. PICK j \in Next1(h[r]) : ran' = Count(ran, h[r].task, j)
  BY <1>2 DEF ExecuteSucceeds
<1>4. h[r].task \in Task /\ j \in Step
  BY <1>2, <1>3, StageFacts, NextFacts DEF Stage, Job
<1>5. t = h[r].task /\ i = j
  BY <1>3, <1>4, CountElsewhere DEF Runs, IInv, CountersInv
<1> QED  BY <1>2, <1>3, <1>5

(* An action a human refused is not run afterwards, by any door: one gate  *)
(* is raised for it, and a run that reached it was granted that gate.      *)
THEOREM TheRefusedStayRefused ==
  ASSUME OneAtATime
  PROVE  Spec => RefusedNeverRuns
<1>1. IInv /\ PInv /\ [Next]_vars =>
        [\A t \in Task, i \in Step : Refused(t, i) => ~Runs(t, i)]_vars
  <2> SUFFICES ASSUME IInv, PInv, Next, NEW t \in Task, NEW i \in Step, Refused(t, i), Runs(t, i)
               PROVE  FALSE
    OBVIOUS
  <2>1. PICK r \in Handler : pc[r] = "exec" /\ h[r].task = t /\ i \in Next1(h[r])
    BY WhatRuns
  <2>2. PICK q \in GateId : /\ gates[q] # None /\ gates[q].task = t /\ gates[q].step = i
                            /\ gates[q].status = "REJECTED"
    BY DEF Refused
  <2>3. JobOK(gates, "exec", h[r]) /\ LeadsBack(gates, t, h[r].plan)
    BY <2>1, StageFacts, HeldFacts DEF Stage, Working, InHand
  <2>4. h[r].plan[i].gate = q /\ q # None
    BY <2>2, <2>3, NoneAssumption DEF LeadsBack
  <2>5. i \in h[r].granted
    BY <2>3, <2>4 DEF JobOK, Unread
  <2> QED  BY <2>2, <2>3, <2>4, <2>5 DEF JobOK, GrantsHold
<1> QED  BY <1>1, AloneInvariance, PTL DEF Spec, RefusedNeverRuns

(* Nothing runs twice: whatever sequence of starts, decisions, resumes and *)
(* cancels a task goes through, an action succeeds at most once.           *)
THEOREM NothingRunsTwice ==
  ASSUME OneAtATime
  PROVE  Spec => []GuardedRunsOnce
<1>1. PInv => GuardedRunsOnce
  BY DEF PInv, RanOnce, GuardedRunsOnce
<1> QED  BY <1>1, AloneInvariance, PTL

-----------------------------------------------------------------------------
(* The refinement: what each step does to the promise.                     *)

PhaseMap   == [t \in Task |-> Phase(t)]
ConsentMap == [t \in Task |-> Consented(t)]
AccountMap == [t \in Task |-> Account(t)]

promised == <<PhaseMap, ConsentMap, ran, undone, AccountMap>>

LEMMA SamePhases ==
  ASSUME UNCHANGED tasks
  PROVE  UNCHANGED <<PhaseMap, AccountMap>>
BY DEF PhaseMap, AccountMap, Phase, Account

LEMMA SameConsents ==
  ASSUME UNCHANGED gates
  PROVE  UNCHANGED ConsentMap
BY DEF ConsentMap, Consented

(* The task a handler works on is open. *)
LEMMA HeldIsOpen ==
  ASSUME PInv, IInv, NEW r \in Handler, pc[r] \in Working
  PROVE  h[r].task \in Task /\ Phase(h[r].task) = "open" /\ Account(h[r].task) = {}
<1>1. h[r].task \in Task
  BY StageFacts DEF Stage, Working, Job, IInv, HandlersInv
<1>2. tasks[h[r].task].status \in {"REQUESTED", "APPROVAL"}
  BY HeldFacts DEF InHand
<1> QED  BY <1>1, <1>2 DEF Phase, Account, Terminal

LEMMA StartTaskOpens ==
  ASSUME IInv, NEW r \in Handler, NEW t \in Task, StartTask(r, t)
  PROVE  Promise!Open(t)
<1>1. /\ tasks[t].status = "ABSENT" /\ tasks' = [tasks EXCEPT ![t].status = "REQUESTED"]
      /\ UNCHANGED <<gates, ran, undone>>
  BY DEF StartTask, world
<1>2. /\ tasks'[t].status = "REQUESTED"
      /\ \A u \in Task : u # t => tasks'[u] = tasks[u]
  BY <1>1 DEF IInv, StoresInv, Report
<1>3. Phase(t) = "new"
  BY <1>1 DEF Phase
<1>4. \A u \in Task : Phase(u)' = IF u = t THEN "open" ELSE Phase(u)
  BY <1>2 DEF Phase, Terminal
<1>5. \A u \in Task : Account(u)' = Account(u)
  BY <1>1, <1>2 DEF Account, Phase, Terminal
<1>6. PhaseMap' = [PhaseMap EXCEPT ![t] = "open"] /\ AccountMap' = AccountMap
  BY <1>4, <1>5 DEF PhaseMap, AccountMap
<1>7. ConsentMap' = ConsentMap
  BY <1>1, SameConsents
<1> QED  BY <1>1, <1>3, <1>6, <1>7 DEF Promise!Open, PhaseMap, ConsentMap, AccountMap

LEMMA ExecuteSucceedsRuns ==
  ASSUME OneAtATime, IInv, PInv, NEW r \in Handler, ExecuteSucceeds(r)
  PROVE  \E t \in Task, i \in Step : Promise!Run(t, i)
<1> DEFINE t == h[r].task
<1>1. h[r] \in Job /\ JobOK(gates, "exec", h[r]) /\ pc[r] = "exec" /\ UNCHANGED <<stores, undone>>
  BY StageFacts DEF ExecuteSucceeds, Serve, Stage
<1>2. PICK i \in Next1(h[r]) : ran' = Count(ran, t, i)
  BY DEF ExecuteSucceeds
<1>3. i \in Step /\ t \in Task /\ Phase(t) = "open"
  BY <1>1, NextFacts, HeldIsOpen DEF Working
<1>4. ran[t][i] = 0
  BY <1>1, HeldFacts, NextFacts DEF Working, InHand, RunSoFar
<1>5. ran' = [ran EXCEPT ![t][i] = @ + 1]
  BY <1>2 DEF Count
<1>6. UNCHANGED <<PhaseMap, AccountMap, ConsentMap>>
  BY <1>1, SamePhases, SameConsents DEF stores
<1>7. Guarded(i) => i \in Consented(t)
  <2>1. Runs(t, i)
    <3>1. \A j \in Step : Count(ran, t, i)[t][j] = IF j = i THEN ran[t][j] + 1 ELSE ran[t][j]
      BY <1>3, CountRaises DEF IInv, CountersInv
    <3> HIDE DEF t
    <3>2. ran'[t][i] = 1
      BY <1>2, <1>3, <1>4, <3>1
    <3> QED  BY <1>4, <3>2 DEF Runs
  <2> QED  BY <1>3, <2>1, ExecutedWasApproved DEF Consented
<1> HIDE DEF t
<1>8. PhaseMap[t] = "open" /\ ConsentMap[t] = Consented(t)
  BY <1>3 DEF PhaseMap, ConsentMap
<1>9. Promise!Run(t, i)
  BY <1>1, <1>3, <1>4, <1>5, <1>6, <1>7, <1>8 DEF Promise!Run, PhaseMap, ConsentMap, AccountMap
<1> QED  BY <1>3, <1>9

(* A compensation undoes a run; one that fails changes nothing. *)
LEMMA CompensateUndoes ==
  ASSUME OneAtATime, IInv, PInv, NEW r \in Handler, Compensate(r)
  PROVE  (\E t \in Task, i \in Step : Promise!Undo(t, i)) \/ UNCHANGED promised
<1> DEFINE t == h[r].task
<1>1. pc[r] = "undo" /\ UNCHANGED <<stores, ran>>
  BY DEF Compensate, Serve
<1>2. PICK i \in Step, ok \in BOOLEAN :
        Last(i, h[r].todo) /\ undone' = IF ok THEN Count(undone, t, i) ELSE undone
  BY DEF Compensate
<1>3. t \in Task /\ Phase(t) = "open"
  BY <1>1, HeldIsOpen DEF Working
<1>4. ran[t][i] = 1 /\ undone[t][i] = 0
  BY <1>1, <1>2, HeldFacts DEF Working, InHand, Last
<1>5. UNCHANGED <<PhaseMap, AccountMap, ConsentMap>>
  BY <1>1, SamePhases, SameConsents DEF stores
<1> HIDE DEF t
<1>6. CASE ok
  <2>1. undone' = [undone EXCEPT ![t][i] = @ + 1] /\ PhaseMap[t] = "open"
    BY <1>2, <1>3, <1>6 DEF Count, PhaseMap
  <2>2. Promise!Undo(t, i)
    BY <1>1, <1>4, <1>5, <2>1 DEF Promise!Undo, PhaseMap, ConsentMap, AccountMap
  <2> QED  BY <1>3, <2>2
<1>7. CASE ~ok
  BY <1>1, <1>2, <1>5, <1>7 DEF promised
<1> QED  BY <1>6, <1>7

(* An approval is consent to the step the gate was raised for. *)
LEMMA DecideConsents ==
  ASSUME OneAtATime, IInv, PInv, NEW r \in Handler, Decide(r)
  PROVE  (\E t \in Task, i \in Step : Promise!Consent(t, i)) \/ UNCHANGED promised
<1> DEFINE g == h[r].gate
<1>1. h[r] \in Job /\ pc[r] = "decideTask" /\ UNCHANGED <<tasks, ran, undone>>
  BY NotTheBrain, StageFacts DEF Decide, Deciding, world, Stage
<1>2. /\ g \in GateId /\ gates[g] \in Gate /\ gates[g].status = "PENDING"
      /\ gates[g] # None
  BY DecideKeepsAims, NoneAssumption DEF Decide, MayDecide
<1>3. PICK t, i : t = gates[g].task /\ i = gates[g].step
  OBVIOUS
<1>4. t \in Task /\ i \in Step
  BY <1>2, <1>3 DEF Gate
<1>5. UNCHANGED <<PhaseMap, AccountMap>>
  BY <1>1, SamePhases
<1>6. gates'[g] # None
  <2>1. gates'[g] = [gates[g] EXCEPT !.status = h[r].decision, !.decidedBy = h[r].actor]
    BY DecideKeepsAims
  <2>2. gates'[g] \in Gate
    BY <1>1, <1>2, <2>1 DEF Gate, Job
  <2> QED  BY <2>2, NoneAssumption
<1>7. /\ gates'[g].task = t /\ gates'[g].step = i /\ gates'[g].status = h[r].decision
      /\ \A q \in GateId : q # g => gates'[q] = gates[q]
  BY <1>2, <1>3, DecideKeepsAims, ZenonT(60) DEF Gate
<1>8. CASE h[r].decision = "APPROVED"
  <2>1. Consented(t)' = Consented(t) \cup {i}
    BY <1>2, <1>3, <1>4, <1>6, <1>7, <1>8 DEF Consented
  <2>2. ASSUME NEW u \in Task, u # t PROVE Consented(u)' = Consented(u)
    BY <1>2, <1>3, <1>7, <2>2 DEF Consented
  <2>3. ConsentMap' = [ConsentMap EXCEPT ![t] = @ \cup {i}]
    BY <1>4, <2>1, <2>2 DEF ConsentMap
  <2>4. Guarded(i)
    BY <1>2, <1>3 DEF PInv, HeavyGates, Guarded
  <2>5. PhaseMap[t] # "new"
    <3>1. tasks[t].plan[i].gate = g /\ g # None
      BY <1>1, <1>2, <1>3, <1>4, OthersRest, NoneAssumption DEF AtRest, LeadsBack, Working
    <3>2. tasks[t].status # "ABSENT"
      BY <1>4, <3>1 DEF IInv, StoresInv, ReportOK, Unplanned
    <3> QED  BY <1>4, <3>2 DEF PhaseMap, Phase
  <2>6. Promise!Consent(t, i)
    BY <1>1, <1>4, <1>5, <2>3, <2>4, <2>5 DEF Promise!Consent, PhaseMap, ConsentMap, AccountMap
  <2> QED  BY <1>4, <2>6
<1>9. CASE h[r].decision = "REJECTED"
  <2>1. ASSUME NEW u \in Task PROVE Consented(u)' = Consented(u)
    BY <1>2, <1>7, <1>9 DEF Consented
  <2> QED  BY <1>1, <1>5, <2>1 DEF promised, ConsentMap
<1> QED  BY <1>1, <1>8, <1>9 DEF Job

LEMMA SettleEnds ==
  ASSUME OneAtATime, IInv, PInv, NEW r \in Handler, Settle(r)
  PROVE  \E t \in Task : Promise!End(t)
<1>1. PICK t : t = h[r].task
  OBVIOUS
<1>2. /\ h[r] \in Job /\ pc[r] = "settle" /\ UNCHANGED <<gates, ran, undone>>
      /\ t \in Task /\ Phase(t) = "open"
  BY <1>1, HeldIsOpen, StageFacts DEF Settle, Serve, Stage, Working, world
<1>3. Stands(ran[t], undone[t], h[r].plan) /\ h[r].final \in Terminal
  BY <1>1, <1>2, HeldFacts DEF Working, InHand, Job
<1>4. /\ tasks'[t] = [status |-> h[r].final, plan |-> h[r].plan]
      /\ \A u \in Task : u # t => tasks'[u] = tasks[u]
  BY <1>1, <1>2 DEF Settle, Persist, IInv, StoresInv
<1>5. \A u \in Task : Phase(u)' = IF u = t THEN "ended" ELSE Phase(u)
  BY <1>3, <1>4 DEF Phase, Terminal
<1>6. Account(t)' = {i \in Step : ran[t][i] > undone[t][i]}
  BY <1>2, <1>3, <1>4, <1>5 DEF Account, Stands
<1>7. ASSUME NEW u \in Task, u # t PROVE Account(u)' = Account(u)
  BY <1>4, <1>5, <1>7 DEF Account
<1>8. /\ PhaseMap' = [PhaseMap EXCEPT ![t] = "ended"]
      /\ AccountMap' = [AccountMap EXCEPT ![t] = {i \in Step : ran[t][i] > undone[t][i]}]
  BY <1>2, <1>5, <1>6, <1>7 DEF PhaseMap, AccountMap
<1>9. PhaseMap[t] = "open" /\ ConsentMap' = ConsentMap
  BY <1>2, SameConsents DEF PhaseMap
<1> QED  BY <1>2, <1>8, <1>9 DEF Promise!End, PhaseMap, ConsentMap, AccountMap

(* Raising a gate is not consent, and parking a task does not end it. *)
LEMMA RequestGateStutters ==
  ASSUME IInv, NEW r \in Handler, RequestGate(r)
  PROVE  UNCHANGED promised
<1>1. h[r] \in Job /\ UNCHANGED <<tasks, ran, undone>>
  BY StageFacts DEF RequestGate, Serve, Stage, world
<1>2. PICK g \in GateId, i \in Step : OpenGate(g, h[r], i)
  BY DEF RequestGate
<1>3. /\ gates[g] = None /\ gates'[g].status = "PENDING"
      /\ \A q \in GateId : q # g => gates'[q] = gates[q]
  BY <1>2 DEF OpenGate, IInv, StoresInv
<1>4. \A u \in Task : Consented(u)' = Consented(u)
  BY <1>3 DEF Consented
<1> QED  BY <1>1, <1>4, SamePhases DEF promised, ConsentMap

LEMMA ParkStutters ==
  ASSUME IInv, PInv, NEW r \in Handler, Park(r)
  PROVE  UNCHANGED promised
<1>1. PICK t : t = h[r].task
  OBVIOUS
<1>2. /\ UNCHANGED <<gates, ran, undone>> /\ t \in Task
      /\ Phase(t) = "open" /\ Account(t) = {}
  BY <1>1, HeldIsOpen DEF Park, Serve, Working, world
<1>3. /\ tasks'[t].status = "APPROVAL"
      /\ \A u \in Task : u # t => tasks'[u] = tasks[u]
  BY <1>1, <1>2 DEF Park, Persist, IInv, StoresInv
<1>4. \A u \in Task : Phase(u)' = Phase(u)
  BY <1>2, <1>3 DEF Phase, Terminal
<1>5. \A u \in Task : Account(u)' = Account(u)
  BY <1>2, <1>3, <1>4 DEF Account
<1> QED  BY <1>2, <1>4, <1>5, SameConsents DEF promised, PhaseMap, AccountMap

(* What every other action leaves alone: the stores and the world. *)
LEMMA QuietStutters ==
  ASSUME UNCHANGED <<stores, world>>
  PROVE  UNCHANGED promised
BY SamePhases, SameConsents DEF stores, world, promised

(* Every step of a request served alone is a step of the promise, or none. *)
LEMMA StepSimulates ==
  ASSUME OneAtATime, IInv, PInv, Next
  PROVE  Promise!Next \/ UNCHANGED promised
<1>1. PICK r \in Handler : Request(r) \/ Work(r) \/ Abort(r)
  BY DEF Next
<1>2. CASE Request(r)
  <2>1. CASE \E t \in Task : StartTask(r, t)
    BY <2>1, StartTaskOpens DEF Promise!Next
  <2>2. CASE ~\E t \in Task : StartTask(r, t)
    BY <1>2, <2>2, QuietStutters DEF Request, ResumeTask, CancelTask, DecideRequest
  <2> QED  BY <2>1, <2>2
<1>3. CASE Work(r)
  <2>1. CASE Start(r)
    <3>1. MakePlan(r) => UNCHANGED <<stores, world>>
      BY DEF MakePlan
    <3> QED  BY <2>1, <3>1, QuietStutters, RequestGateStutters, ParkStutters DEF Start
  <2>2. CASE Resume(r)
    BY <2>2, QuietStutters DEF Resume, LoadParked, CheckGate, BeginRun
  <2>3. CASE Execute(r)
    <3>1. ExecuteSucceeds(r) => Promise!Next
      BY ExecuteSucceedsRuns DEF Promise!Next
    <3>2. SkipAction(r) \/ HonourGrant(r) \/ Proceed(r) \/ ExecuteFails(r)
            => UNCHANGED <<stores, world>>
      BY DEF SkipAction, HonourGrant, Proceed, ExecuteFails
    <3> QED  BY <2>3, <3>1, <3>2, NoGateMidRun, QuietStutters DEF Execute
  <2>4. CASE Finish(r)
    <3>1. Compensate(r) => Promise!Next \/ UNCHANGED promised
      BY CompensateUndoes DEF Promise!Next
    <3>2. Settle(r) => Promise!Next
      BY SettleEnds DEF Promise!Next
    <3>3. Compensated(r) \/ Verify(r) => UNCHANGED <<stores, world>>
      BY DEF Compensated, Verify
    <3> QED  BY <2>4, <3>1, <3>2, <3>3, QuietStutters DEF Finish
  <2>5. CASE Approve(r)
    <3>1. ~BrainExecutes(r) /\ ~RecordExecution(r)
      BY NotTheBrain DEF BrainExecutes, RecordExecution, Serve
    <3>2. Decide(r) => Promise!Next \/ UNCHANGED promised
      BY DecideConsents DEF Promise!Next
    <3>3. FindTask(r) \/ DecideRefused(r) => UNCHANGED <<stores, world>>
      BY DEF FindTask, DecideRefused
    <3> QED  BY <2>5, <3>1, <3>2, <3>3, QuietStutters DEF Approve
  <2>6. CASE LoadForCancel(r)
    BY <2>6, QuietStutters DEF LoadForCancel
  <2> QED  BY <1>3, <2>1, <2>2, <2>3, <2>4, <2>5, <2>6 DEF Work
<1>4. CASE Abort(r)
  BY <1>4, QuietStutters DEF Abort
<1> QED  BY <1>1, <1>2, <1>3, <1>4

(* Served one request at a time, the orchestrator, its doors and its       *)
(* stores implement GovernedTask: a guarded step runs only after a human   *)
(* consented to it and once, work is done and undone only while the task   *)
(* is open, and ending it fixes a true account (orchestration/index.ts).   *)
THEOREM PromiseIsKept ==
  ASSUME OneAtATime
  PROVE  Spec => KeepsThePromise
<1>1. Init => Promise!Init
  BY DEF Init, Promise!Init, Phase, Consented, Account
<1>2. IInv /\ PInv /\ [Next]_vars => [Promise!Next]_(Promise!vars)
  <2>1. ASSUME IInv, PInv, Next PROVE [Promise!Next]_(Promise!vars)
    BY <2>1, StepSimulates DEF promised, PhaseMap, ConsentMap, AccountMap, Promise!vars
  <2>2. ASSUME UNCHANGED vars PROVE UNCHANGED Promise!vars
    <3>1. UNCHANGED promised
      BY <2>2, QuietStutters DEF vars, stores, world
    <3> QED  BY <3>1 DEF promised, PhaseMap, ConsentMap, AccountMap, Promise!vars
  <2> QED  BY <2>1, <2>2
<1> QED  BY <1>1, <1>2, AloneInvariance, PTL DEF Spec, KeepsThePromise, Promise!Spec
=============================================================================
