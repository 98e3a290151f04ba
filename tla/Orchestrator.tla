---------------------------- MODULE Orchestrator ----------------------------
(***************************************************************************)
(* The task orchestrator and the doors that lead to it: POST               *)
(* /api/tania/tasks (start), POST /api/tania/tasks/:id/decision (resume,   *)
(* cancel) and POST /api/approvals (a human decision, which either resumes *)
(* the task that raised the gate or lets the Brain execute the action).    *)
(*                                                                         *)
(* A handler is one request being served.  Its code runs without           *)
(* interruption up to the next await on something shared (the task store,  *)
(* the approval store, the runtime), so each action below is the work      *)
(* between two such awaits; everything a handler holds in between is its   *)
(* own copy in h[r].                                                       *)
(***************************************************************************)
EXTENDS ToolPolicy, Sequences, FiniteSets

CONSTANTS
  Task,                     \* task identifiers
  Handler,                  \* request handlers that may be active together
  Actor, Approver,          \* actors, and those holding workflow:approve
  Owner,                    \* the actor each task belongs to
  GateId,                   \* identifiers approvals are drawn from
  None,                     \* absent value
  Manifest,                 \* the routed agent's requiredTools, in order
  MaxRisk,                  \* request.maxRisk, or the agent's riskLevel
  Threshold,                \* approvalThreshold of the deployment
  ScopeSets,                \* scope sets an actor may present with a request
  MaxAttempts,              \* ExecutionManagerOptions.maxAttempts
  Durable,                  \* backed by the API (TRUE) or by process memory
  RequireSeparateApprover,  \* APPROVAL_REQUIRE_SEPARATE_APPROVER
  MaxRequests, MaxAborts    \* bounds on requests served and on requests lost

ASSUME ManifestAssumption == Manifest \in Seq(Tool)
ASSUME ActorAssumption    == Approver \subseteq Actor /\ Owner \in [Task -> Actor]
ASSUME RiskAssumption     == MaxRisk \in RiskLevel /\ Threshold \in {"MEDIUM", "HIGH", "CRITICAL"}
ASSUME ScopeAssumption    == ScopeSets \subseteq SUBSET Scope
ASSUME BoundAssumption    == /\ MaxAttempts \in Nat \ {0}
                             /\ MaxRequests \in Nat /\ MaxAborts \in Nat
ASSUME ModeAssumption     == Durable \in BOOLEAN /\ RequireSeparateApprover \in BOOLEAN

VARIABLES
  tasks,   \* the task store
  gates,   \* the approval store
  pc, h,   \* where each handler is, and what it holds
  ran,     \* runtime calls that succeeded, per task and step of its plan
  undone,  \* runtime compensations that succeeded
  sent, aborted

stores == <<tasks, gates>>
world  == <<ran, undone>>
vars   == <<tasks, gates, pc, h, ran, undone, sent, aborted>>

Step == DOMAIN Manifest

ActionStatus == {"UNPLANNED", "PLANNED", "AWAITING_APPROVAL", "RUNNING", "SUCCEEDED",
                 "FAILED", "BLOCKED", "COMPENSATED"}
PlannedAction == [st : ActionStatus, gate : GateId \cup {None}]
Plan == [Step -> PlannedAction]

(* What the store keeps of a TaskReport. *)
Report == [status : TaskState \cup {"ABSENT"}, plan : Plan]

(* An approval record; task and step say what it was raised for. *)
Gate == [task : Task, step : Step, by : Actor, status : {"PENDING", "APPROVED", "REJECTED"},
         decidedBy : Actor \cup {None}, executed : {"NO", "SUCCEEDED", "FAILED"}]

ASSUME NoneAssumption == None \notin GateId \cup Gate

(* A handler's own copy of the report, and its position in the plan. *)
Job == [task : Task, actor : Actor, scopes : SUBSET Scope,
        gate : GateId \cup {None}, decision : {"APPROVED", "REJECTED"},
        status : TaskState, plan : Plan,
        granted : SUBSET Step, todo : SUBSET Step, tries : Nat,
        final : Terminal]

Stage == {"idle", "plan", "gate", "park", "load", "check", "run", "exec", "undo", "settle",
          "cancel", "find", "decideTask", "decideBrain", "brain", "record"}

Unplanned == [i \in Step |-> [st |-> "UNPLANNED", gate |-> None]]

Init ==
  /\ tasks = [t \in Task |-> [status |-> "ABSENT", plan |-> Unplanned]]
  /\ gates = [g \in GateId |-> None]
  /\ pc = [r \in Handler |-> "idle"]
  /\ h = [r \in Handler |-> None]
  /\ ran = [t \in Task |-> [i \in Step |-> 0]]
  /\ undone = [t \in Task |-> [i \in Step |-> 0]]
  /\ sent = 0 /\ aborted = 0

-----------------------------------------------------------------------------
(* Moving a handler. *)

Goto(r, stage, job) ==
  /\ pc' = [pc EXCEPT ![r] = stage]
  /\ h' = [h EXCEPT ![r] = job]

Return(r) == Goto(r, "idle", None)

(* A request arrives and starts being served. *)
Accept(r, stage, job) ==
  /\ pc[r] = "idle" /\ sent < MaxRequests
  /\ sent' = sent + 1
  /\ Goto(r, stage, job)
  /\ UNCHANGED aborted

Serve(r, stage) == pc[r] = stage /\ UNCHANGED <<sent, aborted>>

NewJob(t, actor, g, d, scopes) ==
  [task |-> t, actor |-> actor, scopes |-> scopes, gate |-> g, decision |-> d,
   status |-> "REQUESTED", plan |-> Unplanned,
   granted |-> {}, todo |-> {}, tries |-> 0, final |-> "CANCELLED"]

First(i, S) == i \in S /\ \A j \in S : i <= j
Last(i, S)  == i \in S /\ \A j \in S : j <= i

SetStatus(job, i, st) == [job EXCEPT !.plan[i].st = st]

(* Mutant of OpenGate: the record is born expired. *)
OpenGateExpired(g, job, i) ==
  /\ gates[g] = None
  /\ gates' = [gates EXCEPT ![g] =
       [task |-> job.task, step |-> i, by |-> job.actor, status |-> "EXPIRED",
        decidedBy |-> None, executed |-> "NO"]]

(* approvals.save: a PENDING record under a fresh id. *)
OpenGate(g, job, i) ==
  /\ gates[g] = None
  /\ gates' = [gates EXCEPT ![g] =
       [task |-> job.task, step |-> i, by |-> job.actor, status |-> "PENDING",
        decidedBy |-> None, executed |-> "NO"]]

(* Mutant of Awaiting: the plan forgets which gate the action waits for. *)
AwaitingUnnamed(job, i, g) ==
  [job EXCEPT !.plan[i].st = "AWAITING_APPROVAL", !.status = "APPROVAL"]

(* The action waits for gate g, and the report moves to APPROVAL. *)
Awaiting(job, i, g) ==
  [job EXCEPT !.plan[i] = [st |-> "AWAITING_APPROVAL", gate |-> g], !.status = "APPROVAL"]

Persist(job, status) ==
  tasks' = [tasks EXCEPT ![job.task] = [status |-> status, plan |-> job.plan]]

-----------------------------------------------------------------------------
(* TaskOrchestrator.start *)

StartTask(r, t) ==
  /\ tasks[t].status = "ABSENT"
  /\ \E scopes \in ScopeSets :
       Accept(r, "plan", NewJob(t, Owner[t], None, "APPROVED", scopes))
  /\ tasks' = [tasks EXCEPT ![t].status = "REQUESTED"]
  /\ UNCHANGED <<gates, world>>

(* CapabilityPlanner.plan: what the actor may not do, or what exceeds the  *)
(* ceiling, is planned as BLOCKED rather than dropped.                     *)
MayPlan(i, scopes) ==
  Allowed(Manifest[i], scopes) /\ IsAtLeast(MaxRisk, Registry[Manifest[i]].risk)

PlanFor(scopes) ==
  [i \in Step |-> [st |-> IF MayPlan(i, scopes) THEN "PLANNED" ELSE "BLOCKED",
                   gate |-> None]]

GatedActions(plan) ==
  {i \in Step : plan[i].st = "PLANNED" /\ RequiresHumanApproval(Manifest[i])}

(* UNDERSTANDING and PLANNING live in memory only: nothing is saved here.  *)
MakePlan(r) ==
  LET plan == PlanFor(h[r].scopes) IN
  /\ Serve(r, "plan")
  /\ IF GatedActions(plan) # {}
     THEN Goto(r, "gate", [h[r] EXCEPT !.plan = plan, !.status = "APPROVAL"])
     ELSE Goto(r, "run", [h[r] EXCEPT !.plan = plan, !.status = "EXECUTING", !.todo = Step])
  /\ UNCHANGED <<stores, world>>

RequestGate(r) ==
  /\ Serve(r, "gate")
  /\ \E i \in Step, g \in GateId :
       /\ First(i, GatedActions(h[r].plan))
       /\ OpenGate(g, h[r], i)
       /\ Goto(r, IF GatedActions(h[r].plan) = {i} THEN "park" ELSE "gate", Awaiting(h[r], i, g))
  /\ UNCHANGED <<tasks, world>>

(* The task is parked once every gate it needs has been raised. *)
Park(r) ==
  /\ Serve(r, "park")
  /\ Persist(h[r], "APPROVAL")
  /\ Return(r)
  /\ UNCHANGED <<gates, world>>

-----------------------------------------------------------------------------
(* TaskOrchestrator.resume *)

ResumeTask(r, t) ==
  /\ tasks[t].status # "ABSENT"
  /\ \E scopes \in ScopeSets :
       Accept(r, "load", NewJob(t, Owner[t], None, "APPROVED", scopes))
  /\ UNCHANGED <<stores, world>>

Loaded(job) == [job EXCEPT !.status = tasks[job.task].status, !.plan = tasks[job.task].plan]

LoadParked(r) ==
  /\ Serve(r, "load")
  /\ IF tasks[h[r].task].status = "APPROVAL"
     THEN Goto(r, "check", Loaded(h[r]))
     ELSE Return(r)
  /\ UNCHANGED <<stores, world>>

(* Mutant of Unread: a refused gate is passed over, as if never raised.    *)
UnreadUnlessRefused(job) ==
  {i \in Step : job.plan[i].gate # None /\ gates[job.plan[i].gate].status # "REJECTED"}
    \ job.granted

Unread(job) == {i \in Step : job.plan[i].gate # None} \ job.granted

(* One gate is read at a time, in plan order. *)
CheckGate(r) ==
  /\ Serve(r, "check")
  /\ \E i \in Step :
       /\ First(i, Unread(h[r]))
       /\ CASE gates[h[r].plan[i].gate].status = "REJECTED" ->
                 Goto(r, "settle", [SetStatus(h[r], i, "BLOCKED") EXCEPT !.final = "BLOCKED"])
            [] gates[h[r].plan[i].gate].status = "PENDING" -> Return(r)
            [] OTHER ->
                 Goto(r, "check", [SetStatus(h[r], i, "PLANNED") EXCEPT !.granted = @ \cup {i}])
  /\ UNCHANGED <<stores, world>>

BeginRun(r) ==
  /\ Serve(r, "check")
  /\ Unread(h[r]) = {}
  /\ Goto(r, "run", [h[r] EXCEPT !.status = "EXECUTING", !.todo = Step])
  /\ UNCHANGED <<stores, world>>

-----------------------------------------------------------------------------
(* RetryingExecutionManager.run, through GovernedToolInvoker.invoke.       *)

Next1(job) == {i \in Step : First(i, job.todo)}

Advance(job, i) == [job EXCEPT !.todo = @ \ {i}, !.tries = 0]

NeedsGate(i) == RequiresApproval(Manifest[i], Threshold)

(* Blocked by the plan, or by the policy the invoker evaluates again.      *)
SkipAction(r) ==
  /\ Serve(r, "run")
  /\ \E i \in Next1(h[r]) :
       /\ h[r].plan[i].st = "BLOCKED" \/ ~Allowed(Manifest[i], h[r].scopes)
       /\ Goto(r, "run", Advance(SetStatus(h[r], i, "BLOCKED"), i))
  /\ UNCHANGED <<stores, world>>

Runnable(job, i) == job.plan[i].st # "BLOCKED" /\ Allowed(Manifest[i], job.scopes)

(* No grant for this tool: a gate is raised mid-run and the task is parked. *)
RaiseGate(r) ==
  /\ Serve(r, "run")
  /\ \E i \in Next1(h[r]), g \in GateId :
       /\ Runnable(h[r], i) /\ NeedsGate(i) /\ i \notin h[r].granted
       /\ OpenGate(g, h[r], i)
       /\ Goto(r, "park", Awaiting(h[r], i, g))
  /\ UNCHANGED <<tasks, world>>

(* The grant the resume collected is read again before every attempt.      *)
HonourGrant(r) ==
  /\ Serve(r, "run")
  /\ \E i \in Next1(h[r]) :
       /\ Runnable(h[r], i) /\ NeedsGate(i) /\ i \in h[r].granted
       /\ IF gates[h[r].plan[i].gate].status = "APPROVED"
          THEN Goto(r, "exec", SetStatus(h[r], i, "RUNNING"))
          ELSE Goto(r, "run", Advance(SetStatus(h[r], i, "BLOCKED"), i))
  /\ UNCHANGED <<stores, world>>

Proceed(r) ==
  /\ Serve(r, "run")
  /\ \E i \in Next1(h[r]) :
       /\ Runnable(h[r], i) /\ ~NeedsGate(i)
       /\ Goto(r, "exec", SetStatus(h[r], i, "RUNNING"))
  /\ UNCHANGED <<stores, world>>

Count(f, t, i) == [f EXCEPT ![t][i] = @ + 1]

(* Mutant of ExecuteSucceeds: the success is not written into the plan. *)
ExecuteUnreported(r) ==
  /\ Serve(r, "exec")
  /\ \E i \in Next1(h[r]) :
       /\ ran' = Count(ran, h[r].task, i)
       /\ Goto(r, "run", Advance(h[r], i))
  /\ UNCHANGED <<stores, undone>>

ExecuteSucceeds(r) ==
  /\ Serve(r, "exec")
  /\ \E i \in Next1(h[r]) :
       /\ ran' = Count(ran, h[r].task, i)
       /\ Goto(r, "run", Advance(SetStatus(h[r], i, "SUCCEEDED"), i))
  /\ UNCHANGED <<stores, undone>>

Undoable(plan) ==
  {i \in Step : plan[i].st = "SUCCEEDED" /\ Registry[Manifest[i]].reversible}

(* Mutant of ExecuteFails: attempts are not counted. *)
RetryForever(r) ==
  /\ Serve(r, "exec")
  /\ \E i \in Next1(h[r]) : Manifest[i] # "knowledge_search" /\ Goto(r, "run", h[r])
  /\ UNCHANGED <<stores, world>>

(* Retrieval answers or throws; only a runtime call can report FAILED. The *)
(* last failure ends the run and starts the compensation.                  *)
ExecuteFails(r) ==
  /\ Serve(r, "exec")
  /\ \E i \in Next1(h[r]) :
       /\ Manifest[i] # "knowledge_search"
       /\ LET tries  == h[r].tries + 1
              failed == SetStatus(h[r], i, "FAILED")
          IN IF tries < MaxAttempts
             THEN Goto(r, "run", [h[r] EXCEPT !.tries = tries])
             ELSE Goto(r, "undo", [failed EXCEPT !.todo = Undoable(failed.plan), !.tries = 0,
                                                 !.final = "FAILED"])
  /\ UNCHANGED <<stores, world>>

(* compensate: newest first; a compensation that fails is passed over.     *)
Compensate(r) ==
  /\ Serve(r, "undo")
  /\ \E i \in Step, ok \in BOOLEAN :
       /\ Last(i, h[r].todo)
       /\ undone' = IF ok THEN Count(undone, h[r].task, i) ELSE undone
       /\ Goto(r, "undo",
            Advance(IF ok THEN SetStatus(h[r], i, "COMPENSATED") ELSE h[r], i))
  /\ UNCHANGED <<stores, ran>>

Compensated(r) ==
  /\ Serve(r, "undo")
  /\ h[r].todo = {}
  /\ Goto(r, "settle",
       [h[r] EXCEPT !.status = IF @ = "EXECUTING" THEN "VERIFYING" ELSE @])
  /\ UNCHANGED <<stores, world>>

(* PlanVerificationManager.verify: governance first.  Whether an artifact  *)
(* that was asked for came out usable depends on data left out here.       *)
GovernanceIssue(plan) ==
  \E i \in Step :
    \/ plan[i].st = "SUCCEEDED" /\ RequiresHumanApproval(Manifest[i]) /\ plan[i].gate = None
    \/ plan[i].st \in {"PLANNED", "RUNNING"}

Outcomes(plan) ==
  IF \A i \in Step : plan[i].st = "BLOCKED" THEN {"BLOCKED"}
  ELSE IF GovernanceIssue(plan) THEN {"FAILED"} ELSE {"COMPLETED", "FAILED"}

Verify(r) ==
  /\ Serve(r, "run")
  /\ h[r].todo = {}
  /\ \E final \in Outcomes(h[r].plan) :
       Goto(r, "settle", [h[r] EXCEPT !.status = "VERIFYING", !.final = final])
  /\ UNCHANGED <<stores, world>>

(* REPORTING, REMEMBERING (best effort) and the final save. *)
Settle(r) ==
  /\ Serve(r, "settle")
  /\ Persist(h[r], h[r].final)
  /\ Return(r)
  /\ UNCHANGED <<gates, world>>

-----------------------------------------------------------------------------
(* TaskOrchestrator.cancel *)

CancelTask(r, t) ==
  /\ tasks[t].status # "ABSENT"
  /\ \E scopes \in ScopeSets :
       Accept(r, "cancel", NewJob(t, Owner[t], None, "APPROVED", scopes))
  /\ UNCHANGED <<stores, world>>

(* A report saved before planning names no agent: agentOf throws on it.    *)
Routed(report) == report.plan # Unplanned

LoadForCancel(r) ==
  LET report == tasks[h[r].task] IN
  /\ Serve(r, "cancel")
  /\ IF report.status \notin Terminal /\ Routed(report)
     THEN Goto(r, "undo", [Loaded(h[r]) EXCEPT !.todo = Undoable(report.plan),
                                               !.final = "CANCELLED"])
     ELSE Return(r)
  /\ UNCHANGED <<stores, world>>

-----------------------------------------------------------------------------
(* POST /api/approvals *)

DecideRequest(r, a, g, d) ==
  /\ a \in Approver /\ gates[g] # None
  /\ \E scopes \in ScopeSets : Accept(r, "find", NewJob(gates[g].task, a, g, d, scopes))
  /\ UNCHANGED <<stores, world>>

(* findByApproval looks only among the deciding actor's own tasks.         *)
OwnTasks(a, g) ==
  {t \in Task : Owner[t] = a /\ tasks[t].status # "ABSENT"
                             /\ \E i \in Step : tasks[t].plan[i].gate = g}

(* Mutant of FindTask: the lookup is skipped and the Brain decides. *)
FindNothing(r) ==
  /\ Serve(r, "find")
  /\ Goto(r, "decideBrain", h[r])
  /\ UNCHANGED <<stores, world>>

FindTask(r) ==
  /\ Serve(r, "find")
  /\ IF OwnTasks(h[r].actor, h[r].gate) = {}
     THEN Goto(r, "decideBrain", h[r])
     ELSE \E t \in OwnTasks(h[r].actor, h[r].gate) :
            Goto(r, "decideTask", [h[r] EXCEPT !.task = t])
  /\ UNCHANGED <<stores, world>>

(* Mutant of AfterDecision: the Brain carries on whatever was decided. *)
AfterAnyDecision(r) ==
  Goto(r, IF pc[r] = "decideTask" THEN "load" ELSE "brain", h[r])

(* After a decision the orchestrator resumes the task, or the Brain goes   *)
(* by the decision that was asked for.                                     *)
AfterDecision(r) ==
  IF pc[r] = "decideTask" THEN Goto(r, "load", h[r])
  ELSE IF h[r].decision = "APPROVED" THEN Goto(r, "brain", h[r])
  ELSE Return(r)

Deciding(r) == pc[r] \in {"decideTask", "decideBrain"} /\ UNCHANGED <<sent, aborted>>

(* Mutants of MayDecide: the update is not conditional on PENDING; the     *)
(* requester may decide as well.                                           *)
MayDecideAgain(job) ==
  ~(Durable /\ RequireSeparateApprover /\ gates[job.gate].by = job.actor)

MayDecideOwn(job) == gates[job.gate].status = "PENDING"

MayDecide(job) ==
  /\ gates[job.gate].status = "PENDING"
  /\ ~(Durable /\ RequireSeparateApprover /\ gates[job.gate].by = job.actor)

Decide(r) ==
  /\ Deciding(r)
  /\ MayDecide(h[r])
  /\ gates' = [gates EXCEPT ![h[r].gate].status = h[r].decision,
                            ![h[r].gate].decidedBy = h[r].actor]
  /\ AfterDecision(r)
  /\ UNCHANGED <<tasks, world>>

(* The backend answers 409 or 403; the in-memory store returns the record  *)
(* it holds and the caller carries on.                                     *)
DecideRefused(r) ==
  /\ Deciding(r)
  /\ ~MayDecide(h[r])
  /\ IF Durable THEN Return(r) ELSE AfterDecision(r)
  /\ UNCHANGED <<stores, world>>

(* TaniaBrain.resolveApproval: one runtime call, then recordExecution.     *)
BrainExecutes(r) ==
  /\ Serve(r, "brain")
  /\ \E result \in {"COMPLETED", "FAILED"} :
       /\ ran' = IF result = "FAILED" THEN ran
                 ELSE Count(ran, h[r].task, gates[h[r].gate].step)
       /\ Goto(r, "record", [h[r] EXCEPT !.final = result])
  /\ UNCHANGED <<stores, undone>>

RecordExecution(r) ==
  /\ Serve(r, "record")
  /\ gates' = IF Durable
              THEN [gates EXCEPT ![h[r].gate].executed =
                      IF h[r].final = "COMPLETED" THEN "SUCCEEDED" ELSE "FAILED"]
              ELSE gates
  /\ Return(r)
  /\ UNCHANGED <<tasks, world>>

-----------------------------------------------------------------------------
(* A store call or a retrieval throws, or the process stops: the request   *)
(* ends and everything it held is gone.                                    *)
Abort(r) ==
  /\ pc[r] # "idle" /\ aborted < MaxAborts
  /\ aborted' = aborted + 1
  /\ Return(r)
  /\ UNCHANGED <<stores, world, sent>>

Start(r)   == MakePlan(r) \/ RequestGate(r) \/ Park(r)
Resume(r)  == LoadParked(r) \/ CheckGate(r) \/ BeginRun(r)
Execute(r) == \/ SkipAction(r) \/ RaiseGate(r) \/ HonourGrant(r) \/ Proceed(r)
              \/ ExecuteSucceeds(r) \/ ExecuteFails(r)
Finish(r)  == Compensate(r) \/ Compensated(r) \/ Verify(r) \/ Settle(r)
Approve(r) == \/ FindTask(r) \/ Decide(r) \/ DecideRefused(r)
              \/ BrainExecutes(r) \/ RecordExecution(r)

Work(r) == Start(r) \/ Resume(r) \/ Execute(r) \/ Finish(r) \/ LoadForCancel(r) \/ Approve(r)

Request(r) ==
  \/ \E t \in Task : StartTask(r, t) \/ ResumeTask(r, t) \/ CancelTask(r, t)
  \/ \E a \in Actor, g \in GateId, d \in {"APPROVED", "REJECTED"} : DecideRequest(r, a, g, d)

Next == \E r \in Handler : Request(r) \/ Work(r) \/ Abort(r)

Spec == Init /\ [][Next]_vars

(* A request being served is carried on: Node runs every ready callback.   *)
FairSpec == Spec /\ \A r \in Handler : WF_vars(Work(r))
=============================================================================
