----------------------- MODULE OrchestratorProperties -----------------------
(***************************************************************************)
(* What the orchestrator, its doors and its stores promise.                *)
(***************************************************************************)
EXTENDS Orchestrator

(* Every variable holds what the code can put there; a handler that is not *)
(* serving a request holds nothing.                                        *)
TypeOK ==
  /\ tasks \in [Task -> Report]
  /\ gates \in [GateId -> Gate \cup {None}]
  /\ pc \in [Handler -> Stage]
  /\ h \in [Handler -> Job \cup {None}]
  /\ \A r \in Handler : IF pc[r] = "idle" THEN h[r] = None ELSE h[r] \in Job
  /\ ran \in [Task -> [Step -> Nat]] /\ undone \in [Task -> [Step -> Nat]]
  /\ sent \in Nat /\ aborted \in Nat

Guarded(i) == RequiresHumanApproval(Manifest[i]) \/ NeedsGate(i)

Runs(t, i) == ran'[t][i] # ran[t][i]

(* L3 and L4 never run without an explicit human decision                  *)
(* (packages/types/src/task.ts:51): whichever door an action of a task     *)
(* runs through, a gate raised for that very action has been approved.     *)
GuardedRunsAreApproved ==
  [][\A t \in Task, i \in Step : Runs(t, i) /\ Guarded(i) =>
       \E g \in GateId : /\ gates[g] # None
                         /\ gates[g].task = t /\ gates[g].step = i
                         /\ gates[g].status = "APPROVED"]_vars

(* A decision is taken once: neither a second approver nor a retry can     *)
(* turn a decided gate around or take it over.                             *)
DecisionsAreFinal ==
  [][\A g \in GateId : gates[g] # None /\ gates[g].status # "PENDING" =>
       gates'[g].status = gates[g].status /\ gates'[g].decidedBy = gates[g].decidedBy]_vars

(* With separation of duty on, nobody decides on a gate they raised.       *)
SeparationOfDuty ==
  \A g \in GateId :
    gates[g] # None /\ gates[g].status # "PENDING" => gates[g].decidedBy # gates[g].by

Refused(t, i) ==
  \E g \in GateId : /\ gates[g] # None /\ gates[g].task = t /\ gates[g].step = i
                    /\ gates[g].status = "REJECTED"

(* An action a human refused is not run afterwards, by any door, when      *)
(* requests are served one at a time. Two resumes that overlap raise two   *)
(* gates for one action, and refusing one of them leaves the other.        *)
RefusedNeverRuns == [][\A t \in Task, i \in Step : Refused(t, i) => ~Runs(t, i)]_vars

(* Nothing runs twice: whatever sequence of starts, decisions, resumes and *)
(* cancels a task goes through, a guarded action succeeds at most once.    *)
GuardedRunsOnce == \A t \in Task, i \in Step : Guarded(i) => ran[t][i] <= 1

Serving(t) == {r \in Handler : pc[r] # "idle" /\ h[r].task = t}

(* The report of an ended task tells what happened: an action reads        *)
(* SUCCEEDED exactly when a run of it has not been compensated.            *)
ReportsTellTheTruth ==
  \A t \in Task : tasks[t].status \in Terminal =>
    \A i \in Step : (ran[t][i] > undone[t][i]) <=> (tasks[t].plan[i].st = "SUCCEEDED")

(* A task reported COMPLETED holds, for each heavy action that succeeded,  *)
(* a gate of its own that a human approved.                                *)
CompletedWasApproved ==
  \A t \in Task : tasks[t].status = "COMPLETED" =>
    \A i \in Step :
      tasks[t].plan[i].st = "SUCCEEDED" /\ RequiresHumanApproval(Manifest[i]) =>
        LET g == tasks[t].plan[i].gate IN
        g # None /\ gates[g].task = t /\ gates[g].step = i /\ gates[g].status = "APPROVED"

(* The transition table never refuses a move: at each point where the      *)
(* orchestrator is about to call move(), the moves it will make are legal. *)
MovesAreLegal ==
  \A r \in Handler :
    LET status == h[r].status IN
    /\ pc[r] = "plan"   => CanTransition(status, "UNDERSTANDING")
    /\ pc[r] = "check"  => CanTransition(status, "EXECUTING") /\ CanTransition(status, "REPORTING")
    /\ pc[r] = "run"    => CanTransition(status, "APPROVAL") /\ CanTransition(status, "VERIFYING")
    /\ pc[r] = "settle" => CanTransition(status, "REPORTING") /\ CanTransition("REMEMBERING", h[r].final)
    /\ pc[r] = "undo" /\ h[r].final = "CANCELLED" => CanTransition(status, "REPORTING")

OpenTasksCanBeClosed ==
  \A t \in Task : tasks[t].status \notin Terminal \cup {"ABSENT"} /\ Serving(t) = {} =>
    Routed(tasks[t])

GatesLeadBack ==
  \A g \in GateId : gates[g] # None /\ Serving(gates[g].task) = {} =>
    tasks[gates[g].task].plan[gates[g].step].gate = g

(* Once nobody is working on a task, nothing of it is stranded: an open    *)
(* one names the agent resume and cancel ask for (orchestrator.md section  *)
(* 2, invariant 4), and each gate is named by the stored plan, so that     *)
(* findByApproval sends its decision here (approvals/route.ts:61).         *)
NothingIsStranded == OpenTasksCanBeClosed /\ GatesLeadBack

(* The promise of GovernedTask, read off the stores: a task is open from  *)
(* its first save to its last, an approved gate is consent, and the plan   *)
(* of an ended report is the account of what stands.                       *)
Phase(t) == IF tasks[t].status = "ABSENT" THEN "new"
            ELSE IF tasks[t].status \in Terminal THEN "ended" ELSE "open"

Consented(t) ==
  {i \in Step : \E g \in GateId : /\ gates[g] # None /\ gates[g].status = "APPROVED"
                                  /\ gates[g].task = t /\ gates[g].step = i}

Account(t) == IF Phase(t) = "ended" THEN {i \in Step : tasks[t].plan[i].st = "SUCCEEDED"} ELSE {}

Promise == INSTANCE GovernedTask
             WITH GuardedStep <- {i \in Step : Guarded(i)},
                  phase   <- [t \in Task |-> Phase(t)],
                  consent <- [t \in Task |-> Consented(t)],
                  account <- [t \in Task |-> Account(t)]

(* Served one request at a time, the orchestrator keeps that promise.      *)
KeepsThePromise == Promise!Spec

(* A request that is accepted is answered: retries, skipped steps and      *)
(* compensations always come to an end.                                    *)
EveryRequestReturns == \A r \in Handler : (pc[r] # "idle") ~> (pc[r] = "idle")
=============================================================================
