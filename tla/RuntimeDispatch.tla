--------------------------- MODULE RuntimeDispatch ---------------------------
(***************************************************************************)
(* The single door from TANIA to JARVIS: CapabilityRoutingAdapter.dispatch *)
(* with the HTTP and simulated capability adapters behind it, the network, *)
(* and the runtime service at the other end.                               *)
(*                                                                         *)
(* A caller's code runs up to its next await: the race between the answer  *)
(* and the timer, and the sleep before a retry.  A request on the network  *)
(* outlives the attempt that sent it: abandoning the attempt closes the    *)
(* connection, not the runtime's work.  The service's own timeout cannot   *)
(* fire: no capability of this repository waits for anything.              *)
(***************************************************************************)
EXTENDS RuntimeCapabilities, Sequences

CONSTANTS
  Caller,       \* commands in progress, each with its own requestId
  Commands,     \* the commands callers may send
  Paths,        \* paths they may name
  Live,         \* capabilities served by the runtime; the others are simulated
  MaxAttempts,  \* maxAttempts of the adapter
  MaxFaults     \* bound on what the network does wrong

ASSUME RuntimeAssumption ==
  /\ Live \subseteq Capability /\ MaxAttempts \in Nat \ {0} /\ MaxFaults \in Nat
  /\ \A cmd \in Commands : IsCommand(cmd)

VARIABLES
  pc, job,        \* where each dispatch is, and what it holds
  net, replies,   \* requests and answers under way
  runs,           \* how often the runtime carried a caller's command out
  sent,           \* requests sent for it
  files, sessions, faults

vars == <<pc, job, net, replies, runs, sent, files, sessions, faults>>
world == <<runs, files, sessions>>

Waiting(c, n) == pc[c] = "waiting" /\ job[c].attempt = n

Init ==
  /\ pc = [c \in Caller |-> "idle"] /\ job = [c \in Caller |-> None]
  /\ net = {} /\ replies = {}
  /\ runs = [c \in Caller |-> 0] /\ sent = [c \in Caller |-> 0]
  /\ files = [p \in Paths |-> None] /\ sessions = {} /\ faults = 0

Goto(c, stage, j) ==
  /\ pc' = [pc EXCEPT ![c] = stage] /\ job' = [job EXCEPT ![c] = j]

(* finish: the caller is answered, and told how many attempts were made. *)
Finish(c, j, status, attempts) ==
  Goto(c, "answered", [j EXCEPT !.status = status, !.attempts = attempts])

-----------------------------------------------------------------------------
(* A command that says it needs a decision and carries none goes nowhere. *)
Admitted(cmd) == ~(cmd.requiresApproval /\ ~cmd.approved)

Dispatch(c, cmd) ==
  LET j == [cmd |-> cmd, attempt |-> 0, aborted |-> FALSE, status |-> "NONE", attempts |-> 0]
  IN
  /\ pc[c] = "idle"
  /\ IF Admitted(cmd) THEN Goto(c, "next", j) ELSE Finish(c, j, "REJECTED", 0)
  /\ UNCHANGED <<net, replies, sent, faults, world>>

(* The caller's signal. *)
WalkAway(c) ==
  /\ pc[c] \in {"next", "waiting", "sleeping"} /\ ~job[c].aborted
  /\ job' = [job EXCEPT ![c].aborted = TRUE]
  /\ UNCHANGED <<pc, net, replies, sent, faults, world>>

(* Mutant of CarryOut: the work is done before the command is looked at. *)
CarryOutAnyway(c, cmd, answer) ==
  /\ runs' = [runs EXCEPT ![c] = @ + 1]
  /\ UNCHANGED <<files, sessions>>

(* Only a command that succeeds leaves anything behind. *)
CarryOut(c, cmd, answer) ==
  IF answer.status = "SUCCEEDED"
  THEN /\ runs' = [runs EXCEPT ![c] = @ + 1]
       /\ files' = Written(cmd, c, files)
       /\ sessions' = SessionsAfter(cmd, sessions)
  ELSE UNCHANGED world

GivenUp(j) == j.aborted

CancelUnsent(c) == Finish(c, job[c], "CANCELLED", job[c].attempt)

(* The top of the retry loop. A simulated capability answers at once; a    *)
(* live one is sent the command.                                           *)
BeginAttempt(c) ==
  LET j   == [job[c] EXCEPT !.attempt = @ + 1]
      cmd == job[c].cmd
      simulated == SimulationHandles(cmd, files)
  IN
  /\ pc[c] = "next"
  /\ IF GivenUp(job[c]) THEN
       /\ CancelUnsent(c)
       /\ UNCHANGED <<net, replies, sent, faults, world>>
     ELSE
       /\ sent' = [sent EXCEPT ![c] = @ + 1]
       /\ Goto(c, "waiting", j)
       /\ IF cmd.capability \in Live
          THEN net' = net \cup {[from |-> c, n |-> j.attempt, cmd |-> cmd]}
               /\ UNCHANGED <<replies, world>>
          ELSE /\ replies' = replies \cup {[to |-> c, n |-> j.attempt, answer |-> simulated]}
               /\ CarryOut(c, cmd, simulated)
               /\ UNCHANGED net
       /\ UNCHANGED faults

(* Mutant of Retry: the budget of attempts is forgotten. *)
RetryForever(j, answer) == (answer.status = "TIMEOUT" \/ answer.retryable) /\ ~j.aborted

(* A failure is worth another attempt when it timed out or says so. *)
Retry(j, answer) ==
  (answer.status = "TIMEOUT" \/ answer.retryable) /\ j.attempt < MaxAttempts /\ ~j.aborted

(* An attempt has its outcome; cancellation wins over anything but success. *)
Conclude(c, answer) ==
  LET j == job[c]
      status == IF j.aborted /\ answer.status # "SUCCEEDED" THEN "CANCELLED" ELSE answer.status
  IN
  IF status \in {"SUCCEEDED", "CANCELLED"} \/ ~Retry(j, answer)
  THEN Finish(c, j, status, j.attempt)
  ELSE Goto(c, "sleeping", j)

(* The answer wins the race. *)
ReceiveAnswer(c) ==
  \E r \in replies :
    /\ r.to = c /\ Waiting(c, r.n)
    /\ Conclude(c, r.answer)
    /\ replies' = replies \ {r}
    /\ UNCHANGED <<net, sent, faults, world>>

(* Mutant of TimeOut: the budget bounds the whole command, not an attempt. *)
TimeOutFirst(c) ==
  /\ pc[c] = "waiting" /\ job[c].cmd.capability \in Live /\ job[c].attempt = 1
  /\ Conclude(c, Answer("TIMEOUT", TRUE))
  /\ UNCHANGED <<net, replies, sent, faults, world>>

(* The timer wins: the connection is closed, the request is not recalled. *)
TimeOut(c) ==
  /\ pc[c] = "waiting" /\ job[c].cmd.capability \in Live
  /\ Conclude(c, Answer("TIMEOUT", TRUE))
  /\ UNCHANGED <<net, replies, sent, faults, world>>

(* The signal closes the connection of the attempt under way. *)
Disconnect(c) ==
  /\ pc[c] = "waiting" /\ job[c].aborted /\ job[c].cmd.capability \in Live
  /\ Conclude(c, Answer("FAILED", TRUE))
  /\ UNCHANGED <<net, replies, sent, faults, world>>

Backoff(c) ==
  /\ pc[c] = "sleeping"
  /\ Goto(c, "next", job[c])
  /\ UNCHANGED <<net, replies, sent, faults, world>>

-----------------------------------------------------------------------------
(* The network and the runtime. *)

(* The runtime receives a request, early or late, and answers whoever is   *)
(* still connected.                                                        *)
Execute(m) ==
  LET answer == RuntimeExecutes(m.cmd, files) IN
  /\ m \in net
  /\ net' = net \ {m}
  /\ CarryOut(m.from, m.cmd, answer)
  /\ replies' = IF Waiting(m.from, m.n)
                THEN replies \cup {[to |-> m.from, n |-> m.n, answer |-> answer]} ELSE replies
  /\ UNCHANGED <<pc, job, sent, faults>>

(* A gateway refuses the connection (worth a retry) or answers for the     *)
(* runtime with something that is no result (not worth one).               *)
Fault ==
  /\ faults < MaxFaults /\ faults' = faults + 1
  /\ \/ \E m \in net :
          /\ net' = net \ {m}
          /\ replies' \in {replies, replies \cup
               {[to |-> m.from, n |-> m.n, answer |-> Answer("FAILED", TRUE)]}}
     \/ \E r \in replies :
          /\ job[r.to].cmd.capability \in Live
          /\ \E retryable \in BOOLEAN :
               replies' \in {replies \ {r}, (replies \ {r}) \cup
                 {[r EXCEPT !.answer = Answer("FAILED", retryable)]}}
          /\ UNCHANGED net
  /\ UNCHANGED <<pc, job, sent, world>>

(* POST /v1/commands from somebody else than the adapter. *)
CallDirectly(c, cmd) ==
  /\ pc[c] = "idle" /\ cmd.capability \in Live
  /\ Goto(c, "direct", [cmd |-> cmd, attempt |-> 1, aborted |-> TRUE, status |-> "NONE",
                        attempts |-> 0])
  /\ net' = net \cup {[from |-> c, n |-> 1, cmd |-> cmd]}
  /\ UNCHANGED <<replies, sent, faults, world>>

-----------------------------------------------------------------------------
Work(c) == BeginAttempt(c) \/ ReceiveAnswer(c) \/ TimeOut(c) \/ Disconnect(c) \/ Backoff(c)

Next ==
  \/ \E c \in Caller :
       \/ Work(c) \/ WalkAway(c)
       \/ \E cmd \in Commands : Dispatch(c, cmd) \/ CallDirectly(c, cmd)
  \/ \E m \in net : Execute(m)
  \/ Fault

Spec == Init /\ [][Next]_vars

(* Timers fire and ready callbacks run; the network owes nothing. *)
FairSpec == Spec /\ \A c \in Caller : WF_vars(Work(c))
=============================================================================
