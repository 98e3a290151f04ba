------------------------ MODULE RuntimeDispatch_proof ------------------------
(***************************************************************************)
(* Theorems about dispatching commands to the runtime, for any callers,    *)
(* commands, live capabilities, number of attempts and network faults.     *)
(***************************************************************************)
EXTENDS RuntimeDispatchProperties, TLAPS, FiniteSetTheorems

Stage == {"idle", "next", "waiting", "sleeping", "answered", "direct"}

Answers == [status : Status \ {"NONE"}, retryable : BOOLEAN]

JobRecord ==
  [cmd : Commands, attempt : Int, aborted : BOOLEAN, status : Status, attempts : Int]

Simulated(cmd) == cmd.capability \notin Live

(* Commands that the end serving them cannot carry out, whatever its files *)
(* hold: no approval, or no such action or device.                         *)
Futile(cmd) ==
  \/ ~Admitted(cmd)
  \/ /\ ~Simulated(cmd)
     /\ cmd.action \notin RuntimeActions[cmd.capability]
  \/ /\ Simulated(cmd)
     /\ cmd.action \notin SimulatedActions[cmd.capability] \/ cmd.capability = "computer"

(* What a dispatch in a stage, holding j, may have done and have been told. *)
Fits(stage, j, ran, requests) ==
  /\ stage = "idle" => j = None /\ ran = 0 /\ requests = 0
  /\ stage # "idle" =>
       /\ j \in JobRecord
       /\ j.attempt \in 0 .. MaxAttempts /\ j.attempts \in 0 .. j.attempt
       /\ stage \in {"next", "sleeping"} => j.attempt < MaxAttempts
       /\ j.status # "NONE" <=> stage = "answered"
       /\ IF stage = "direct" THEN requests = 0 /\ ~Simulated(j.cmd) ELSE requests = j.attempt
       /\ stage = "answered" => j.attempts = requests
       /\ stage \in {"next", "waiting", "sleeping"} => Admitted(j.cmd)
       /\ Futile(j.cmd) => ran = 0
       /\ j.status = "SUCCEEDED" => ran > 0
       /\ j.status \in {"REJECTED", "UNSUPPORTED"} => Futile(j.cmd)
       /\ Simulated(j.cmd) =>
            /\ stage # "sleeping"
            /\ stage = "next" => ran = 0
            /\ stage = "answered" /\ ran > 0 => j.status = "SUCCEEDED"

(* What an answer says of the command j it answers. *)
Honest(answer, j, ran) ==
  /\ answer \in Answers
  /\ answer.status = "SUCCEEDED" => ran > 0
  /\ answer.status \in {"REJECTED", "UNSUPPORTED"} => Futile(j.cmd)
  /\ Simulated(j.cmd) =>
       /\ ~answer.retryable /\ answer.status # "TIMEOUT"
       /\ ran > 0 => answer.status = "SUCCEEDED"

Pending(c) == {m \in net : m.from = c}

Shapes ==
  /\ pc \in [Caller -> Stage] /\ job \in [Caller -> JobRecord \cup {None}]
  /\ runs \in [Caller -> Nat] /\ sent \in [Caller -> Nat]
  /\ net \subseteq [from : Caller, n : 1 .. MaxAttempts, cmd : Commands]
  /\ replies \subseteq [to : Caller, n : 1 .. MaxAttempts, answer : Answers]
  /\ \A p \in DOMAIN files : files[p] \in Caller \cup {None}

DispatchesInv == \A c \in Caller : Fits(pc[c], job[c], runs[c], sent[c])

RequestsInv ==
  \A m \in net : pc[m.from] # "idle" /\ m.cmd = job[m.from].cmd /\ ~Simulated(m.cmd)

RepliesInv ==
  \A r \in replies :
    /\ pc[r.to] # "idle" /\ Honest(r.answer, job[r.to], runs[r.to])
    /\ Simulated(job[r.to].cmd) => pc[r.to] # "next"

(* A request is carried out once: what ran and what may still run is no    *)
(* more than what was sent.                                                *)
BudgetInv ==
  \A c \in Caller :
    /\ IsFiniteSet(Pending(c))
    /\ pc[c] = "idle" => Pending(c) = {}
    /\ pc[c] # "idle" => runs[c] + Cardinality(Pending(c)) <= job[c].attempt

IInv == Shapes /\ DispatchesInv /\ RequestsInv /\ RepliesInv /\ BudgetInv

-----------------------------------------------------------------------------
(* What the two ends answer. *)

LEMMA CommandFacts ==
  ASSUME NEW cmd \in Commands
  PROVE  /\ cmd.capability \in Capability
         /\ cmd.requiresApproval \in BOOLEAN /\ cmd.approved \in BOOLEAN
BY RuntimeAssumption DEF RuntimeAssumption, IsCommand

LEMMA ConstantsFacts == MaxAttempts \in Nat \ {0}
BY RuntimeAssumption DEF RuntimeAssumption

LEMMA AnswerTypes ==
  /\ {Done, Refused, Unsupported, Answer("REJECTED", FALSE)} \subseteq Answers
  /\ \A retryable \in BOOLEAN : Answer("FAILED", retryable) \in Answers
  /\ Answer("TIMEOUT", TRUE) \in Answers
BY DEF Answers, Status, Done, Refused, Unsupported, Answer

(* The service has nothing to do for a workstation capability. *)
LEMMA NoWorkstation == \A h \in Hardware : RuntimeActions[h] = {}
<1> SUFFICES ASSUME NEW h \in Hardware PROVE RuntimeActions[h] = {}
  OBVIOUS
<1>1. h \in Capability
  BY DEF Capability
<1>2. h \notin {Tools, "files", "session", "verification", "skills"}
  BY DEF Hardware, Tools
<1> QED  BY <1>1, <1>2 DEF RuntimeActions

LEMMA RuntimeHandlesAnswers ==
  ASSUME NEW cmd \in Commands, NEW fs
  PROVE  /\ RuntimeHandles(cmd, fs) \in {Done, Refused, Unsupported}
         /\ cmd.action \notin RuntimeActions[cmd.capability]
              <=> RuntimeHandles(cmd, fs) = Unsupported
<1>1. When(TRUE) = Done /\ When(FALSE) = Refused /\ Done # Unsupported /\ Refused # Unsupported
  BY DEF When, Done, Refused, Unsupported, Answer
<1>2. CASE cmd.action \notin RuntimeActions[cmd.capability]
  BY <1>1, <1>2 DEF RuntimeHandles
<1>3. CASE cmd.action \in RuntimeActions[cmd.capability]
  <2>1. cmd.capability \in {Tools, "files", "session", "skills", "verification"}
    BY <1>3, CommandFacts, NoWorkstation DEF Capability
  <2>2. RuntimeHandles(cmd, fs) \in {RuntimeTools(cmd), RuntimeFiles(cmd, fs),
                                     RuntimeSession(cmd), RuntimeSkills(cmd), Done}
    BY <1>3, <2>1 DEF RuntimeHandles, Tools
  <2>3. \A b \in BOOLEAN : When(b) \in {Done, Refused}
    BY DEF When
  <2>4. {RuntimeTools(cmd), RuntimeFiles(cmd, fs), RuntimeSession(cmd), RuntimeSkills(cmd)}
          \subseteq {Done, Refused}
    BY DEF RuntimeTools, RuntimeFiles, RuntimeSession, RuntimeSkills, When
  <2> QED  BY <1>1, <1>3, <2>2, <2>4
<1> QED  BY <1>2, <1>3

(* The runtime succeeds only with what it can do and may do, and says that *)
(* it refuses a command, or does not know it, whatever its files hold.     *)
LEMMA RuntimeAnswers ==
  ASSUME NEW cmd \in Commands, ~Simulated(cmd), NEW fs
  PROVE  LET answer == RuntimeExecutes(cmd, fs) IN
         /\ answer \in Answers
         /\ answer.status = "SUCCEEDED" => ~Futile(cmd)
         /\ answer.status \in {"REJECTED", "UNSUPPORTED"} => Futile(cmd)
<1> DEFINE answer == RuntimeExecutes(cmd, fs)
<1>1. CASE ~Admitted(cmd)
  <2>1. answer = Answer("REJECTED", FALSE) /\ Futile(cmd)
    BY <1>1 DEF RuntimeExecutes, Admitted, Futile
  <2> QED  BY <2>1, AnswerTypes DEF Answer
<1>2. CASE Admitted(cmd)
  <2>1. answer = RuntimeHandles(cmd, fs)
    BY <1>2 DEF RuntimeExecutes, Admitted
  <2>2. Futile(cmd) <=> answer = Unsupported
    BY <1>2, <2>1, RuntimeHandlesAnswers DEF Futile
  <2>3. answer \in {Done, Refused, Unsupported}
    BY <2>1, RuntimeHandlesAnswers
  <2> HIDE DEF answer
  <2>4. /\ answer.status = "SUCCEEDED" => answer # Unsupported
        /\ answer.status \in {"REJECTED", "UNSUPPORTED"} => answer = Unsupported
    BY <2>3 DEF Done, Refused, Unsupported, Answer
  <2>5. answer \in Answers
    BY <2>3, AnswerTypes
  <2> QED  BY <2>2, <2>4, <2>5 DEF answer
<1> QED  BY <1>1, <1>2

LEMMA SimulationAnswers ==
  ASSUME NEW cmd \in Commands, Simulated(cmd), Admitted(cmd), NEW fs
  PROVE  LET answer == SimulationHandles(cmd, fs) IN
         /\ answer \in {Done, Refused, Unsupported}
         /\ answer = Done => ~Futile(cmd)
         /\ answer = Unsupported => Futile(cmd)
<1>1. When(TRUE) = Done /\ When(FALSE) = Refused
      /\ Done # Unsupported /\ Refused # Unsupported /\ Done # Refused
  BY DEF When, Done, Refused, Unsupported, Answer
<1>2. \A b \in BOOLEAN : When(b) \in {Done, Refused}
  BY DEF When
<1>3. cmd.capability \in Capability
  BY CommandFacts
<1>4. CASE cmd.capability = "session"
  <2>1. SimulationHandles(cmd, fs) = SimulatedSession(cmd)
    BY <1>4, <1>3 DEF SimulationHandles, Hardware, Tools
  <2>2. SimulatedSession(cmd) =
          IF cmd.arg # None /\ cmd.action \notin SimulatedActions[cmd.capability] THEN Unsupported
          ELSE When(cmd.arg # None)
    BY <1>4 DEF SimulatedSession
  <2>3. CASE cmd.arg = None
    BY <2>1, <2>2, <2>3, <1>1
  <2>4. CASE cmd.arg # None
    BY <2>1, <2>2, <2>4, <1>1, <1>4 DEF Futile
  <2> QED  BY <2>3, <2>4
<1>5. CASE cmd.capability # "session" /\ cmd.action \notin SimulatedActions[cmd.capability]
  <2>1. SimulationHandles(cmd, fs) = Unsupported
    BY <1>5, <1>3 DEF SimulationHandles
  <2> QED  BY <1>1, <1>5, <2>1 DEF Futile
<1>6. CASE cmd.capability # "session" /\ cmd.action \in SimulatedActions[cmd.capability]
  <2>1. CASE cmd.capability = "computer"
    <3>1. SimulationHandles(cmd, fs) = Unsupported
      BY <1>6, <2>1 DEF SimulationHandles, SimulatedDevice, Hardware, Tools
    <3> QED  BY <1>1, <2>1, <3>1 DEF Futile
  <2>2. CASE cmd.capability # "computer"
    <3>1. SimulationHandles(cmd, fs) \in
            {SimulatedDevice(cmd), SimulatedFiles(cmd, fs), SimulatedTools(cmd),
             SimulatedSkills(cmd), Done}
      BY <1>6, <2>2, <1>3 DEF SimulationHandles, Hardware, Capability, Tools
    <3>2. {SimulatedDevice(cmd), SimulatedFiles(cmd, fs), SimulatedTools(cmd),
           SimulatedSkills(cmd)} \subseteq {Done, Refused}
      BY <2>2 DEF SimulatedDevice, SimulatedFiles, SimulatedTools, SimulatedSkills, When
    <3>3. ~Futile(cmd)
      BY <1>6, <2>2 DEF Futile
    <3> QED  BY <1>1, <3>1, <3>2, <3>3
  <2> QED  BY <2>1, <2>2
<1> QED  BY <1>4, <1>5, <1>6

-----------------------------------------------------------------------------
(* The inductive invariant. *)

LEMMA InitIInv == Init => IInv
<1> SUFFICES ASSUME Init PROVE IInv
  OBVIOUS
<1>1. Shapes
  BY DEF Init, Shapes, Stage
<1>2. DispatchesInv
  BY DEF Init, DispatchesInv, Fits
<1>3. RequestsInv /\ RepliesInv
  BY DEF Init, RequestsInv, RepliesInv
<1>4. BudgetInv
  <2>1. \A c \in Caller : Pending(c) = {}
    BY DEF Init, Pending
  <2> QED  BY <2>1, FS_EmptySet DEF Init, BudgetInv
<1> QED  BY <1>1, <1>2, <1>3, <1>4 DEF IInv

(* finish writes its two fields and leaves the others. *)
LEMMA FinishedJob ==
  ASSUME NEW j \in JobRecord, NEW status \in Status, NEW n \in Int
  PROVE  LET f == [j EXCEPT !.status = status, !.attempts = n] IN
         /\ f \in JobRecord /\ f.status = status /\ f.attempts = n
         /\ f.cmd = j.cmd /\ f.attempt = j.attempt
BY DEF JobRecord

LEMMA CancelledJob ==
  ASSUME NEW j \in JobRecord
  PROVE  LET f == [j EXCEPT !.status = "CANCELLED", !.attempts = j.attempt] IN
         /\ f \in JobRecord /\ f.status = "CANCELLED" /\ f.attempts = j.attempt
         /\ f.cmd = j.cmd /\ f.attempt = j.attempt /\ f.attempt >= j.attempt
<1>1. PICK n \in Int : n = j.attempt
  BY DEF JobRecord
<1>2. PICK status \in Status : status = "CANCELLED"
  BY DEF Status
<1> DEFINE f == [j EXCEPT !.status = status, !.attempts = n]
<1>3. /\ f \in JobRecord /\ f.status = status /\ f.attempts = n
      /\ f.cmd = j.cmd /\ f.attempt = j.attempt
  BY <1>1, <1>2 DEF JobRecord
<1>4. f.attempt >= j.attempt
  BY <1>1, <1>3
<1>5. f = [j EXCEPT !.status = "CANCELLED", !.attempts = j.attempt]
  BY <1>1, <1>2
<1> QED  BY <1>1, <1>2, <1>3, <1>4, <1>5

(* A dispatch moves on, and nothing is sent or carried out. *)
LEMMA MoveOn ==
  ASSUME IInv, NEW c \in Caller, NEW stage \in Stage \ {"idle"}, NEW j \in JobRecord,
         pc' = [pc EXCEPT ![c] = stage], job' = [job EXCEPT ![c] = j],
         UNCHANGED <<net, sent, world>>, replies' \subseteq replies,
         Fits(stage, j, runs[c], sent[c]),
         pc[c] # "idle" => j.cmd = job[c].cmd /\ j.attempt >= job[c].attempt,
         Simulated(j.cmd) /\ stage = "next" => pc[c] \in {"idle", "next"}
  PROVE  IInv'
<1> USE DEF IInv
<1>1. \A d \in Caller : pc'[d] = (IF d = c THEN stage ELSE pc[d])
                       /\ job'[d] = (IF d = c THEN j ELSE job[d])
  BY DEF Shapes
<1>2. Shapes'
  BY DEF Shapes, world
<1>3. DispatchesInv'
  BY <1>1 DEF DispatchesInv, world
<1>4. RequestsInv'
  BY <1>1 DEF RequestsInv, Shapes
<1>5. RepliesInv'
  <2> SUFFICES ASSUME NEW r \in replies'
               PROVE  /\ pc'[r.to] # "idle" /\ Honest(r.answer, job'[r.to], runs'[r.to])
                      /\ Simulated(job'[r.to].cmd) => pc'[r.to] # "next"
    BY DEF RepliesInv
  <2>1. /\ r.to \in Caller /\ pc[r.to] # "idle" /\ Honest(r.answer, job[r.to], runs[r.to])
        /\ Simulated(job[r.to].cmd) => pc[r.to] # "next"
    BY DEF RepliesInv, Shapes
  <2>2. CASE r.to # c
    BY <1>1, <2>1, <2>2 DEF world
  <2>3. CASE r.to = c
    <3>1. job[c].cmd = j.cmd
      BY <2>1, <2>3
    <3>2. Honest(r.answer, j, runs[c])
      BY <2>1, <2>3, <3>1 DEF Honest
    <3> QED  BY <1>1, <2>1, <2>3, <3>1, <3>2 DEF world
  <2> QED  BY <2>2, <2>3
<1>6. BudgetInv'
  <2>1. \A d \in Caller : Pending(d)' = Pending(d) /\ runs'[d] = runs[d]
    BY DEF Pending, world
  <2> SUFFICES ASSUME NEW d \in Caller
               PROVE  /\ IsFiniteSet(Pending(d)')
                      /\ pc'[d] = "idle" => Pending(d)' = {}
                      /\ pc'[d] # "idle" => runs'[d] + Cardinality(Pending(d)') <= job'[d].attempt
    BY DEF BudgetInv
  <2>2. IsFiniteSet(Pending(d)) /\ (pc[d] = "idle" => Pending(d) = {})
        /\ (pc[d] # "idle" => runs[d] + Cardinality(Pending(d)) <= job[d].attempt)
    BY DEF BudgetInv
  <2>3. CASE d # c
    BY <1>1, <2>1, <2>2, <2>3
  <2>4. CASE d = c /\ pc[c] = "idle"
    <3>1. runs[c] = 0 /\ Cardinality(Pending(c)) = 0 /\ j.attempt \in Nat
      BY <2>2, <2>4, FS_EmptySet, ConstantsFacts DEF DispatchesInv, Fits
    <3> QED  BY <1>1, <2>1, <2>2, <2>4, <3>1
  <2>5. CASE d = c /\ pc[c] # "idle"
    <3>1. runs[c] \in Nat /\ Cardinality(Pending(c)) \in Nat
          /\ j.attempt \in Int /\ job[c].attempt \in Int
      BY <2>2, <2>5, FS_CardinalityType DEF JobRecord, Shapes, DispatchesInv, Fits
    <3> QED  BY <1>1, <2>1, <2>2, <2>5, <3>1
  <2> QED  BY <2>3, <2>4, <2>5
<1> QED  BY <1>2, <1>3, <1>4, <1>5, <1>6

LEMMA DispatchStep ==
  ASSUME IInv, NEW c \in Caller, NEW cmd \in Commands, Dispatch(c, cmd)
  PROVE  IInv'
<1> DEFINE j == [cmd |-> cmd, attempt |-> 0, aborted |-> FALSE, status |-> "NONE", attempts |-> 0]
           r == [j EXCEPT !.status = "REJECTED", !.attempts = 0]
<1>1. j \in JobRecord
  BY DEF JobRecord, Status
<1>2. 0 \in Int /\ "REJECTED" \in Status
  BY DEF Status
<1>3. r \in JobRecord /\ r.status = "REJECTED" /\ r.attempts = 0 /\ r.attempt = 0 /\ r.cmd = cmd
  BY <1>1, <1>2 DEF JobRecord
<1>4. pc[c] = "idle" /\ runs[c] = 0 /\ sent[c] = 0
  BY DEF Dispatch, IInv, DispatchesInv, Fits
<1>5. UNCHANGED <<net, sent, world>> /\ replies' \subseteq replies
  BY DEF Dispatch
<1>6. CASE Admitted(cmd)
  <2>1. pc' = [pc EXCEPT ![c] = "next"] /\ job' = [job EXCEPT ![c] = j]
    BY <1>6 DEF Dispatch, Goto
  <2>2. Fits("next", j, 0, 0)
    BY <1>1, <1>6, ConstantsFacts DEF Fits
  <2> QED  BY <1>1, <1>4, <1>5, <2>1, <2>2, MoveOn DEF Stage
<1>7. CASE ~Admitted(cmd)
  <2>1. pc' = [pc EXCEPT ![c] = "answered"] /\ job' = [job EXCEPT ![c] = r]
    BY <1>7 DEF Dispatch, Finish, Goto
  <2> HIDE DEF r
  <2>2. Fits("answered", r, 0, 0)
    BY <1>3, <1>7, ConstantsFacts DEF Fits, Futile
  <2> QED  BY <1>3, <1>4, <1>5, <2>1, <2>2, MoveOn DEF Stage
<1> QED  BY <1>6, <1>7

LEMMA WalkAwayStep ==
  ASSUME IInv, NEW c \in Caller, WalkAway(c)
  PROVE  IInv'
<1> DEFINE j == [job[c] EXCEPT !.aborted = TRUE]
<1>1. pc[c] \in Stage \ {"idle"} /\ pc[c] \in {"next", "waiting", "sleeping"}
  BY DEF WalkAway, Stage
<1>2. Fits(pc[c], job[c], runs[c], sent[c]) /\ job[c] \in JobRecord
  BY <1>1 DEF IInv, DispatchesInv, Fits
<1>3. /\ j \in JobRecord /\ j.cmd = job[c].cmd /\ j.attempt = job[c].attempt
      /\ j.attempts = job[c].attempts /\ j.status = job[c].status
  BY <1>2 DEF JobRecord
<1>4. job' = [job EXCEPT ![c] = j] /\ pc' = [pc EXCEPT ![c] = pc[c]]
      /\ UNCHANGED <<net, sent, world>> /\ replies' \subseteq replies
  BY DEF WalkAway, IInv, Shapes
<1> HIDE DEF j
<1>5. Fits(pc[c], j, runs[c], sent[c])
  BY <1>1, <1>2, <1>3 DEF Fits
<1>6. j.attempt >= job[c].attempt
  BY <1>2, <1>3 DEF JobRecord
<1>7. Simulated(j.cmd) /\ pc[c] = "next" => pc[c] \in {"idle", "next"}
  OBVIOUS
<1> QED  BY <1>1, <1>3, <1>4, <1>5, <1>6, <1>7, MoveOn

LEMMA BackoffStep ==
  ASSUME IInv, NEW c \in Caller, Backoff(c)
  PROVE  IInv'
<1>1. pc[c] = "sleeping" /\ pc' = [pc EXCEPT ![c] = "next"] /\ job' = [job EXCEPT ![c] = job[c]]
      /\ UNCHANGED <<net, sent, world>> /\ replies' \subseteq replies
  BY DEF Backoff, Goto
<1>2. Fits("sleeping", job[c], runs[c], sent[c])
  BY <1>1 DEF IInv, DispatchesInv
<1>3. /\ job[c] \in JobRecord /\ ~Simulated(job[c].cmd)
      /\ Fits("next", job[c], runs[c], sent[c])
  BY <1>2 DEF Fits
<1>4. job[c].attempt >= job[c].attempt
  BY <1>3 DEF JobRecord
<1> QED  BY <1>1, <1>3, <1>4, MoveOn DEF Stage

(* An attempt ends with an answer that is true of the command. *)
LEMMA ConcludeStep ==
  ASSUME IInv, NEW c \in Caller, NEW answer, pc[c] = "waiting",
         Honest(answer, job[c], runs[c]), Conclude(c, answer),
         UNCHANGED <<net, sent, world>>, replies' \subseteq replies
  PROVE  IInv'
<1> DEFINE j == job[c]
           status == IF j.aborted /\ answer.status # "SUCCEEDED" THEN "CANCELLED"
                     ELSE answer.status
           f == [j EXCEPT !.status = status, !.attempts = j.attempt]
<1>1. Fits("waiting", j, runs[c], sent[c]) /\ j \in JobRecord
  BY DEF IInv, DispatchesInv, Fits
<1>2. answer.status \in Status \ {"NONE"} /\ answer.retryable \in BOOLEAN
  BY DEF Honest, Answers
<1>3. status \in Status \ {"NONE"}
  BY <1>2 DEF Status
<1>4. /\ f \in JobRecord /\ f.cmd = j.cmd /\ f.attempt = j.attempt /\ f.status = status
      /\ f.attempts = j.attempt
  BY <1>1, <1>3 DEF JobRecord
<1>5. j.attempt >= j.attempt /\ f.attempt >= j.attempt
  BY <1>1, <1>4 DEF JobRecord
<1>6. CASE status \in {"SUCCEEDED", "CANCELLED"} \/ ~Retry(j, answer)
  <2>1. pc' = [pc EXCEPT ![c] = "answered"] /\ job' = [job EXCEPT ![c] = f]
    BY <1>6 DEF Conclude, Finish, Goto
  <2>2. /\ status = "SUCCEEDED" => runs[c] > 0
        /\ status \in {"REJECTED", "UNSUPPORTED"} => Futile(j.cmd)
        /\ Simulated(j.cmd) /\ runs[c] > 0 => status = "SUCCEEDED"
    BY DEF Honest
  <2> HIDE DEF f, status
  <2>3. Fits("answered", f, runs[c], sent[c])
    BY <1>1, <1>3, <1>4, <2>2, ConstantsFacts DEF Fits
  <2> QED  BY <1>4, <1>5, <2>1, <2>3, MoveOn DEF Stage
<1>7. CASE ~(status \in {"SUCCEEDED", "CANCELLED"} \/ ~Retry(j, answer))
  <2>1. pc' = [pc EXCEPT ![c] = "sleeping"] /\ job' = [job EXCEPT ![c] = j]
    BY <1>7 DEF Conclude, Goto
  <2>2. ~Simulated(j.cmd) /\ j.attempt < MaxAttempts
    BY <1>7 DEF Retry, Honest
  <2>3. Fits("sleeping", j, runs[c], sent[c])
    BY <1>1, <2>2 DEF Fits
  <2> QED  BY <1>1, <1>5, <2>1, <2>2, <2>3, MoveOn DEF Stage
<1> QED  BY <1>6, <1>7

(* The reply an attempt of a dispatch may get. *)
LEMMA RepliesAreHonest ==
  ASSUME IInv, NEW c \in Caller, pc[c] = "waiting"
  PROVE  /\ \A r \in replies : r.to = c => Honest(r.answer, job[c], runs[c])
         /\ job[c].cmd.capability \in Live =>
              /\ Honest(Answer("TIMEOUT", TRUE), job[c], runs[c])
              /\ \A retryable \in BOOLEAN : Honest(Answer("FAILED", retryable), job[c], runs[c])
<1>1. \A r \in replies : r.to = c => Honest(r.answer, job[c], runs[c])
  BY DEF IInv, RepliesInv
<1>2. ASSUME job[c].cmd.capability \in Live
      PROVE  /\ Honest(Answer("TIMEOUT", TRUE), job[c], runs[c])
             /\ \A retryable \in BOOLEAN : Honest(Answer("FAILED", retryable), job[c], runs[c])
  BY <1>2, AnswerTypes DEF Honest, Simulated, Answer
<1> QED  BY <1>1, <1>2

(* An answer wins, the timer does, or the signal closes the connection. *)
LEMMA OutcomeStep ==
  ASSUME IInv, NEW c \in Caller, ReceiveAnswer(c) \/ TimeOut(c) \/ Disconnect(c)
  PROVE  IInv'
<1>1. CASE ReceiveAnswer(c)
  <2>1. PICK r \in replies : /\ r.to = c /\ Waiting(c, r.n) /\ Conclude(c, r.answer)
                             /\ replies' = replies \ {r} /\ UNCHANGED <<net, sent, world>>
    BY <1>1 DEF ReceiveAnswer
  <2>2. pc[c] = "waiting" /\ replies' \subseteq replies
    BY <2>1 DEF Waiting
  <2> QED  BY <2>1, <2>2, RepliesAreHonest, ConcludeStep
<1>2. CASE TimeOut(c)
  <2>1. pc[c] = "waiting" /\ job[c].cmd.capability \in Live /\ Conclude(c, Answer("TIMEOUT", TRUE))
        /\ replies' \subseteq replies /\ UNCHANGED <<net, sent, world>>
    BY <1>2 DEF TimeOut
  <2> QED  BY <2>1, RepliesAreHonest, ConcludeStep
<1>3. CASE Disconnect(c)
  <2>1. pc[c] = "waiting" /\ job[c].cmd.capability \in Live /\ Conclude(c, Answer("FAILED", TRUE))
        /\ replies' \subseteq replies /\ UNCHANGED <<net, sent, world>>
    BY <1>3 DEF Disconnect
  <2> QED  BY <2>1, RepliesAreHonest, ConcludeStep
<1> QED  BY <1>1, <1>2, <1>3

(* What a command that is carried out leaves behind. *)
LEMMA CarriedOut ==
  ASSUME IInv, NEW c \in Caller, NEW cmd \in Commands, NEW answer, CarryOut(c, cmd, answer)
  PROVE  /\ runs' = [runs EXCEPT ![c] = IF answer.status = "SUCCEEDED" THEN @ + 1 ELSE @]
         /\ \A p \in DOMAIN files' : files'[p] \in Caller \cup {None}
<1>1. CASE answer.status = "SUCCEEDED"
  <2>1. runs' = [runs EXCEPT ![c] = @ + 1] /\ files' = Written(cmd, c, files)
    BY <1>1 DEF CarryOut
  <2>2. CASE cmd.action = "files.write"
    <3>1. files' = [p \in DOMAIN files \cup {cmd.arg} |-> IF p = cmd.arg THEN c ELSE files[p]]
      BY <2>1, <2>2 DEF Written
    <3> QED  BY <1>1, <2>1, <3>1 DEF IInv, Shapes
  <2>3. CASE cmd.action # "files.write"
    BY <1>1, <2>1, <2>3 DEF Written, IInv, Shapes
  <2> QED  BY <2>2, <2>3
<1>2. CASE answer.status # "SUCCEEDED"
  <2>1. runs' = runs /\ files' = files
    BY <1>2 DEF CarryOut, world
  <2> QED  BY <1>2, <2>1 DEF IInv, Shapes
<1> QED  BY <1>1, <1>2

(* The attempt that begins has a number of its own. *)
LEMMA NextAttempt ==
  ASSUME IInv, NEW c \in Caller, pc[c] = "next"
  PROVE  LET j == [job[c] EXCEPT !.attempt = @ + 1] IN
         /\ j \in JobRecord /\ j.attempt = job[c].attempt + 1 /\ j.attempt \in 1 .. MaxAttempts
         /\ j.cmd = job[c].cmd /\ j.status = job[c].status /\ j.attempts = job[c].attempts
         /\ j.cmd \in Commands /\ Admitted(j.cmd)
         /\ Fits("waiting", j, runs[c], sent[c] + 1)
<1> DEFINE j == [job[c] EXCEPT !.attempt = @ + 1]
<1>1. Fits("next", job[c], runs[c], sent[c]) /\ job[c] \in JobRecord
  BY DEF IInv, DispatchesInv, Fits
<1>2. job[c].attempt \in 0 .. MaxAttempts /\ job[c].attempt < MaxAttempts
  BY <1>1 DEF Fits
<1>3. job[c].attempt + 1 \in Int /\ job[c].attempt + 1 \in 1 .. MaxAttempts
  BY <1>2, ConstantsFacts
<1>4. /\ j \in JobRecord /\ j.attempt = job[c].attempt + 1 /\ j.cmd = job[c].cmd
      /\ j.status = job[c].status /\ j.attempts = job[c].attempts /\ j.cmd \in Commands
  BY <1>1, <1>3 DEF JobRecord
<1> HIDE DEF j
<1>5. j.attempts \in 0 .. j.attempt /\ sent[c] + 1 = j.attempt
  BY <1>1, <1>2, <1>4 DEF Fits
<1>6. Fits("waiting", j, runs[c], sent[c] + 1)
  BY <1>1, <1>3, <1>4, <1>5 DEF Fits
<1>7. Admitted(j.cmd)
  BY <1>1, <1>4 DEF Fits
<1> QED  BY <1>3, <1>4, <1>6, <1>7 DEF j

LEMMA BeginStep ==
  ASSUME IInv, NEW c \in Caller, BeginAttempt(c)
  PROVE  IInv'
<1> DEFINE j == [job[c] EXCEPT !.attempt = @ + 1]
           cmd == job[c].cmd
           simulated == SimulationHandles(cmd, files)
           request == [from |-> c, n |-> j.attempt, cmd |-> cmd]
           reply == [to |-> c, n |-> j.attempt, answer |-> simulated]
<1>1. pc[c] = "next" /\ Fits("next", job[c], runs[c], sent[c]) /\ job[c] \in JobRecord
  BY DEF BeginAttempt, IInv, DispatchesInv, Fits
<1>2. CASE GivenUp(job[c])
  <2> DEFINE f == [job[c] EXCEPT !.status = "CANCELLED", !.attempts = job[c].attempt]
  <2>1. pc' = [pc EXCEPT ![c] = "answered"] /\ job' = [job EXCEPT ![c] = f]
        /\ UNCHANGED <<net, sent, world>> /\ replies' \subseteq replies
    BY <1>2 DEF BeginAttempt, CancelUnsent, Finish, Goto
  <2>2. /\ f \in JobRecord /\ f.cmd = cmd /\ f.attempt = job[c].attempt /\ f.status = "CANCELLED"
        /\ f.attempts = job[c].attempt /\ f.attempt >= job[c].attempt
    BY <1>1, CancelledJob, Zenon
  <2> HIDE DEF f
  <2>3. Fits("answered", f, runs[c], sent[c])
    BY <1>1, <2>2, ConstantsFacts DEF Fits
  <2> QED  BY <2>1, <2>2, <2>3, MoveOn DEF Stage
<1>3. CASE ~GivenUp(job[c])
  <2>1. /\ pc' = [pc EXCEPT ![c] = "waiting"] /\ job' = [job EXCEPT ![c] = j]
        /\ sent' = [sent EXCEPT ![c] = @ + 1]
        /\ IF cmd.capability \in Live
           THEN net' = net \cup {request} /\ UNCHANGED <<replies, world>>
           ELSE /\ replies' = replies \cup {reply} /\ CarryOut(c, cmd, simulated)
                /\ UNCHANGED net
    BY <1>3 DEF BeginAttempt, Goto
  <2>2. /\ j \in JobRecord /\ j.attempt = job[c].attempt + 1 /\ j.attempt \in 1 .. MaxAttempts
        /\ j.cmd = cmd /\ j.status = job[c].status /\ cmd \in Commands /\ Admitted(cmd)
        /\ Fits("waiting", j, runs[c], sent[c] + 1)
    BY <1>1, NextAttempt, Zenon
  <2> HIDE DEF j
  <2>3. \A d \in Caller : /\ pc'[d] = (IF d = c THEN "waiting" ELSE pc[d])
                          /\ job'[d] = (IF d = c THEN j ELSE job[d])
                          /\ sent'[d] = (IF d = c THEN sent[c] + 1 ELSE sent[d])
    BY <2>1 DEF IInv, Shapes
  <2>4. IsFiniteSet(Pending(c)) /\ runs[c] + Cardinality(Pending(c)) <= job[c].attempt
        /\ Cardinality(Pending(c)) \in Nat /\ runs[c] \in Nat /\ job[c].attempt \in Int
    BY <1>1, FS_CardinalityType DEF IInv, BudgetInv, Shapes, JobRecord
  <2>5. CASE cmd.capability \in Live
    <3>1. net' = net \cup {request} /\ replies' = replies /\ runs' = runs /\ files' = files
      BY <2>1, <2>5 DEF world
    <3>2. request \in [from : Caller, n : 1 .. MaxAttempts, cmd : Commands]
      BY <2>2
    <3>3. Shapes'
      <4>1. pc' \in [Caller -> Stage] /\ job' \in [Caller -> JobRecord \cup {None}]
            /\ sent' \in [Caller -> Nat]
        BY <2>1, <2>2 DEF IInv, Shapes, Stage
      <4> QED  BY <3>1, <3>2, <4>1 DEF IInv, Shapes
    <3>4. DispatchesInv'
      BY <2>2, <2>3, <3>1 DEF IInv, DispatchesInv
    <3>5. RequestsInv'
      <4> SUFFICES ASSUME NEW m \in net'
                   PROVE  pc'[m.from] # "idle" /\ m.cmd = job'[m.from].cmd /\ ~Simulated(m.cmd)
        BY DEF RequestsInv
      <4>1. CASE m \in net
        BY <1>1, <2>2, <2>3, <4>1 DEF IInv, RequestsInv, Shapes
      <4>2. CASE m = request
        BY <2>2, <2>3, <2>5, <4>2 DEF Simulated
      <4> QED  BY <3>1, <4>1, <4>2
    <3>6. RepliesInv'
      BY <2>2, <2>3, <3>1, <1>1 DEF IInv, RepliesInv, Honest, Shapes
    <3>7. BudgetInv'
      <4>1. Pending(c)' = Pending(c) \cup {request}
        BY <3>1 DEF Pending
      <4>2. \A d \in Caller : d # c => Pending(d)' = Pending(d)
        BY <3>1 DEF Pending
      <4>3. IsFiniteSet(Pending(c)') /\ Cardinality(Pending(c)') <= Cardinality(Pending(c)) + 1
            /\ Cardinality(Pending(c)') \in Nat
        <5>1. IsFiniteSet(Pending(c) \cup {request})
              /\ Cardinality(Pending(c) \cup {request}) <= Cardinality(Pending(c)) + 1
          <6>1. Cardinality(Pending(c) \cup {request}) =
                  IF request \in Pending(c) THEN Cardinality(Pending(c))
                  ELSE Cardinality(Pending(c)) + 1
            BY <2>4, FS_AddElement
          <6>2. IsFiniteSet(Pending(c) \cup {request})
            BY <2>4, FS_AddElement
          <6> HIDE DEF request
          <6> QED  BY <2>4, <6>1, <6>2
        <5> QED  BY <4>1, <5>1, FS_CardinalityType
      <4>4. runs'[c] + Cardinality(Pending(c)') <= job'[c].attempt
        BY <2>2, <2>3, <2>4, <3>1, <4>3
      <4> QED  BY <2>3, <3>1, <4>2, <4>3, <4>4 DEF IInv, BudgetInv
    <3> QED  BY <3>3, <3>4, <3>5, <3>6, <3>7 DEF IInv
  <2>6. CASE cmd.capability \notin Live
    <3>1. replies' = replies \cup {reply} /\ net' = net /\ CarryOut(c, cmd, simulated)
      BY <2>1, <2>6
    <3>2. Simulated(cmd) /\ runs[c] = 0
      BY <1>1, <2>6 DEF Fits, Simulated
    <3>3. /\ simulated \in {Done, Refused, Unsupported}
          /\ simulated = Done => ~Futile(cmd)
          /\ simulated = Unsupported => Futile(cmd)
      BY <2>2, <3>2, SimulationAnswers
    <3> HIDE DEF simulated
    <3>4. runs' = [runs EXCEPT ![c] = IF simulated.status = "SUCCEEDED" THEN @ + 1 ELSE @]
          /\ \A p \in DOMAIN files' : files'[p] \in Caller \cup {None}
      BY <2>2, <3>1, CarriedOut
    <3>5. /\ runs'[c] \in Nat /\ \A d \in Caller : d # c => runs'[d] = runs[d]
          /\ runs'[c] = IF simulated.status = "SUCCEEDED" THEN 1 ELSE 0
      BY <2>4, <3>2, <3>4 DEF IInv, Shapes
    <3>6. /\ simulated.status = "SUCCEEDED" => ~Futile(cmd)
          /\ simulated.status \in {"REJECTED", "UNSUPPORTED"} => Futile(cmd)
          /\ ~simulated.retryable /\ simulated.status # "TIMEOUT"
      BY <3>3 DEF Done, Refused, Unsupported, Answer
    <3>7. simulated \in Answers
      BY <3>3, AnswerTypes
    <3>8. Fits("waiting", j, runs'[c], sent[c] + 1) /\ Honest(simulated, j, runs'[c])
      BY <2>2, <3>2, <3>5, <3>6, <3>7 DEF Fits, Honest
    <3>9. Shapes'
      <4>1. pc' \in [Caller -> Stage] /\ job' \in [Caller -> JobRecord \cup {None}]
            /\ sent' \in [Caller -> Nat] /\ runs' \in [Caller -> Nat]
        BY <2>1, <2>2, <3>4, <3>5 DEF IInv, Shapes, Stage
      <4>2. reply \in [to : Caller, n : 1 .. MaxAttempts, answer : Answers]
        BY <2>2, <3>7
      <4> QED  BY <3>1, <3>4, <4>1, <4>2 DEF IInv, Shapes
    <3>10. DispatchesInv'
      BY <2>3, <3>5, <3>8 DEF IInv, DispatchesInv
    <3>11. RequestsInv'
      BY <1>1, <2>2, <2>3, <3>1 DEF IInv, RequestsInv, Shapes
    <3>12. RepliesInv'
      <4> SUFFICES ASSUME NEW r \in replies'
                   PROVE  /\ pc'[r.to] # "idle" /\ Honest(r.answer, job'[r.to], runs'[r.to])
                          /\ Simulated(job'[r.to].cmd) => pc'[r.to] # "next"
        BY DEF RepliesInv
      <4>1. CASE r \in replies
        <5>1. r.to # c /\ r.to \in Caller
          BY <1>1, <3>2, <4>1 DEF IInv, RepliesInv, Shapes
        <5> QED  BY <2>3, <3>5, <4>1, <5>1 DEF IInv, RepliesInv
      <4>2. CASE r = reply
        BY <2>3, <3>8, <4>2
      <4> QED  BY <3>1, <4>1, <4>2
    <3>13. BudgetInv'
      <4>1. \A d \in Caller : Pending(d)' = Pending(d)
        BY <3>1 DEF Pending
      <4>2. runs'[c] + Cardinality(Pending(c)) <= job'[c].attempt
        BY <2>2, <2>3, <2>4, <3>2, <3>5
      <4> QED  BY <2>3, <2>4, <3>5, <4>1, <4>2 DEF IInv, BudgetInv
    <3> QED  BY <3>9, <3>10, <3>11, <3>12, <3>13 DEF IInv
  <2> QED  BY <2>5, <2>6
<1> QED  BY <1>2, <1>3

(* The runtime takes a request off the network and carries it out at most  *)
(* once.                                                                   *)
LEMMA ExecuteStep ==
  ASSUME IInv, NEW m \in net, Execute(m)
  PROVE  IInv'
<1> DEFINE answer == RuntimeExecutes(m.cmd, files)
           c == m.from
           reply == [to |-> c, n |-> m.n, answer |-> answer]
<1>1. /\ c \in Caller /\ m.n \in 1 .. MaxAttempts /\ m.cmd \in Commands
      /\ pc[c] # "idle" /\ m.cmd = job[c].cmd /\ ~Simulated(m.cmd)
  BY DEF IInv, Shapes, RequestsInv
<1>2. /\ answer \in Answers
      /\ answer.status = "SUCCEEDED" => ~Futile(m.cmd)
      /\ answer.status \in {"REJECTED", "UNSUPPORTED"} => Futile(m.cmd)
  BY <1>1, RuntimeAnswers, Zenon
<1>3. /\ net' = net \ {m} /\ CarryOut(c, m.cmd, answer)
      /\ replies' = IF Waiting(c, m.n) THEN replies \cup {reply} ELSE replies
      /\ pc' = pc /\ job' = job /\ sent' = sent
  BY DEF Execute
<1> HIDE DEF answer
<1>4. /\ runs' = [runs EXCEPT ![c] = IF answer.status = "SUCCEEDED" THEN @ + 1 ELSE @]
      /\ \A p \in DOMAIN files' : files'[p] \in Caller \cup {None}
  BY <1>1, <1>3, CarriedOut
<1>5. runs[c] \in Nat /\ Fits(pc[c], job[c], runs[c], sent[c])
  BY <1>1 DEF IInv, Shapes, DispatchesInv
<1>6. /\ runs'[c] = (IF answer.status = "SUCCEEDED" THEN runs[c] + 1 ELSE runs[c])
      /\ runs'[c] \in Nat /\ \A d \in Caller : d # c => runs'[d] = runs[d]
  BY <1>1, <1>4, <1>5 DEF IInv, Shapes
<1>7. Fits(pc[c], job[c], runs'[c], sent[c])
  BY <1>1, <1>2, <1>5, <1>6 DEF Fits
<1>8. Honest(answer, job[c], runs'[c])
  BY <1>1, <1>2, <1>5, <1>6 DEF Honest
<1>9. Shapes'
  <2>1. runs' \in [Caller -> Nat]
    BY <1>1, <1>4, <1>5, <1>6 DEF IInv, Shapes
  <2>2. reply \in [to : Caller, n : 1 .. MaxAttempts, answer : Answers]
    BY <1>1, <1>2
  <2> QED  BY <1>3, <1>4, <2>1, <2>2 DEF IInv, Shapes
<1>10. DispatchesInv'
  BY <1>3, <1>6, <1>7 DEF IInv, DispatchesInv
<1>11. RequestsInv'
  BY <1>3 DEF IInv, RequestsInv
<1>12. RepliesInv'
  <2> SUFFICES ASSUME NEW r \in replies'
               PROVE  /\ pc'[r.to] # "idle" /\ Honest(r.answer, job'[r.to], runs'[r.to])
                      /\ Simulated(job'[r.to].cmd) => pc'[r.to] # "next"
    BY DEF RepliesInv
  <2>1. CASE r \in replies
    <3>1. /\ r.to \in Caller /\ pc[r.to] # "idle" /\ Honest(r.answer, job[r.to], runs[r.to])
          /\ Simulated(job[r.to].cmd) => pc[r.to] # "next"
      BY <2>1 DEF IInv, Shapes, RepliesInv
    <3>2. CASE r.to # c
      BY <1>3, <1>6, <3>1, <3>2
    <3>3. CASE r.to = c
      BY <1>1, <1>3, <1>5, <1>6, <3>1, <3>3 DEF Honest
    <3> QED  BY <3>2, <3>3
  <2>2. CASE r = reply
    BY <1>1, <1>3, <1>8, <2>2
  <2> QED  BY <1>3, <2>1, <2>2
<1>13. BudgetInv'
  <2>1. Pending(c)' = Pending(c) \ {m} /\ m \in Pending(c)
    BY <1>3 DEF Pending
  <2>2. \A d \in Caller : d # c => Pending(d)' = Pending(d)
    BY <1>3 DEF Pending
  <2>3. IsFiniteSet(Pending(c)) /\ runs[c] + Cardinality(Pending(c)) <= job[c].attempt
    BY <1>1 DEF IInv, BudgetInv
  <2>4. IsFiniteSet(Pending(c)') /\ Cardinality(Pending(c)') = Cardinality(Pending(c)) - 1
    BY <2>1, <2>3, FS_RemoveElement
  <2>5. Cardinality(Pending(c)) \in Nat /\ job[c].attempt \in Int
    BY <1>1, <1>5, <2>3, FS_CardinalityType DEF Fits, JobRecord
  <2>6. runs'[c] + Cardinality(Pending(c)') <= job[c].attempt
    BY <1>5, <1>6, <2>3, <2>4, <2>5
  <2> QED  BY <1>1, <1>3, <1>6, <2>2, <2>4, <2>6 DEF IInv, BudgetInv
<1> QED  BY <1>9, <1>10, <1>11, <1>12, <1>13 DEF IInv

(* A fault takes a request or an answer away, or answers FAILED for a live *)
(* capability.                                                             *)
LEMMA FaultStep ==
  ASSUME IInv, Fault
  PROVE  IInv'
<1>1. pc' = pc /\ job' = job /\ sent' = sent /\ runs' = runs /\ files' = files
  BY DEF Fault, world
<1>2. /\ net' \subseteq net
      /\ \A r \in replies' \ replies :
           /\ r \in [to : Caller, n : 1 .. MaxAttempts, answer : Answers]
           /\ pc[r.to] # "idle" /\ ~Simulated(job[r.to].cmd) /\ r.answer.status = "FAILED"
  <2>1. CASE \E m \in net :
          /\ net' = net \ {m}
          /\ replies' \in {replies, replies \cup
               {[to |-> m.from, n |-> m.n, answer |-> Answer("FAILED", TRUE)]}}
    <3>1. PICK m \in net :
            /\ net' = net \ {m}
            /\ replies' \in {replies, replies \cup
                 {[to |-> m.from, n |-> m.n, answer |-> Answer("FAILED", TRUE)]}}
      BY <2>1
    <3>2. /\ m.from \in Caller /\ m.n \in 1 .. MaxAttempts /\ pc[m.from] # "idle"
          /\ ~Simulated(job[m.from].cmd)
      BY DEF IInv, Shapes, RequestsInv
    <3>3. Answer("FAILED", TRUE) \in Answers /\ Answer("FAILED", TRUE).status = "FAILED"
      BY AnswerTypes DEF Answer
    <3> DEFINE q == [to |-> m.from, n |-> m.n, answer |-> Answer("FAILED", TRUE)]
    <3>4. /\ q \in [to : Caller, n : 1 .. MaxAttempts, answer : Answers]
          /\ q.to = m.from /\ q.answer.status = "FAILED"
      BY <3>2, <3>3
    <3>5. net' \subseteq net /\ \A r \in replies' \ replies : r = q
      BY <3>1
    <3> HIDE DEF q
    <3> QED  BY <3>2, <3>4, <3>5
  <2>2. CASE \E r \in replies :
          /\ job[r.to].cmd.capability \in Live
          /\ \E retryable \in BOOLEAN :
               replies' \in {replies \ {r}, (replies \ {r}) \cup
                 {[r EXCEPT !.answer = Answer("FAILED", retryable)]}}
          /\ UNCHANGED net
    <3>1. PICK r \in replies, retryable \in BOOLEAN :
            /\ job[r.to].cmd.capability \in Live /\ net' = net
            /\ replies' \in {replies \ {r}, (replies \ {r}) \cup
                 {[r EXCEPT !.answer = Answer("FAILED", retryable)]}}
      BY <2>2
    <3> DEFINE q == [r EXCEPT !.answer = Answer("FAILED", retryable)]
    <3>2. Answer("FAILED", retryable) \in Answers /\ Answer("FAILED", retryable).status = "FAILED"
      BY AnswerTypes DEF Answer
    <3>3. r \in [to : Caller, n : 1 .. MaxAttempts, answer : Answers] /\ pc[r.to] # "idle"
      BY DEF IInv, Shapes, RepliesInv
    <3>4. /\ q \in [to : Caller, n : 1 .. MaxAttempts, answer : Answers]
          /\ q.to = r.to /\ q.answer.status = "FAILED"
      BY <3>2, <3>3
    <3> HIDE DEF q
    <3> QED  BY <3>1, <3>3, <3>4 DEF Simulated, q
  <2> QED  BY <2>1, <2>2 DEF Fault
<1>3. Shapes'
  BY <1>1, <1>2 DEF IInv, Shapes
<1>4. DispatchesInv'
  BY <1>1 DEF IInv, DispatchesInv
<1>5. RequestsInv'
  BY <1>1, <1>2 DEF IInv, RequestsInv
<1>6. RepliesInv'
  <2>1. \A r \in replies' \ replies : Honest(r.answer, job[r.to], runs[r.to])
    BY <1>2 DEF Honest
  <2> QED  BY <1>1, <1>2, <2>1 DEF IInv, RepliesInv
<1>7. BudgetInv'
  <2> SUFFICES ASSUME NEW c \in Caller
               PROVE  /\ IsFiniteSet(Pending(c)')
                      /\ pc[c] = "idle" => Pending(c)' = {}
                      /\ pc[c] # "idle" => runs[c] + Cardinality(Pending(c)') <= job[c].attempt
    BY <1>1 DEF BudgetInv
  <2>1. Pending(c)' \subseteq Pending(c)
    BY <1>2 DEF Pending
  <2>2. IsFiniteSet(Pending(c)) /\ (pc[c] = "idle" => Pending(c) = {})
        /\ (pc[c] # "idle" => runs[c] + Cardinality(Pending(c)) <= job[c].attempt)
    BY DEF IInv, BudgetInv
  <2>3. IsFiniteSet(Pending(c)') /\ Cardinality(Pending(c)') <= Cardinality(Pending(c))
    BY <2>1, <2>2, FS_Subset
  <2>4. Cardinality(Pending(c)') \in Nat /\ Cardinality(Pending(c)) \in Nat /\ runs[c] \in Nat
    BY <2>2, <2>3, FS_CardinalityType DEF IInv, Shapes
  <2>5. pc[c] # "idle" => job[c].attempt \in Int
    BY DEF IInv, DispatchesInv, Fits, JobRecord
  <2> QED  BY <2>1, <2>2, <2>3, <2>4, <2>5
<1> QED  BY <1>3, <1>4, <1>5, <1>6, <1>7 DEF IInv

LEMMA DirectStep ==
  ASSUME IInv, NEW c \in Caller, NEW cmd \in Commands, CallDirectly(c, cmd)
  PROVE  IInv'
<1> DEFINE j == [cmd |-> cmd, attempt |-> 1, aborted |-> TRUE, status |-> "NONE", attempts |-> 0]
           request == [from |-> c, n |-> 1, cmd |-> cmd]
<1>1. /\ pc[c] = "idle" /\ ~Simulated(cmd) /\ net' = net \cup {request}
      /\ pc' = [pc EXCEPT ![c] = "direct"] /\ job' = [job EXCEPT ![c] = j]
      /\ replies' = replies /\ sent' = sent /\ runs' = runs /\ files' = files
  BY DEF CallDirectly, Goto, world, Simulated
<1>2. j \in JobRecord
  BY DEF JobRecord, Status
<1>3. \A d \in Caller : pc'[d] = (IF d = c THEN "direct" ELSE pc[d])
                       /\ job'[d] = (IF d = c THEN j ELSE job[d])
  BY <1>1 DEF IInv, Shapes
<1>4. runs[c] = 0 /\ sent[c] = 0 /\ Pending(c) = {}
  BY <1>1 DEF IInv, DispatchesInv, Fits, BudgetInv
<1>5. Shapes'
  BY <1>1, <1>2, ConstantsFacts DEF IInv, Shapes, Stage
<1>6. DispatchesInv'
  <2>1. Fits("direct", j, 0, 0)
    BY <1>1, <1>2, ConstantsFacts DEF Fits
  <2> QED  BY <1>1, <1>3, <1>4, <2>1 DEF IInv, DispatchesInv
<1>7. RequestsInv'
  <2>1. \A m \in net : m.from # c
    BY <1>4 DEF Pending
  <2> QED  BY <1>1, <1>3, <2>1 DEF IInv, RequestsInv, Shapes
<1>8. RepliesInv'
  BY <1>1, <1>3 DEF IInv, RepliesInv, Shapes
<1>9. BudgetInv'
  <2>1. Pending(c)' = {request} /\ \A d \in Caller : d # c => Pending(d)' = Pending(d)
    BY <1>1, <1>4 DEF Pending
  <2>2. IsFiniteSet({request}) /\ Cardinality({request}) = 1
    BY FS_Singleton
  <2>3. runs'[c] = 0 /\ Cardinality(Pending(c)') = 1 /\ job'[c].attempt = 1
    BY <1>1, <1>3, <1>4, <2>1, <2>2
  <2>4. pc'[c] # "idle" /\ runs'[c] + Cardinality(Pending(c)') <= job'[c].attempt
    BY <1>3, <2>3
  <2> QED  BY <1>1, <1>3, <2>1, <2>2, <2>4 DEF IInv, BudgetInv
<1> QED  BY <1>5, <1>6, <1>7, <1>8, <1>9 DEF IInv

LEMMA NextIInv == ASSUME IInv, [Next]_vars PROVE IInv'
<1>1. CASE \E c \in Caller : \/ Work(c) \/ WalkAway(c)
                              \/ \E cmd \in Commands : Dispatch(c, cmd) \/ CallDirectly(c, cmd)
  <2>1. PICK c \in Caller : \/ Work(c) \/ WalkAway(c)
                            \/ \E cmd \in Commands : Dispatch(c, cmd) \/ CallDirectly(c, cmd)
    BY <1>1
  <2>2. CASE Work(c)
    BY <2>2, BeginStep, OutcomeStep, BackoffStep DEF Work
  <2>3. CASE WalkAway(c)
    BY <2>3, WalkAwayStep
  <2>4. CASE \E cmd \in Commands : Dispatch(c, cmd) \/ CallDirectly(c, cmd)
    BY <2>4, DispatchStep, DirectStep
  <2> QED  BY <2>1, <2>2, <2>3, <2>4
<1>2. CASE \E m \in net : Execute(m)
  BY <1>2, ExecuteStep
<1>3. CASE Fault
  BY <1>3, FaultStep
<1>4. CASE UNCHANGED vars
  BY <1>4 DEF vars, IInv, Shapes, DispatchesInv, RequestsInv, RepliesInv, BudgetInv, Pending
<1> QED  BY <1>1, <1>2, <1>3, <1>4 DEF Next

(* Messages carry the command they were sent for, answers are true of it,  *)
(* and a request that was carried out is gone.                             *)
THEOREM Invariance == Spec => []IInv
<1> QED  BY InitIInv, NextIInv, PTL DEF Spec

(* What a dispatch holds is of its type; in particular the runtime carries *)
(* a command out at most as often as it may be attempted, whatever the     *)
(* network does (CapabilityRoutingAdapter.dispatch, maxAttempts).          *)
THEOREM TypeCorrect == Spec => []TypeOK
<1>1. IInv => TypeOK
  <2> SUFFICES ASSUME IInv PROVE TypeOK
    OBVIOUS
  <2>1. \A c \in Caller : IF pc[c] = "idle" THEN job[c] = None ELSE
          /\ job[c].cmd \in Commands /\ job[c].attempt \in 0 .. MaxAttempts
          /\ job[c].status \in Status /\ job[c].status # "NONE" <=> pc[c] = "answered"
          /\ job[c].attempts \in 0 .. job[c].attempt
    BY DEF IInv, DispatchesInv, Fits, JobRecord
  <2>2. \A c \in Caller : sent[c] \in 0 .. MaxAttempts
    BY ConstantsFacts DEF IInv, DispatchesInv, Fits
  <2>3. ASSUME NEW c \in Caller PROVE runs[c] \in 0 .. MaxAttempts
    <3>1. CASE pc[c] = "idle"
      BY <3>1, ConstantsFacts DEF IInv, DispatchesInv, Fits
    <3>2. CASE pc[c] # "idle"
      <4>1. IsFiniteSet(Pending(c)) /\ runs[c] + Cardinality(Pending(c)) <= job[c].attempt
            /\ runs[c] \in Nat
        BY <3>2 DEF IInv, BudgetInv, Shapes
      <4>2. Cardinality(Pending(c)) \in Nat
        BY <4>1, FS_CardinalityType
      <4> QED  BY <2>1, <3>2, <4>1, <4>2, ConstantsFacts
    <3> QED  BY <3>1, <3>2
  <2>4. sent \in [Caller -> 0 .. MaxAttempts] /\ runs \in [Caller -> 0 .. MaxAttempts]
    BY <2>2, <2>3 DEF IInv, Shapes
  <2> QED  BY <2>1, <2>4 DEF TypeOK, IInv, Shapes, Stage
<1> QED  BY <1>1, Invariance, PTL

(* Without the approval it needs a command is never carried out, by either *)
(* end and through either door (dispatch, CommandsService.execute).        *)
THEOREM NeverWithoutApproval == Spec => []UnapprovedNeverRuns
<1>1. IInv => UnapprovedNeverRuns
  BY DEF IInv, DispatchesInv, Fits, Futile, UnapprovedNeverRuns
<1> QED  BY <1>1, Invariance, PTL

(* A caller's report is true of what the runtime did, however answers,     *)
(* timers, faults and its own cancellation interleave (finish).            *)
THEOREM CallersAreToldTheTruth == Spec => []ReportsAreTrue
<1>1. IInv => ReportsAreTrue
  BY DEF IInv, DispatchesInv, Fits, Simulated, ReportsAreTrue, Answered
<1> QED  BY <1>1, Invariance, PTL
=============================================================================
