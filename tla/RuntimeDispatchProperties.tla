---------------------- MODULE RuntimeDispatchProperties ----------------------
(* What callers of the runtime, and the people who approve, may rely on. *)
EXTENDS RuntimeDispatch

Status == {"NONE", "SUCCEEDED", "FAILED", "TIMEOUT", "CANCELLED", "UNSUPPORTED", "REJECTED"}
Answered(c, statuses) == pc[c] = "answered" /\ job[c].status \in statuses

(* Where each dispatch is, and everything it holds, has its type. *)
TypeOK ==
  /\ pc \in [Caller -> {"idle", "next", "waiting", "sleeping", "answered", "direct"}]
  /\ \A c \in Caller : IF pc[c] = "idle" THEN job[c] = None ELSE
       /\ job[c].cmd \in Commands /\ job[c].attempt \in 0 .. MaxAttempts
       /\ job[c].status \in Status /\ job[c].status # "NONE" <=> pc[c] = "answered"
       /\ job[c].attempts \in 0 .. job[c].attempt
  /\ \A m \in net : m.from \in Caller /\ m.n \in 1 .. MaxAttempts
  /\ \A r \in replies : r.to \in Caller /\ r.n \in 1 .. MaxAttempts
  /\ sent \in [Caller -> 0 .. MaxAttempts] /\ runs \in [Caller -> 0 .. MaxAttempts]
  /\ \A p \in DOMAIN files : files[p] \in Caller \cup {None}

(* A command that needs a decision and carries none is never carried out, *)
(* by a simulation or by the runtime, whichever door it came through.     *)
UnapprovedNeverRuns ==
  \A c \in Caller : pc[c] # "idle" /\ ~Admitted(job[c].cmd) => runs[c] = 0

(* What a caller is told of its command is true. SUCCEEDED is reported     *)
(* only for work that was done, REJECTED and UNSUPPORTED only for work of  *)
(* which no attempt was done; the attempts it is told of are the requests  *)
(* that were sent; and work a simulation finished is reported as such even *)
(* if the caller walked away before the answer was looked at.              *)
ReportsAreTrue ==
  \A c \in Caller :
    /\ Answered(c, {"SUCCEEDED"}) => runs[c] > 0
    /\ Answered(c, {"REJECTED", "UNSUPPORTED"}) => runs[c] = 0
    /\ pc[c] = "answered" =>
         /\ job[c].attempts = sent[c]
         /\ job[c].cmd.capability \notin Live /\ runs[c] > 0 => job[c].status = "SUCCEEDED"

(* Whoever dispatches a command is answered, whatever the network does. *)
EveryDispatchIsAnswered ==
  \A c \in Caller : pc[c] \in {"next", "waiting", "sleeping"} ~> pc[c] = "answered"

(* "requestId: idempotency key; a retry reuses it": a command runs once. *)
RunsAtMostOnce == \A c \in Caller : runs[c] <= 1
=============================================================================
