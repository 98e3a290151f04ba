---------------------------- MODULE GovernedTask ----------------------------
(***************************************************************************)
(* What a governed task promises the enterprise, with no handlers, stores  *)
(* or gates in sight: a guarded step happens only after a human consented  *)
(* to it and at most once, work is done and undone only while the task is  *)
(* open, and ending a task fixes, for good, an account of its work that is *)
(* true.                                                                   *)
(***************************************************************************)
EXTENDS Naturals

CONSTANTS Task, Step, GuardedStep

VARIABLES
  phase,    \* "new", "open" or "ended"
  consent,  \* steps a human consented to
  ran,      \* how often each step was carried out
  undone,   \* how often it was undone
  account   \* the steps reported to stand, once the task has ended

vars == <<phase, consent, ran, undone, account>>

Init ==
  /\ phase = [t \in Task |-> "new"]
  /\ consent = [t \in Task |-> {}]
  /\ ran = [t \in Task |-> [i \in Step |-> 0]]
  /\ undone = [t \in Task |-> [i \in Step |-> 0]]
  /\ account = [t \in Task |-> {}]

Open(t) ==
  /\ phase[t] = "new"
  /\ phase' = [phase EXCEPT ![t] = "open"]
  /\ UNCHANGED <<consent, ran, undone, account>>

Consent(t, i) ==
  /\ phase[t] # "new" /\ i \in GuardedStep
  /\ consent' = [consent EXCEPT ![t] = @ \cup {i}]
  /\ UNCHANGED <<phase, ran, undone, account>>

Run(t, i) ==
  /\ phase[t] = "open"
  /\ i \in GuardedStep => i \in consent[t] /\ ran[t][i] = 0
  /\ ran' = [ran EXCEPT ![t][i] = @ + 1]
  /\ UNCHANGED <<phase, consent, undone, account>>

Undo(t, i) ==
  /\ phase[t] = "open" /\ ran[t][i] > undone[t][i]
  /\ undone' = [undone EXCEPT ![t][i] = @ + 1]
  /\ UNCHANGED <<phase, consent, ran, account>>

End(t) ==
  /\ phase[t] = "open"
  /\ phase' = [phase EXCEPT ![t] = "ended"]
  /\ account' = [account EXCEPT ![t] = {i \in Step : ran[t][i] > undone[t][i]}]
  /\ UNCHANGED <<consent, ran, undone>>

Next ==
  \E t \in Task :
    \/ Open(t) \/ End(t)
    \/ \E i \in Step : Consent(t, i) \/ Run(t, i) \/ Undo(t, i)

Spec == Init /\ [][Next]_vars
=============================================================================
