------------------------------- MODULE Insights ------------------------------
(***************************************************************************)
(* What TANIA notices unasked: a scan asks five sources at once, keeps what*)
(* their detectors find and its reader does not know yet, and lists it; a  *)
(* reader may dismiss. The list lives in the process. And the quality      *)
(* numbers that are worked out from the same task history.                 *)
(***************************************************************************)
EXTENDS Permissions, Integers, Sequences, FiniteSetsExt

CONSTANTS
  None,
  Reader,                                \* actors, with what permission rules ask of them
  Scanner,                               \* requests that scan
  Kpis, Initiatives, Risks,              \* what the sources hold, as sequences
  EnterpriseDocuments,
  Days,                                  \* the days the model looks at, from 0
  TaskKind, MaxTasks,                    \* ways a task goes; bound: tasks of the history
  TaskWindow,                            \* tasks the detector is given, 20
  ListLimit,                             \* insights shown, 20
  MaxDismissals                          \* bound

ASSUME InsightsAssumption ==
  /\ Days \subseteq Nat /\ 0 \in Days
  /\ {MaxTasks, MaxDismissals} \subseteq Nat /\ {TaskWindow, ListLimit} \subseteq Nat \ {0}
  /\ \A source \in {Kpis, Initiatives, Risks, EnterpriseDocuments} :
       Len(source) \in Nat /\ DOMAIN source = 1..Len(source)

VARIABLES
  day,
  history,   \* reader -> tasks, newest first
  known,     \* the insights kept, each at its place: the order they came in
  scan       \* scanner -> its request

insightVars == <<day, history, known, scan>>

InsightKind == {"KPI_ANOMALY", "OVERDUE_TASK", "PROJECT_RISK", "NEW_DOCUMENT", "PERFORMANCE_CHANGE"}

-----------------------------------------------------------------------------
(* The detectors. Each looks at every entry of its source, and finds       *)
(* something there or None.                                                *)

Noticed(kind, id, severity) == [kind |-> kind, subject |-> id, severity |-> severity]

Urgency(urgent) == IF urgent THEN "URGENT" ELSE "ATTENTION"

(* Movements for the worse, in percent; a text without a number is no       *)
(* movement.                                                                *)
KpiAnomalies ==
  LET Magnitude(k) == IF k.change < 0 THEN -k.change ELSE k.change
  IN  [i \in DOMAIN Kpis |->
         IF Magnitude(Kpis[i]) >= 10 /\ ~Kpis[i].deltaIsGood
         THEN Noticed("KPI_ANOMALY", Kpis[i].id, Urgency(Magnitude(Kpis[i]) >= 20)) ELSE None]

(* A date is text; one with an Indonesian month JavaScript may not read is   *)
(* no date, and never before any.                                            *)
Before(date, now) == date.read /\ date.day < now

Overdue(now) ==
  [i \in DOMAIN Initiatives |->
     IF Before(Initiatives[i].due, now) /\ Initiatives[i].progress < 100
     THEN Noticed("OVERDUE_TASK", Initiatives[i].id, Urgency(now - Initiatives[i].due.day >= 14))
     ELSE None]

ProjectRisks(now) ==
  LET Likely(r) == r.likelihood = "HIGH"
      Pressing(r) == /\ r.status # "CLOSED" /\ r.impact \in {"HIGH", "CRITICAL"}
                     /\ Likely(r) \/ Before(r.reviewBy, now)
  IN  [i \in DOMAIN Risks |->
         IF Pressing(Risks[i])
         THEN Noticed("PROJECT_RISK", Risks[i].id, Urgency(Likely(Risks[i]))) ELSE None]

(* Of the documents the reader may read, those updated within a week.       *)
NewDocuments(reader, now) ==
  [i \in DOMAIN EnterpriseDocuments |->
     LET d == EnterpriseDocuments[i] IN
     IF CanRead(reader, d.acl) /\ d.updated >= now - 7
     THEN Noticed("NEW_DOCUMENT", d.id, "INFO") ELSE None]

Count(tasks, Test(_)) == Cardinality({i \in DOMAIN tasks : Test(tasks[i])})

PerformanceChanges(tasks) ==
  LET settled == Count(tasks, LAMBDA t : t.status \in {"COMPLETED", "FAILED", "BLOCKED"})
      failed == Count(tasks, LAMBDA t : t.status \in {"FAILED", "BLOCKED"})
  IN  IF settled < 4 \/ 10 * failed < 3 * settled THEN <<>>
      ELSE <<Noticed("PERFORMANCE_CHANGE", "tania.throughput", Urgency(2 * failed >= settled))>>

-----------------------------------------------------------------------------
(* The quality numbers, each a part of a number of observations.           *)

Settled(t) == t.status \in {"COMPLETED", "FAILED", "BLOCKED", "CANCELLED"}
Searched(t) == t.search \in {"found", "nothing", "broken"}

Metric == {"taskCompletion", "groundedness", "retrievalQuality", "toolSelection",
           "hallucinationRate", "failureRate"}

Threshold == [m \in Metric |->
  CASE m = "taskCompletion" -> 80 [] m = "groundedness" -> 90 [] m = "retrievalQuality" -> 70
    [] m = "toolSelection" -> 98 [] m = "hallucinationRate" -> 2 [] m = "failureRate" -> 15]

LowerIsBetter == {"hallucinationRate", "failureRate"}

Ratio(tasks, Num(_), Den(_)) ==
  [part |-> Count(tasks, LAMBDA t : Den(t) /\ Num(t)), sample |-> Count(tasks, Den)]

(* A task calls several tools, of which some are refused.                  *)
SoundCalls(tasks) ==
  LET Total(Of(_)) == MapThenSumSet(LAMBDA i : Of(tasks[i]), DOMAIN tasks)
  IN  [part |-> Total(LAMBDA t : t.calls - t.refused), sample |-> Total(LAMBDA t : t.calls)]

(* What a task says of its search is in its answer.                        *)
Measured(tasks) ==
  [taskCompletion    |-> Ratio(tasks, LAMBDA t : t.status = "COMPLETED", Settled),
   groundedness      |-> Ratio(tasks, LAMBDA t : t.search = "found" \/ t.admits,
                               LAMBDA t : t.search \in {"found", "nothing"}),
   retrievalQuality  |-> Ratio(tasks, LAMBDA t : t.search = "found", Searched),
   toolSelection     |-> SoundCalls(tasks),
   hallucinationRate |-> Ratio(tasks, LAMBDA t : t.search # "found" /\ ~t.admits,
                               LAMBDA t : Searched(t) /\ t.status = "COMPLETED"),
   failureRate       |-> Ratio(tasks, LAMBDA t : t.status # "COMPLETED", Settled)]

MinSample == 5

(* Nothing fails on fewer observations than that.                          *)
Healthy(m, value) ==
  \/ value.sample < MinSample
  \/ IF m \in LowerIsBetter THEN 100 * value.part <= Threshold[m] * value.sample
                            ELSE 100 * value.part >= Threshold[m] * value.sample

Evaluate(tasks) ==
  [failing |-> {m \in Metric : ~Healthy(m, Measured(tasks)[m])},
   insufficientData |-> Count(tasks, Settled) < MinSample]

-----------------------------------------------------------------------------
(* The service. *)

NoScan == [stage |-> "idle", by |-> None, at |-> 0, found |-> <<>>, tasks |-> <<>>,
           failed |-> FALSE, shown |-> {}]

InsightsInit ==
  /\ day = 0
  /\ history = [r \in Reader |-> <<>>]
  /\ known = [i \in {} |-> 0]
  /\ scan = [s \in Scanner |-> NoScan]

Mine(reader, list) == {i \in DOMAIN list : list[i].by = reader}
Current(reader, list) == {i \in Mine(reader, list) : ~list[i].dismissed}

Alike(n, m) == n.kind = m.kind /\ n.subject = m.subject

(* Mutant of AlreadyKnown: whoever it was noticed for. *)
KnownToAnyone(n, reader, list) == \E i \in DOMAIN list : ~list[i].dismissed /\ Alike(list[i], n)

(* Somebody who has it on the list is not told again. *)
AlreadyKnown(n, reader, list) == \E i \in Current(reader, list) : Alike(list[i], n)

(* Of what was found, that which is not known and was not found before it. *)
News(s, list, found) ==
  {k \in DOMAIN found :
     /\ found[k] # None /\ ~AlreadyKnown(found[k], s.by, list)
     /\ \A j \in DOMAIN found : j < k /\ found[j] # None => ~Alike(found[j], found[k])}

(* It is kept behind all there is, one finding after the other.            *)
Kept(s, list, found) ==
  LET last == Max({0} \cup DOMAIN list)
  IN  [i \in DOMAIN list \cup {last + k : k \in News(s, list, found)} |->
         IF i \in DOMAIN list THEN list[i]
         ELSE LET n == found[i - last]
              IN  [by |-> s.by, kind |-> n.kind, subject |-> n.subject,
                   severity |-> n.severity, at |-> s.at, dismissed |-> FALSE]]

Order == [URGENT |-> 0, ATTENTION |-> 1, INFO |-> 2]

(* byUrgency: the more severe first, of those the later, else in order.     *)
Precedes(list, i, j) ==
  \/ Order[list[i].severity] < Order[list[j].severity]
  \/ /\ list[i].severity = list[j].severity
     /\ list[i].at > list[j].at \/ (list[i].at = list[j].at /\ i < j)

(* Mutant of Shown: the limit is forgotten. *)
ShownWhole(reader, list) == Current(reader, list)

Shown(reader, list) ==
  {i \in Current(reader, list) :
     Cardinality({j \in Current(reader, list) : Precedes(list, j, i)}) < ListLimit}

Latest(tasks) == SubSeq(tasks, 1, IF Len(tasks) <= TaskWindow THEN Len(tasks) ELSE TaskWindow)

(* Four sources are at hand and answer at once.                            *)
StartScan(s, r) ==
  /\ scan[s].stage = "idle"
  /\ scan' = [scan EXCEPT ![s] = [NoScan EXCEPT !.stage = "asking", !.by = r, !.at = day,
                !.found = KpiAnomalies \o Overdue(day) \o ProjectRisks(day) \o NewDocuments(r, day)]]
  /\ UNCHANGED <<day, history, known>>

(* The task store reads the history, or fails, which costs only this       *)
(* detector's insight.                                                     *)
ReadTasks(s) ==
  /\ scan[s].stage = "asking"
  /\ \/ scan' = [scan EXCEPT ![s].stage = "read",
                   ![s].tasks = Latest(history[scan[s].by])]
     \/ scan' = [scan EXCEPT ![s].stage = "read", ![s].failed = TRUE]
  /\ UNCHANGED <<day, history, known>>

(* The answers are in: what is new is kept, and the list answered.         *)
Finish(s) ==
  /\ scan[s].stage = "read"
  /\ known' = Kept(scan[s], known, scan[s].found \o PerformanceChanges(scan[s].tasks))
  /\ scan' = [scan EXCEPT ![s] = [NoScan EXCEPT !.stage = "done", !.shown = Shown(scan[s].by, known')]]
  /\ UNCHANGED <<day, history>>

(* Somebody dismisses one of their own; another's is not found.            *)
Dismiss(r, i) ==
  /\ i \in Mine(r, known)
  /\ Cardinality({j \in DOMAIN known : known[j].dismissed}) < MaxDismissals
  /\ known' = [known EXCEPT ![i].dismissed = TRUE]
  /\ UNCHANGED <<day, history, scan>>

(* A task of the reader's comes to an end.                                 *)
TaskEnds(r, t) ==
  /\ Len(history[r]) < MaxTasks
  /\ history' = [history EXCEPT ![r] = <<t>> \o @]
  /\ UNCHANGED <<day, known, scan>>

Tomorrow ==
  /\ \E d \in Days : d > day /\ day' = d /\ \A e \in Days : e > day => e >= d
  /\ UNCHANGED <<history, known, scan>>

InsightsNext ==
  \/ \E s \in Scanner : (\E r \in Reader : StartScan(s, r)) \/ ReadTasks(s) \/ Finish(s)
  \/ \E r \in Reader : (\E i \in DOMAIN known : Dismiss(r, i)) \/ (\E t \in TaskKind : TaskEnds(r, t))
  \/ Tomorrow

InsightsSpec == InsightsInit /\ [][InsightsNext]_insightVars
=============================================================================
