------------------------- MODULE InsightsProperties --------------------------
(* What a reader may take from the list and from the quality numbers. *)
EXTENDS Insights

Seen(i) == [kind |-> known'[i].kind, subject |-> known'[i].subject]

(* The list and the requests keep their shape.                             *)
InsightsTypeOK ==
  /\ day \in Days
  /\ \A r \in Reader : \A i \in DOMAIN history[r] : history[r][i] \in TaskKind
  /\ \A i \in DOMAIN known :
       /\ known[i].by \in Reader /\ known[i].kind \in InsightKind
       /\ known[i].severity \in DOMAIN Order
       /\ known[i].at \in Days /\ known[i].at <= day /\ known[i].dismissed \in BOOLEAN
  /\ \A s \in Scanner :
       /\ scan[s].stage \in {"idle", "asking", "read", "done"}
       /\ Cardinality(scan[s].shown) <= ListLimit /\ Len(scan[s].tasks) <= TaskWindow

(* index.ts:75: a scan answers with its reader's own insights, each subject *)
(* once however many scans found it, what it found itself among those kept *)
(* though another source failed; when the list is full, what is left out   *)
(* is no more severe; and a headline is only of a document its reader may  *)
(* read.                                                                   *)
EveryScanTells ==
  [][\A s \in Scanner : scan[s].stage = "read" /\ scan'[s].stage = "done" =>
       LET r == scan[s].by
           now == Current(r, known')
           shown == scan'[s].shown
       IN  /\ shown \subseteq now
           /\ \A i, j \in now : Seen(i) = Seen(j) => i = j
           /\ \A k \in DOMAIN scan[s].found : scan[s].found[k] # None => \E i \in now :
                Seen(i) = [kind |-> scan[s].found[k].kind, subject |-> scan[s].found[k].subject]
           /\ \A j \in now \ shown :
                /\ Cardinality(shown) = ListLimit
                /\ \A i \in shown : Order[known'[i].severity] <= Order[known'[j].severity]
           /\ \A i \in now : known'[i].kind = "NEW_DOCUMENT" =>
                \E d \in DOMAIN EnterpriseDocuments :
                  /\ EnterpriseDocuments[d].id = known'[i].subject
                  /\ CanRead(r, EnterpriseDocuments[d].acl)]_insightVars

(* evaluator.ts:34: of the tasks a scan was given, an alarm about them is    *)
(* one the quality numbers raise too or call too few; too few raise none    *)
(* about how tasks end, and work that is not completed shows as failures.   *)
AlarmsAreBacked ==
  \A s \in Scanner : LET report == Evaluate(scan[s].tasks) IN
    /\ PerformanceChanges(scan[s].tasks) # <<>> =>
         report.insufficientData \/ "failureRate" \in report.failing
    /\ report.insufficientData => report.failing \cap {"taskCompletion", "failureRate"} = {}
    /\ "taskCompletion" \in report.failing => "failureRate" \in report.failing

(* detectors.ts:206, index.ts:75: neither the list nor an alarm claims what *)
(* is not so, or hides what is.                                            *)
InsightsAreHonest == EveryScanTells /\ []AlarmsAreBacked

(* insights/route.ts:50: "Dismisses an insight so it stops being surfaced." *)
DismissedStaysAway ==
  \A i, j \in DOMAIN known :
    known[i].by = known[j].by /\ known[i].kind = known[j].kind /\ known[i].subject = known[j].subject
    /\ known[i].severity = known[j].severity /\ i < j => ~known[i].dismissed
=============================================================================
