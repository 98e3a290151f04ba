------------------------------ MODULE MCInsights -----------------------------
(* Two readers, of whom one may read the report; the portal's first         *)
(* initiatives and risks, counted in days from the 28th of September.       *)
EXTENDS InsightsProperties, TLC

Person(clearance) == [unit |-> "Digital", clearance |-> clearance, scopes |-> {"knowledge:read"}]
MCReader == {Person("CONFIDENTIAL"), Person("PUBLIC")}

MCKpis == <<[id |-> "cycle", change |-> -11, deltaIsGood |-> TRUE],
            [id |-> "kpi-1", change |-> -14, deltaIsGood |-> FALSE]>>

MCInitiatives == <<[id |-> "ini-001", due |-> [read |-> TRUE, day |-> 2], progress |-> 72],
                   [id |-> "ini-002", due |-> [read |-> FALSE, day |-> 14], progress |-> 54]>>

MCRisks == <<[id |-> "rsk-002", impact |-> "HIGH", likelihood |-> "MEDIUM", status |-> "OPEN",
              reviewBy |-> [read |-> TRUE, day |-> 2]]>>

MCEnterpriseDocuments == <<[id |-> "report-delivery-q3", updated |-> 0, acl |-> Corpus["report-delivery-q3"].acl]>>

Task(status, search, admits, calls, refused) ==
  [status |-> status, search |-> search, admits |-> admits, calls |-> calls, refused |-> refused]

MCTaskKind == {Task("COMPLETED", "found", FALSE, 2, 0), Task("BLOCKED", "broken", FALSE, 2, 1),
               Task("CANCELLED", "nothing", TRUE, 1, 0)}
(* Tasks are explored in one order, for one reader, and not on the   *)
(* first day.                                                               *)
Ascending(tasks) ==
  LET Place(t) == CASE t.status = "COMPLETED" -> 1 [] t.status = "BLOCKED" -> 2
                    [] t.status = "CANCELLED" -> 3
  IN  \A i, j \in DOMAIN tasks : i < j => Place(tasks[i]) <= Place(tasks[j])

MCFocus ==
  /\ \A r \in Reader : Ascending(history[r])
  /\ \A r \in Reader : r.clearance = "PUBLIC" => history[r] = <<>>
  /\ (\E r \in Reader : history[r] # <<>>) => day # 0

MCSymmetry == Permutations(Scanner)
=============================================================================
