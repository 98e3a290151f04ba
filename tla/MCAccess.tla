------------------------------- MODULE MCAccess ------------------------------
(* A person the directory demotes from auditor to viewer, and one with no  *)
(* e-mail address; two browsers, of which each may serve either.           *)
EXTENDS AccessProperties, TLC

Entry(groups, clearance, email) == [subject |-> "nobody", groups |-> groups, clearance |-> clearance,
                                    email |-> email]

MCPerson == {"ayu", "budi"}

MCGroups ==
  [ayu |-> [before |-> Entry({"auditor", "staff"}, "CONFIDENTIAL", TRUE),
            after |-> Entry({"viewer"}, "PUBLIC", TRUE)],
   budi |-> [before |-> Entry({"viewer"}, "none", FALSE), after |-> Entry({"viewer"}, "none", FALSE)]]

(* Requests are explored with both browsers signed in, in the first tick   *)
(* and before the directory changes.                                       *)
MCFocus ==
  (\E q \in Request : ~At(q, "unused")) =>
    /\ clock = 0 /\ \A p \in Person : lost[p] = -1
    /\ \A b \in Browser : SignedInAs(b)

MCSymmetry == Permutations(Browser)
=============================================================================
