----------------------------- MODULE Permissions -----------------------------
(* Who may read what: the classification ladder, scopes, and the access    *)
(* list of a document (ClearanceAndAclEvaluator), with the lists of the    *)
(* documents the portal ships.                                             *)
EXTENDS Naturals

Classifications == <<"PUBLIC", "INTERNAL", "CONFIDENTIAL", "RESTRICTED">>
Classification == {Classifications[i] : i \in DOMAIN Classifications}

Level(classification) == CHOOSE i \in DOMAIN Classifications : Classifications[i] = classification

CanAccess(clearance, classification) == Level(classification) <= Level(clearance)

Holds(actor, scope) == scope \in actor.scopes \/ "system:admin" \in actor.scopes

(* Mutant of CanRead: the scopes of the list are not asked for.            *)
CanReadUnscoped(actor, acl) ==
  /\ CanAccess(actor.clearance, acl.classification)
  /\ acl.units = {} \/ actor.unit \in acl.units

(* Clearance, then unit, then scope; an empty list does not narrow.        *)
CanRead(actor, acl) ==
  /\ CanAccess(actor.clearance, acl.classification)
  /\ acl.units = {} \/ actor.unit \in acl.units
  /\ acl.scopes = {} \/ \E s \in acl.scopes : Holds(actor, s)

(* A request may ask for less than its asker's clearance, never for more.  *)
Visible(actor, ceiling, acl) == CanRead(actor, acl) /\ CanAccess(ceiling, acl.classification)

-----------------------------------------------------------------------------
Open(kind, classification, parts) ==
  [kind |-> kind, parts |-> parts,
   acl |-> [classification |-> classification, units |-> {}, scopes |-> {}]]

Document == {"prd-tania-portal", "brd-billing-integration", "proposal-enterprise-connectivity",
             "business-case-marketplace", "architecture-tania", "sop-approval",
             "report-delivery-q3", "minutes-portfolio-review", "product-connectivity-catalog",
             "report-compensation-band", "sop-incident-runtime"}

(* A section of a shipped document is one passage: none is over 700 characters. *)
Corpus ==
  [d \in Document |->
    CASE d = "prd-tania-portal"                 -> Open("PRD", "INTERNAL", 3)
      [] d = "brd-billing-integration"          -> Open("BRD", "INTERNAL", 2)
      [] d = "proposal-enterprise-connectivity" -> Open("PROPOSAL", "PUBLIC", 2)
      [] d = "business-case-marketplace"        -> Open("BUSINESS_CASE", "CONFIDENTIAL", 2)
      [] d = "architecture-tania"               -> Open("ARCHITECTURE", "INTERNAL", 2)
      [] d = "sop-approval"                     -> Open("SOP", "INTERNAL", 3)
      [] d = "report-delivery-q3"               -> Open("REPORT", "CONFIDENTIAL", 2)
      [] d = "minutes-portfolio-review"         -> Open("MEETING_MINUTES", "INTERNAL", 2)
      [] d = "product-connectivity-catalog"     -> Open("PRODUCT_DOC", "PUBLIC", 2)
      [] d = "report-compensation-band"         ->
           [Open("REPORT", "RESTRICTED", 1) EXCEPT !.acl.units = {"People & Culture"}]
      [] d = "sop-incident-runtime"             ->
           [Open("SOP", "INTERNAL", 2) EXCEPT !.acl.scopes = {"workflow:run"}]]
=============================================================================
