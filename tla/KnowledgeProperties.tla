------------------------- MODULE KnowledgeProperties -------------------------
(* What the knowledge pipeline promises its askers. *)
EXTENDS Knowledge

Key(e) == <<e.doc, e.part>>
Entry == [doc : Doc, part : Nat, text : Revision, acl : Revision]

(* Every variable keeps its shape, and a passage has one entry in the      *)
(* dense index: upsert replaces by chunk id (memory-vector-store.ts).      *)
TypeOK ==
  /\ store \in [Doc -> 0..MaxRevision]
  /\ vectors \subseteq Entry /\ lexical \subseteq Entry
  /\ \A e, f \in vectors : SameChunk(e, f) => e = f
  /\ seeding.state \in {"none", "running", "ready", "failed"}
  /\ \A s \in Search : search[s].step \in {"none", "waiting", "embedding", "ranking", "grounding",
                                            "composing", "answered", "error"}
  /\ retired \subseteq Doc \X Revision
  /\ tidy \in BOOLEAN /\ faults \in 0..MaxFaults

(* The revision a passage is shown from may be read by its asker, under    *)
(* the ceiling and among the kinds of the request; and a search begun      *)
(* after the corpus was indexed and a write returned cites nothing that    *)
(* write replaced or removed, unless it was written again, or writes       *)
(* overlapped or failed. An administrator has every scope.                 *)
CitesOnlyWhatMayBeRead ==
  \A s \in Search : \A i \in DOMAIN search[s].cited :
    LET r == Request(s)
        e == search[s].cited[i].entry
        shown == Content[<<e.doc, e.text>>]
    IN  tidy => /\ Level(shown.acl.classification) <= Min({Level(r.ceiling), Level(r.asker.clearance)})
                /\ shown.acl.units # {} => r.asker.unit \in shown.acl.units
                /\ shown.acl.scopes # {} => (shown.acl.scopes \cup {"system:admin"}) \cap r.asker.scopes # {}
                /\ r.kinds = {} \/ shown.kind \in r.kinds
                /\ <<e.doc, e.text>> \notin search[s].gone

Quiet == seeding.state # "running" /\ \A w \in Writer : ~Active(w)

(* When writes ran one after another and none failed, both indexes hold    *)
(* the passages of the stored revisions under their own access lists, and  *)
(* nothing else.                                                           *)
IndexesFollowTheStore ==
  tidy /\ Quiet =>
    LET held == UNION {Entries(d, store[d], store[d]) : d \in {d \in Doc : store[d] # 0}}
    IN  vectors = held /\ lexical = held

(* rag-service.ts:33: an answer rests on passages the asker may read or    *)
(* says it has none. Composed prose only comes with citations, each mark   *)
(* of one or two digits points at one of them, what is cited covers enough *)
(* of the question, and nothing is answered before the corpus is indexed.  *)
AnswersRestOnPassages ==
  \A s \in Search : search[s].step = "answered" =>
    /\ seeding.state = "ready"
    /\ search[s].composed => search[s].cited # <<>>
    /\ \A m \in search[s].markers : m <= 99 => m \in DOMAIN search[s].cited
    /\ search[s].cited # <<>> =>
         /\ Coverage(Request(s).query, search[s].cited) >= MinCoverage
         /\ \A i, j \in DOMAIN search[s].cited : i # j => search[s].cited[i] # search[s].cited[j]
    /\ (search[s].level = "NONE") <=> (search[s].cited = <<>>)
=============================================================================
