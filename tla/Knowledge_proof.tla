--------------------------- MODULE Knowledge_proof ---------------------------
(***************************************************************************)
(* Theorems about the knowledge pipeline for any corpus, access lists,     *)
(* revisions, writes, searches, signals and failures; and about the        *)
(* insights drawn from it and the other sources, for any contents of them, *)
(* readers, scanners, days, histories and limits.                          *)
(***************************************************************************)
EXTENDS KnowledgeProperties, InsightsProperties, TLAPS, FiniteSetTheorems, SequenceTheorems,
        WellFoundedInduction

Version == Doc \X Revision

WriteStep ==
  {"idle", "embedding", "upserting", "dropping", "listing", "reading", "done", "failed"}

SearchStep ==
  {"none", "waiting", "embedding", "ranking", "grounding", "composing", "answered", "error"}

SearchField ==
  {"step", "request", "gone", "dense", "ranked", "grounded", "cited", "level", "composed",
   "markers"}

Job ==
  [step : WriteStep, op : {"ingest", "remove"}, doc : Doc, revision : Revision,
   listed : SUBSET Version, built : SUBSET Entry]

Shapes ==
  /\ store \in [Doc -> 0..MaxRevision]
  /\ vectors \in SUBSET Entry /\ lexical \in SUBSET Entry
  /\ seeding \in [state : {"none", "running", "ready", "failed"}, left : Seq(Doc)]
  /\ writer \in [Writer -> Job]
  /\ DOMAIN search = Search
  /\ \A s \in Search :
       /\ DOMAIN search[s] = SearchField
       /\ search[s].step \in SearchStep /\ search[s].request \in Requests
  /\ retired \in SUBSET Version
  /\ tidy \in BOOLEAN /\ faults \in 0..MaxFaults

-----------------------------------------------------------------------------
(* The indexes.                                                            *)

Of(entries, d) == {e \in entries : e.doc = d}
Held(d) == IF store[d] = 0 THEN {} ELSE Entries(d, store[d], store[d])
Listed == {<<d, store[d]>> : d \in {d \in Doc : store[d] # 0}}

(* Writes one after another: whoever writes is alone.                      *)
SerialInv ==
  /\ Active(0) => seeding.state = "running"
  /\ tidy => \A w \in Writer : Active(w) =>
               /\ \A v \in Writer : Active(v) => v = w
               /\ seeding.state = "running" => w = 0

(* What a write has made of its document by each of its steps.             *)
WriteOk(job) ==
  /\ store[job.doc] = IF job.op = "ingest" THEN job.revision ELSE 0
  /\ job.step \in {"embedding", "upserting"} => job.op = "ingest"
  /\ job.step = "dropping" => job.op = "remove"
  /\ job.step = "upserting" => Of(vectors, job.doc) = {}
  /\ job.step \in {"listing", "reading"} => Of(vectors, job.doc) = Held(job.doc)
  /\ job.step = "reading" =>
       /\ job.listed \subseteq Listed
       /\ \A d \in Doc : Of(job.built, d) = IF <<d, store[d]>> \in job.listed THEN {} ELSE Held(d)

IndexInv ==
  /\ \A e \in vectors : e.text = e.acl
  /\ \A e, f \in vectors : SameChunk(e, f) => e = f
  /\ tidy =>
       /\ \A e \in lexical : e.text = e.acl
       /\ \A w \in Writer : Active(w) => WriteOk(writer[w])
       /\ \A d \in Doc : (\A w \in Writer : Active(w) => writer[w].doc # d) =>
            Of(vectors, d) = Held(d) /\ Of(lexical, d) = Held(d)

(* What was replaced or removed is in no index, and no search was begun    *)
(* with more of it than there is.                                          *)
RetiredInv ==
  tidy =>
    /\ \A d \in Doc : <<d, store[d]>> \notin retired
    /\ \A e \in vectors \cup lexical : <<e.doc, e.text>> \notin retired
    /\ \A s \in Search : search[s].gone \subseteq retired

-----------------------------------------------------------------------------
(* The searches.                                                           *)

(* The asker of search q may be shown passage e.                           *)
Fits(q, e) ==
  LET r == Asked[q.request]
  IN  /\ e.text = e.acl /\ <<e.doc, e.text>> \notin q.gone
      /\ Visible(r.asker, r.ceiling, Content[<<e.doc, e.acl>>].acl)

Wanted(q, e) ==
  LET r == Asked[q.request]
  IN  Fits(q, e) /\ (r.kinds = {} \/ Content[<<e.doc, e.acl>>].kind \in r.kinds)

Distinct(list) == \A i, j \in DOMAIN list : i # j => list[i] # list[j]

FoundOk(q) ==
  /\ \A e \in q.dense : Fits(q, e)
  /\ \A i \in DOMAIN q.ranked : Wanted(q, q.ranked[i].entry)
  /\ \A i \in DOMAIN q.cited : Wanted(q, q.cited[i].entry)

(* How far search q has come, and what it has by then.                     *)
AnswerOk(q) ==
  /\ Distinct(q.ranked)
  /\ q.step \notin {"answered", "composing", "error"} => q.cited = <<>> /\ q.level = "NONE"
  /\ q.step = "composing" => q.cited # <<>>
  /\ q.step \notin {"answered", "error"} => ~q.composed /\ q.markers = {}
  /\ q.composed => q.cited # <<>>
  /\ \A m \in q.markers : m <= 99 => m \in DOMAIN q.cited
  /\ q.cited # <<>> =>
       Coverage(Asked[q.request].query, q.cited) >= MinCoverage /\ Distinct(q.cited)
  /\ (q.level = "NONE") <=> (q.cited = <<>>)

SearchInv ==
  \A s \in Search :
    /\ tidy => FoundOk(search[s])
    /\ AnswerOk(search[s])
    /\ search[s].step \notin {"none", "waiting", "error"} => seeding.state = "ready"

KnowledgeInv == Shapes /\ SerialInv /\ IndexInv /\ RetiredInv /\ SearchInv

-----------------------------------------------------------------------------
LEMMA ConstantFacts ==
  /\ 0 \in Writer /\ 1 \in Revision /\ 0 \notin Revision /\ Revision \subseteq 0..MaxRevision
  /\ MaxFaults \in Nat /\ Seed \in Seq(Doc) /\ Seed # <<>> /\ Seed[1] \in Doc
  /\ \A r \in Requests : Asked[r].ceiling \in Classification
                      /\ Asked[r].asker.clearance \in Classification
  /\ \A d \in Doc, r \in Revision : Content[<<d, r>>].acl.classification \in Classification
                                 /\ Content[<<d, r>>].parts \in Nat
<1>1. Len(Seed) >= 1 /\ Seed[1] \in Doc
  BY KnowledgeAssumption DEF KnowledgeAssumption
<1> QED  BY <1>1, KnowledgeAssumption DEF KnowledgeAssumption, Writer, Revision

LEMMA EntriesFacts ==
  ASSUME NEW d \in Doc, NEW r \in Revision
  PROVE  /\ Entries(d, r, r) \in SUBSET Entry
         /\ \A e \in Entries(d, r, r) : e.doc = d /\ e.text = r /\ e.acl = r
         /\ \A e, f \in Entries(d, r, r) : SameChunk(e, f) => e = f
BY ConstantFacts DEF Entries, Entry, SameChunk

LEMMA HeldFacts ==
  ASSUME Shapes, NEW d \in Doc
  PROVE  /\ Held(d) \in SUBSET Entry
         /\ \A e \in Held(d) : e.doc = d /\ e.text = store[d] /\ e.acl = store[d]
         /\ store[d] # 0 => store[d] \in Revision
<1>1. store[d] # 0 => store[d] \in Revision
  BY KnowledgeAssumption DEF KnowledgeAssumption, Shapes, Revision
<1> QED  BY <1>1, EntriesFacts DEF Held

LEMMA IdleFacts == Idle \in Job /\ Idle.step = "idle"
BY ConstantFacts DEF Idle, Job, WriteStep

(* What a search has found stays as it is while others work.               *)
LEMMA SearchKept ==
  ASSUME SearchInv, search' = search, tidy' => tidy,
         seeding.state = "ready" => seeding'.state = "ready"
  PROVE  SearchInv'
BY DEF SearchInv

-----------------------------------------------------------------------------
(* Writes.                                                                 *)

LEMMA BeginStep ==
  ASSUME KnowledgeInv, NEW w \in Writer, ~Active(w), NEW op \in {"ingest", "remove"},
         NEW doc \in Doc, NEW revision \in Revision,
         Begin(w, op, doc, revision, IF op = "ingest" THEN "embedding" ELSE "dropping"),
         vectors' = vectors, lexical' = lexical, faults' = faults,
         seeding' \in [state : {"none", "running", "ready", "failed"}, left : Seq(Doc)],
         seeding'.state = seeding.state, w = 0 => seeding.state = "running"
  PROVE  KnowledgeInv'
<1> DEFINE again == IF op = "ingest" THEN {<<doc, revision>>} ELSE {}
<1>1. PICK job : job = [Idle EXCEPT !.step = IF op = "ingest" THEN "embedding" ELSE "dropping",
                                    !.op = op, !.doc = doc, !.revision = revision]
  OBVIOUS
<1>2. /\ store' = [store EXCEPT ![doc] = IF op = "ingest" THEN revision ELSE 0]
      /\ writer' = [writer EXCEPT ![w] = job] /\ tidy' = (tidy /\ Alone(w))
      /\ retired' = retired \ again
      /\ search' = [s \in Search |-> [search[s] EXCEPT !.gone = @ \ again]]
  BY <1>1 DEF Begin
<1>3. /\ job \in Job /\ job.op = op /\ job.doc = doc /\ job.revision = revision
      /\ job.step = IF op = "ingest" THEN "embedding" ELSE "dropping"
  <2>1. PICK step \in {"embedding", "dropping"} :
          step = IF op = "ingest" THEN "embedding" ELSE "dropping"
    OBVIOUS
  <2>2. job = [Idle EXCEPT !.step = step, !.op = op, !.doc = doc, !.revision = revision]
    BY <1>1, <2>1
  <2> QED  BY <2>1, <2>2, IdleFacts DEF Job, WriteStep
<1>4. /\ Shapes /\ SerialInv /\ IndexInv /\ RetiredInv /\ SearchInv
      /\ store \in [Doc -> 0..MaxRevision] /\ writer \in [Writer -> Job] /\ tidy \in BOOLEAN
  BY DEF KnowledgeInv, Shapes
<1>5. /\ writer'[w] = job /\ \A v \in Writer \ {w} : writer'[v] = writer[v]
      /\ \A d \in Doc : store'[d] = IF d = doc THEN (IF op = "ingest" THEN revision ELSE 0)
                                               ELSE store[d]
  BY <1>2, <1>4
<1>6. \A s \in Search :
        /\ DOMAIN search'[s] = SearchField /\ search'[s].gone = search[s].gone \ again
        /\ search'[s].step = search[s].step /\ search'[s].request = search[s].request
        /\ search'[s].dense = search[s].dense /\ search'[s].ranked = search[s].ranked
        /\ search'[s].grounded = search[s].grounded /\ search'[s].cited = search[s].cited
        /\ search'[s].level = search[s].level /\ search'[s].composed = search[s].composed
        /\ search'[s].markers = search[s].markers
  <2> SUFFICES ASSUME NEW s \in Search
               PROVE  /\ DOMAIN search'[s] = SearchField
                      /\ search'[s].gone = search[s].gone \ again
                      /\ \A f \in SearchField \ {"gone"} : search'[s][f] = search[s][f]
    BY DEF SearchField
  <2>1. DOMAIN search[s] = SearchField
    BY <1>4 DEF Shapes
  <2>2. search'[s] = [search[s] EXCEPT !.gone = @ \ again]
    BY <1>2
  <2> HIDE DEF again
  <2> QED  BY <2>1, <2>2 DEF SearchField
<1>7. Shapes'
  <2>1. store' \in [Doc -> 0..MaxRevision]
    <3>1. PICK n : n = IF op = "ingest" THEN revision ELSE 0
      OBVIOUS
    <3>2. n \in 0..MaxRevision
      BY <3>1, ConstantFacts, KnowledgeAssumption DEF KnowledgeAssumption
    <3> QED  BY <1>2, <1>4, <3>1, <3>2
  <2>2. writer' \in [Writer -> Job]
    BY <1>2, <1>3, <1>4
  <2>3. retired' \in SUBSET Version /\ tidy' \in BOOLEAN
    BY <1>2, <1>4 DEF Shapes
  <2> QED  BY <1>2, <1>4, <1>6, <2>1, <2>2, <2>3 DEF Shapes
<1>8. \A v \in Writer : Active(v)' <=> v = w \/ Active(v)
  BY <1>3, <1>5 DEF Active
<1>9. SerialInv'
  <2>1. Active(0)' => seeding'.state = "running"
    BY <1>4, <1>8, ConstantFacts DEF SerialInv
  <2>2. tidy' => \A v \in Writer : Active(v)' => v = w
    BY <1>2, <1>8 DEF Alone
  <2>3. tidy' /\ seeding'.state = "running" => w = 0
    BY <1>2, ConstantFacts DEF Alone
  <2> QED  BY <2>1, <2>2, <2>3 DEF SerialInv
<1>10. IndexInv'
  <2>1. WriteOk(job)'
    BY <1>3, <1>5 DEF WriteOk
  <2>2. ASSUME tidy' PROVE \A v \in Writer : Active(v)' => WriteOk(writer[v])'
    <3> SUFFICES ASSUME NEW v \in Writer, Active(v)' PROVE WriteOk(writer[v])'
      OBVIOUS
    <3>1. v = w
      BY <1>2, <1>8, <2>2 DEF Alone
    <3>2. job = writer'[v]
      BY <1>5, <3>1
    <3> QED  BY <2>1, <3>2 DEF WriteOk
  <2>3. ASSUME tidy', NEW d \in Doc, \A v \in Writer : Active(v)' => writer'[v].doc # d
        PROVE  Of(vectors, d)' = Held(d)' /\ Of(lexical, d)' = Held(d)'
    <3>1. d # doc /\ \A v \in Writer : ~Active(v)
      BY <1>2, <1>3, <1>5, <1>8, <2>3 DEF Alone
    <3>2. Of(vectors, d) = Held(d) /\ Of(lexical, d) = Held(d)
      BY <1>2, <1>4, <2>3, <3>1 DEF IndexInv
    <3>3. Held(d)' = Held(d)
      BY <1>5, <3>1 DEF Held
    <3> QED  BY <3>2, <3>3 DEF Of
  <2> QED  BY <1>2, <1>4, <2>2, <2>3 DEF IndexInv
<1>11. RetiredInv'
  <2> SUFFICES ASSUME tidy'
               PROVE  /\ \A d \in Doc : <<d, store'[d]>> \notin retired'
                      /\ \A e \in vectors \cup lexical : <<e.doc, e.text>> \notin retired'
                      /\ \A s \in Search : search'[s].gone \subseteq retired'
    BY DEF RetiredInv
  <2>1. /\ \A d \in Doc : <<d, store[d]>> \notin retired
        /\ \A e \in vectors \cup lexical : <<e.doc, e.text>> \notin retired
        /\ \A s \in Search : search[s].gone \subseteq retired
    BY <1>2, <1>4 DEF RetiredInv
  <2>2. \A d \in Doc : <<d, 0>> \notin retired
    BY <1>4, ConstantFacts DEF Shapes, Version
  <2> QED  BY <1>2, <1>5, <1>6, <2>1, <2>2
<1>12. SearchInv'
  <2> SUFFICES ASSUME NEW s \in Search
               PROVE  /\ tidy' => FoundOk(search[s])'
                      /\ AnswerOk(search[s])'
                      /\ search'[s].step \notin {"none", "waiting", "error"} =>
                           seeding'.state = "ready"
    BY DEF SearchInv
  <2>1. PICK q, p : q = search[s] /\ p = search'[s]
    OBVIOUS
  <2>2. /\ p.gone \subseteq q.gone /\ p.step = q.step /\ p.request = q.request
        /\ p.dense = q.dense /\ p.ranked = q.ranked /\ p.cited = q.cited
        /\ p.level = q.level /\ p.composed = q.composed /\ p.markers = q.markers
    BY <1>6, <2>1
  <2>3. \A e : (Fits(q, e) => Fits(p, e)) /\ (Wanted(q, e) => Wanted(p, e))
    BY <2>2 DEF Fits, Wanted
  <2>4. FoundOk(q) => FoundOk(p)
    BY <2>2, <2>3 DEF FoundOk
  <2>5. AnswerOk(q) => AnswerOk(p)
    BY <2>2 DEF AnswerOk
  <2>6. /\ tidy => FoundOk(q)
        /\ AnswerOk(q)
        /\ q.step \notin {"none", "waiting", "error"} => seeding.state = "ready"
    BY <1>4, <2>1 DEF SearchInv
  <2>7. (tidy' => FoundOk(p)) /\ AnswerOk(p)
    BY <1>2, <2>4, <2>5, <2>6
  <2>8. (tidy' => FoundOk(search'[s])) /\ AnswerOk(search'[s])
    BY <2>1, <2>7
  <2> QED  BY <2>1, <2>2, <2>6, <2>8 DEF FoundOk, Fits, Wanted, AnswerOk, Distinct
<1> QED  BY <1>7, <1>9, <1>10, <1>11, <1>12 DEF KnowledgeInv

(* A write goes on with its document, and leaves the others as they are.   *)
LEMMA GoesOn ==
  ASSUME KnowledgeInv, NEW w \in Writer, Active(w), NEW job \in Job,
         job.step \in {"upserting", "listing", "reading"}, job.doc = writer[w].doc,
         writer' = [writer EXCEPT ![w] = job],
         store' = store, lexical' = lexical, seeding' = seeding, search' = search,
         tidy' = tidy, retired' = retired, faults' = faults,
         vectors' \in SUBSET Entry, \A e \in vectors' : e.text = e.acl,
         \A e, f \in vectors' : SameChunk(e, f) => e = f,
         \A e \in vectors' : e \in vectors \/ (e.doc = job.doc /\ e.text = store[job.doc]),
         \A d \in Doc \ {job.doc} : Of(vectors, d)' = Of(vectors, d),
         tidy => WriteOk(job)'
  PROVE  KnowledgeInv'
<1>1. /\ Shapes /\ SerialInv /\ IndexInv /\ RetiredInv /\ SearchInv
      /\ writer \in [Writer -> Job] /\ job.doc \in Doc
  BY DEF KnowledgeInv, Shapes, Job
<1>2. writer'[w] = job /\ \A v \in Writer \ {w} : writer'[v] = writer[v]
  BY <1>1
<1>3. \A v \in Writer : Active(v)' <=> Active(v)
  BY <1>2 DEF Active
<1>4. Shapes'
  BY <1>1 DEF Shapes
<1>5. SerialInv'
  BY <1>1, <1>3, ConstantFacts DEF SerialInv
<1>6. IndexInv'
  <2>1. ASSUME tidy', NEW v \in Writer, Active(v)' PROVE WriteOk(writer[v])'
    <3>1. v = w
      BY <1>1, <1>3, <2>1 DEF SerialInv
    <3>2. WriteOk(job)' /\ job = writer'[v]
      BY <1>2, <2>1, <3>1
    <3> QED  BY <3>2 DEF WriteOk
  <2>2. ASSUME tidy', NEW d \in Doc, \A v \in Writer : Active(v)' => writer'[v].doc # d
        PROVE  Of(vectors, d)' = Held(d)' /\ Of(lexical, d)' = Held(d)'
    <3>1. d # job.doc
      BY <1>2, <1>3, <2>2
    <3>2. \A v \in Writer : Active(v) => writer[v].doc # d
      BY <1>2, <1>3, <2>2, <3>1
    <3>3. Of(vectors, d) = Held(d) /\ Of(lexical, d) = Held(d)
      BY <1>1, <2>2, <3>2 DEF IndexInv
    <3>4. Held(d)' = Held(d) /\ Of(lexical, d)' = Of(lexical, d)
      BY DEF Held, Of
    <3> QED  BY <3>1, <3>3, <3>4
  <2> QED  BY <1>1, <2>1, <2>2 DEF IndexInv
<1>7. RetiredInv'
  BY <1>1 DEF RetiredInv
<1>8. SearchInv'
  BY <1>1, SearchKept
<1> QED  BY <1>4, <1>5, <1>6, <1>7, <1>8 DEF KnowledgeInv

LEMMA EmbeddedStep ==
  ASSUME KnowledgeInv, NEW w \in Writer, Embedded(w)
  PROVE  KnowledgeInv'
<1>1. PICK old \in Job : old = writer[w] /\ old.step = "embedding"
  BY DEF Embedded, KnowledgeInv, Shapes
<1>2. PICK job : job = [old EXCEPT !.step = "upserting"]
  OBVIOUS
<1>3. /\ job \in Job /\ job.step = "upserting" /\ job.doc = old.doc /\ job.op = old.op
      /\ job.revision = old.revision /\ Active(w)
  BY <1>1, <1>2 DEF Job, WriteStep, Active
<1>4. /\ writer' = [writer EXCEPT ![w] = job] /\ vectors' = {e \in vectors : e.doc # old.doc}
      /\ store' = store /\ lexical' = lexical /\ seeding' = seeding /\ search' = search
      /\ tidy' = tidy /\ retired' = retired /\ faults' = faults
  BY <1>1, <1>2 DEF Embedded, Step, Without, KnowledgeInv, Shapes
<1>5. tidy => WriteOk(job)'
  <2>1. tidy => WriteOk(old)
    BY <1>1, <1>3 DEF KnowledgeInv, IndexInv
  <2> QED  BY <1>1, <1>3, <1>4, <2>1 DEF WriteOk, Of
<1>6. \A d \in Doc \ {job.doc} : Of(vectors, d)' = Of(vectors, d)
  BY <1>3, <1>4 DEF Of
<1>7. /\ vectors' \in SUBSET Entry /\ \A e \in vectors' : e.text = e.acl
      /\ \A e, f \in vectors' : SameChunk(e, f) => e = f
      /\ \A e \in vectors' : e \in vectors
  BY <1>4 DEF KnowledgeInv, Shapes, IndexInv
<1> QED  BY <1>1, <1>3, <1>4, <1>5, <1>6, <1>7, GoesOn

LEMMA UpsertStep ==
  ASSUME KnowledgeInv, NEW w \in Writer, Upsert(w)
  PROVE  KnowledgeInv'
<1>1. PICK old \in Job : old = writer[w] /\ old.step = "upserting"
  BY DEF Upsert, KnowledgeInv, Shapes
<1>2. PICK job : job = [old EXCEPT !.step = "listing"]
  OBVIOUS
<1>3. /\ job \in Job /\ job.step = "listing" /\ job.doc = old.doc /\ job.op = old.op
      /\ job.revision = old.revision /\ job.doc \in Doc /\ job.revision \in Revision /\ Active(w)
  BY <1>1, <1>2 DEF Job, WriteStep, Active
<1>4. PICK new : new = Entries(job.doc, job.revision, job.revision)
  OBVIOUS
<1>5. /\ writer' = [writer EXCEPT ![w] = job]
      /\ vectors' = {e \in vectors : \A f \in new : ~SameChunk(e, f)} \cup new
      /\ store' = store /\ lexical' = lexical /\ seeding' = seeding /\ search' = search
      /\ tidy' = tidy /\ retired' = retired /\ faults' = faults
  BY <1>1, <1>2, <1>3, <1>4 DEF Upsert, Step, Upserted, KnowledgeInv, Shapes
<1>6. /\ new \in SUBSET Entry /\ \A e, f \in new : SameChunk(e, f) => e = f
      /\ \A e \in new : e.doc = job.doc /\ e.text = job.revision /\ e.acl = job.revision
  BY <1>3, <1>4, EntriesFacts
<1>7. tidy => WriteOk(old)
  BY <1>1, <1>3 DEF KnowledgeInv, IndexInv
<1>8. tidy => store[job.doc] = job.revision
  BY <1>1, <1>3, <1>7 DEF WriteOk
<1>9. tidy => WriteOk(job)'
  <2> SUFFICES ASSUME tidy PROVE WriteOk(job)'
    OBVIOUS
  <2>1. Of(vectors, job.doc) = {} /\ job.op = "ingest"
    BY <1>1, <1>3, <1>7 DEF WriteOk
  <2>2. Of(vectors, job.doc)' = new
    BY <1>5, <1>6, <2>1 DEF Of
  <2>3. Held(job.doc)' = new
    BY <1>3, <1>4, <1>5, <1>8, ConstantFacts DEF Held
  <2> QED  BY <1>3, <1>5, <1>8, <2>1, <2>2, <2>3 DEF WriteOk
<1>10. \A d \in Doc \ {job.doc} : Of(vectors, d)' = Of(vectors, d)
  BY <1>5, <1>6 DEF Of, SameChunk
<1>11. /\ vectors' \in SUBSET Entry /\ \A e \in vectors' : e.text = e.acl
       /\ \A e, f \in vectors' : SameChunk(e, f) => e = f
  <2>1. /\ vectors \in SUBSET Entry /\ \A e \in vectors : e.text = e.acl
        /\ \A e, f \in vectors : SameChunk(e, f) => e = f
    BY DEF KnowledgeInv, Shapes, IndexInv
  <2>2. \A e, f : SameChunk(e, f) => SameChunk(f, e)
    BY DEF SameChunk
  <2> QED  BY <1>5, <1>6, <2>1, <2>2
<1>12. ASSUME ~tidy PROVE KnowledgeInv'
  <2> HIDE DEF KnowledgeInv
  <2>1. \A v \in Writer : Active(v)' <=> Active(v)
    BY <1>1, <1>3, <1>5 DEF Active, KnowledgeInv, Shapes
  <2>2. Shapes'
    BY <1>3, <1>5, <1>11 DEF KnowledgeInv, Shapes
  <2>3. SerialInv'
    BY <1>5, <1>12, <2>1, ConstantFacts DEF KnowledgeInv, SerialInv
  <2>4. IndexInv' /\ RetiredInv'
    BY <1>5, <1>11, <1>12 DEF IndexInv, RetiredInv
  <2>5. SearchInv'
    BY <1>5, SearchKept DEF KnowledgeInv
  <2> QED  BY <2>2, <2>3, <2>4, <2>5 DEF KnowledgeInv
<1>13. ASSUME tidy PROVE KnowledgeInv'
  <2>1. \A e \in vectors' : e \in vectors \/ (e.doc = job.doc /\ e.text = store[job.doc])
    BY <1>5, <1>6, <1>8, <1>13
  <2> QED  BY <1>1, <1>3, <1>5, <1>9, <1>10, <1>11, <2>1, GoesOn
<1> QED  BY <1>12, <1>13

LEMMA DropStep ==
  ASSUME KnowledgeInv, NEW w \in Writer, Drop(w)
  PROVE  KnowledgeInv'
<1>1. PICK old \in Job : old = writer[w] /\ old.step = "dropping"
  BY DEF Drop, KnowledgeInv, Shapes
<1>2. PICK job : job = [old EXCEPT !.step = "listing"]
  OBVIOUS
<1>3. /\ job \in Job /\ job.step = "listing" /\ job.doc = old.doc /\ job.op = old.op
      /\ job.revision = old.revision /\ Active(w)
  BY <1>1, <1>2 DEF Job, WriteStep, Active
<1>4. /\ writer' = [writer EXCEPT ![w] = job] /\ vectors' = {e \in vectors : e.doc # old.doc}
      /\ store' = store /\ lexical' = lexical /\ seeding' = seeding /\ search' = search
      /\ tidy' = tidy /\ retired' = retired /\ faults' = faults
  BY <1>1, <1>2 DEF Drop, Step, Without, KnowledgeInv, Shapes
<1>5. tidy => WriteOk(job)'
  <2>1. tidy => WriteOk(old)
    BY <1>1, <1>3 DEF KnowledgeInv, IndexInv
  <2>2. Of(vectors, job.doc)' = {}
    BY <1>3, <1>4 DEF Of
  <2> QED  BY <1>1, <1>3, <1>4, <2>1, <2>2 DEF WriteOk, Held
<1>6. \A d \in Doc \ {job.doc} : Of(vectors, d)' = Of(vectors, d)
  BY <1>3, <1>4 DEF Of
<1>7. /\ vectors' \in SUBSET Entry /\ \A e \in vectors' : e.text = e.acl
      /\ \A e, f \in vectors' : SameChunk(e, f) => e = f
      /\ \A e \in vectors' : e \in vectors
  BY <1>4 DEF KnowledgeInv, Shapes, IndexInv
<1> QED  BY <1>1, <1>3, <1>4, <1>5, <1>6, <1>7, GoesOn

LEMMA ListStep ==
  ASSUME KnowledgeInv, NEW w \in Writer, List(w)
  PROVE  KnowledgeInv'
<1>1. PICK old \in Job : old = writer[w] /\ old.step = "listing"
  BY DEF List, KnowledgeInv, Shapes
<1>2. PICK listed : listed = Listed
  OBVIOUS
<1>3. listed \in SUBSET Version
  BY <1>2, HeldFacts DEF KnowledgeInv, Listed, Version
<1>4. PICK job : job = [old EXCEPT !.step = "reading", !.listed = listed, !.built = {}]
  OBVIOUS
<1>5. /\ job \in Job /\ job.step = "reading" /\ job.doc = old.doc /\ job.op = old.op
      /\ job.revision = old.revision /\ job.listed = listed /\ job.built = {} /\ Active(w)
  BY <1>1, <1>3, <1>4 DEF Job, WriteStep, Active
<1>6. /\ writer' = [writer EXCEPT ![w] = job] /\ vectors' = vectors
      /\ store' = store /\ lexical' = lexical /\ seeding' = seeding /\ search' = search
      /\ tidy' = tidy /\ retired' = retired /\ faults' = faults
  <2>1. writer' = [writer EXCEPT ![w].step = "reading", ![w].listed = listed, ![w].built = {}]
    BY <1>2 DEF List, Listed
  <2>2. writer \in [Writer -> Job]
    BY DEF KnowledgeInv, Shapes
  <2> QED  BY <1>1, <1>4, <2>1, <2>2 DEF List, index, Job
<1>7. tidy => WriteOk(job)'
  <2> SUFFICES ASSUME tidy PROVE WriteOk(job)'
    OBVIOUS
  <2>1. WriteOk(old)
    BY <1>1, <1>5 DEF KnowledgeInv, IndexInv
  <2>2. \A d \in Doc : Of({}, d) = IF <<d, store[d]>> \in listed THEN {} ELSE Held(d)
    BY <1>2 DEF Listed, Of, Held
  <2>3. listed \subseteq Listed'
    BY <1>2, <1>6 DEF Listed
  <2> QED  BY <1>1, <1>5, <1>6, <2>1, <2>2, <2>3 DEF WriteOk, Of, Held
<1>8. \A d \in Doc \ {job.doc} : Of(vectors, d)' = Of(vectors, d)
  BY <1>6 DEF Of
<1>9. /\ vectors' \in SUBSET Entry /\ \A e \in vectors' : e.text = e.acl
      /\ \A e, f \in vectors' : SameChunk(e, f) => e = f
      /\ \A e \in vectors' : e \in vectors
  BY <1>6 DEF KnowledgeInv, Shapes, IndexInv
<1> QED  BY <1>1, <1>5, <1>6, <1>7, <1>8, <1>9, GoesOn

LEMMA ReadStep ==
  ASSUME KnowledgeInv, NEW w \in Writer, Read(w)
  PROVE  KnowledgeInv'
<1>1. PICK old \in Job : old = writer[w] /\ old.step = "reading"
  BY DEF Read, KnowledgeInv, Shapes
<1>2. PICK l \in old.listed :
        writer' = [writer EXCEPT ![w].listed = @ \ {l},
                                 ![w].built = @ \cup IF store[l[1]] = 0 THEN {}
                                                     ELSE Entries(l[1], store[l[1]], l[2])]
  BY <1>1 DEF Read
<1>3. PICK d \in Doc, r \in Revision : l = <<d, r>>
  BY <1>1 DEF Job, Version
<1>4. PICK new : new = IF store[d] = 0 THEN {} ELSE Entries(d, store[d], r)
  OBVIOUS
<1>5. /\ new \in SUBSET Entry /\ (\A e \in new : e.doc = d) /\ (store[d] = r => new = Held(d))
  <2>1. store[d] # 0 => store[d] \in Revision
    BY HeldFacts DEF KnowledgeInv
  <2>2. CASE store[d] = 0
    BY <1>4, <2>2, ConstantFacts
  <2>3. CASE store[d] # 0
    <3>1. PICK text \in Revision : text = store[d]
      BY <2>1, <2>3
    <3>2. new = Entries(d, text, r)
      BY <1>4, <2>3, <3>1
    <3>3. Content[<<d, text>>].parts \in Nat
      BY ConstantFacts
    <3>4. new \in SUBSET Entry /\ \A e \in new : e.doc = d
      BY <3>2, <3>3 DEF Entries, Entry
    <3> QED  BY <2>3, <3>1, <3>2, <3>4 DEF Held
  <2> QED  BY <2>2, <2>3
<1>6. PICK job : job = [old EXCEPT !.listed = @ \ {l}, !.built = @ \cup new]
  OBVIOUS
<1>7. /\ job \in Job /\ job.step = "reading" /\ job.doc = old.doc /\ job.op = old.op
      /\ job.revision = old.revision /\ job.listed = old.listed \ {l}
      /\ job.built = old.built \cup new /\ Active(w)
  BY <1>1, <1>5, <1>6 DEF Job, WriteStep, Active
<1>8. /\ writer' = [writer EXCEPT ![w] = job] /\ vectors' = vectors
      /\ store' = store /\ lexical' = lexical /\ seeding' = seeding /\ search' = search
      /\ tidy' = tidy /\ retired' = retired /\ faults' = faults
  <2>1. writer' = [writer EXCEPT ![w].listed = @ \ {l}, ![w].built = @ \cup new]
    BY <1>2, <1>3, <1>4
  <2>2. writer \in [Writer -> Job]
    BY DEF KnowledgeInv, Shapes
  <2> QED  BY <1>1, <1>6, <2>1, <2>2 DEF Read, index, Job
<1>9. tidy => WriteOk(job)'
  <2> SUFFICES ASSUME tidy PROVE WriteOk(job)'
    OBVIOUS
  <2>1. WriteOk(old)
    BY <1>1, <1>7 DEF KnowledgeInv, IndexInv
  <2>2. store[d] = r /\ r # 0
    BY <1>1, <1>3, <2>1 DEF WriteOk, Listed
  <2>3. \A x \in Doc : Of(job.built, x)
                         = IF <<x, store[x]>> \in job.listed THEN {} ELSE Held(x)
    <3> SUFFICES ASSUME NEW x \in Doc
                 PROVE  Of(job.built, x)
                          = IF <<x, store[x]>> \in job.listed THEN {} ELSE Held(x)
      OBVIOUS
    <3>1. Of(old.built, x) = IF <<x, store[x]>> \in old.listed THEN {} ELSE Held(x)
      BY <1>1, <2>1 DEF WriteOk
    <3>2. CASE x = d
      <4>1. Of(job.built, x) = Of(old.built, x) \cup new
        BY <1>5, <1>7, <3>2 DEF Of
      <4> QED  BY <1>2, <1>3, <1>5, <1>7, <2>2, <3>1, <3>2, <4>1
    <3>3. CASE x # d
      <4>1. Of(job.built, x) = Of(old.built, x)
        BY <1>5, <1>7, <3>3 DEF Of
      <4> QED  BY <1>3, <1>7, <3>1, <3>3, <4>1
    <3> QED  BY <3>2, <3>3
  <2>4. job.listed \subseteq Listed
    BY <1>1, <1>7, <2>1 DEF WriteOk
  <2> QED  BY <1>1, <1>7, <1>8, <2>1, <2>3, <2>4 DEF WriteOk, Of, Held, Listed
<1>10. \A x \in Doc \ {job.doc} : Of(vectors, x)' = Of(vectors, x)
  BY <1>8 DEF Of
<1>11. /\ vectors' \in SUBSET Entry /\ \A e \in vectors' : e.text = e.acl
       /\ \A e, f \in vectors' : SameChunk(e, f) => e = f
       /\ \A e \in vectors' : e \in vectors
  BY <1>8 DEF KnowledgeInv, Shapes, IndexInv
<1> QED  BY <1>1, <1>7, <1>8, <1>9, <1>10, <1>11, GoesOn

(* The keyword index is replaced by what was built, and the write is over. *)
LEMMA BuildStep ==
  ASSUME KnowledgeInv, NEW w \in Writer, Build(w)
  PROVE  KnowledgeInv'
<1>1. PICK old \in Job : old = writer[w] /\ old.step = "reading" /\ old.listed = {}
  BY DEF Build, KnowledgeInv, Shapes
<1>2. PICK job : job = IF w = 0 THEN Idle ELSE [old EXCEPT !.step = "done", !.built = {}]
  OBVIOUS
<1>3. /\ job \in Job /\ job.step \in {"idle", "done"} /\ Active(w)
      /\ old.doc \in Doc /\ old.built \in SUBSET Entry /\ old.revision \in Revision
      /\ old.op \in {"ingest", "remove"}
  BY <1>1, <1>2, IdleFacts DEF Job, WriteStep, Active
<1>4. PICK over : over = {old.doc} \X (Revision \ (IF old.op = "ingest" THEN {old.revision} ELSE {}))
  OBVIOUS
<1>5. /\ writer' = [writer EXCEPT ![w] = job] /\ lexical' = old.built
      /\ retired' = (retired \ ({old.doc} \X Revision)) \cup over
      /\ store' = store /\ vectors' = vectors /\ seeding' = seeding /\ search' = search
      /\ tidy' = tidy /\ faults' = faults
  BY <1>1, <1>2, <1>4 DEF Build, Superseded
<1>6. /\ Shapes /\ SerialInv /\ IndexInv /\ RetiredInv /\ SearchInv
      /\ writer \in [Writer -> Job]
  BY DEF KnowledgeInv, Shapes
<1>7. writer'[w] = job /\ \A v \in Writer \ {w} : writer'[v] = writer[v]
  BY <1>5, <1>6
<1>8. \A v \in Writer : Active(v)' <=> v # w /\ Active(v)
  BY <1>3, <1>7 DEF Active
<1>9. Shapes'
  <2>1. writer' \in [Writer -> Job] /\ retired' \in SUBSET Version
    BY <1>3, <1>4, <1>5, <1>6 DEF Shapes, Version
  <2> QED  BY <1>3, <1>5, <1>6, <2>1 DEF Shapes
<1>10. SerialInv'
  BY <1>5, <1>6, <1>8, ConstantFacts DEF SerialInv
<1>11. tidy => /\ WriteOk(old) /\ \A v \in Writer : Active(v) => v = w
               /\ store[old.doc] = IF old.op = "ingest" THEN old.revision ELSE 0
  BY <1>1, <1>3, <1>6 DEF IndexInv, SerialInv, WriteOk
<1>12. ASSUME tidy, NEW d \in Doc PROVE Of(vectors, d) = Held(d) /\ Of(old.built, d) = Held(d)
  <2>1. Of(old.built, d) = Held(d)
    BY <1>1, <1>11, <1>12 DEF WriteOk
  <2>2. CASE d = old.doc
    BY <1>1, <1>11, <1>12, <2>1, <2>2 DEF WriteOk
  <2>3. CASE d # old.doc
    <3>1. \A v \in Writer : Active(v) => writer[v].doc # d
      BY <1>1, <1>11, <1>12, <2>3
    <3> QED  BY <1>6, <1>12, <2>1, <3>1 DEF IndexInv
  <2> QED  BY <2>2, <2>3
<1>13. ASSUME tidy, NEW e \in vectors \cup old.built
       PROVE  e.doc \in Doc /\ e.text = store[e.doc] /\ e.acl = store[e.doc]
  <2>1. e \in Entry
    BY <1>3, <1>6 DEF Shapes
  <2>2. PICK d \in Doc : d = e.doc
    BY <2>1 DEF Entry
  <2>3. e \in Held(d)
    BY <1>12, <1>13, <2>2 DEF Of
  <2> QED  BY <1>6, <2>2, <2>3, HeldFacts
<1>14. IndexInv'
  <2>1. tidy' => \A v \in Writer : ~Active(v)'
    BY <1>5, <1>8, <1>11
  <2>2. ASSUME tidy', NEW d \in Doc PROVE Of(vectors, d)' = Held(d)' /\ Of(lexical, d)' = Held(d)'
    <3>1. Held(d)' = Held(d)
      BY <1>5 DEF Held
    <3> QED  BY <1>5, <1>12, <2>2, <3>1 DEF Of
  <2>3. tidy' => \A e \in lexical' : e.text = e.acl
    BY <1>5, <1>13
  <2> QED  BY <1>5, <1>6, <2>1, <2>2, <2>3 DEF IndexInv
<1>15. RetiredInv'
  <2> SUFFICES ASSUME tidy
               PROVE  /\ \A d \in Doc : <<d, store[d]>> \notin retired'
                      /\ \A e \in vectors \cup old.built : <<e.doc, e.text>> \notin retired'
                      /\ \A s \in Search : search[s].gone \subseteq retired'
    BY <1>5 DEF RetiredInv
  <2>1. \A d \in Doc : <<d, store[d]>> \notin retired'
    BY <1>4, <1>5, <1>6, <1>11, ConstantFacts DEF RetiredInv
  <2>2. \A e \in vectors \cup old.built : <<e.doc, e.text>> \notin retired'
    BY <1>13, <2>1
  <2>3. ASSUME NEW s \in Search, NEW g \in search[s].gone PROVE g \in retired'
    <3>1. g \in retired /\ g \in Version
      BY <1>6 DEF RetiredInv, Shapes
    <3>2. PICK d \in Doc, r \in Revision : g = <<d, r>>
      BY <3>1 DEF Version
    <3>3. r # store[d]
      BY <1>6, <3>1, <3>2 DEF RetiredInv
    <3> QED  BY <1>4, <1>5, <1>11, <3>1, <3>2, <3>3
  <2> QED  BY <2>1, <2>2, <2>3
<1>16. SearchInv'
  BY <1>5, <1>6, SearchKept
<1> QED  BY <1>9, <1>10, <1>14, <1>15, <1>16 DEF KnowledgeInv

LEMMA EmbeddingFailsStep ==
  ASSUME KnowledgeInv, NEW w \in Writer, EmbeddingFails(w)
  PROVE  KnowledgeInv'
<1>1. PICK old \in Job : old = writer[w] /\ old.step = "embedding"
  BY DEF EmbeddingFails, KnowledgeInv, Shapes
<1>2. PICK job : job = [old EXCEPT !.step = "failed"]
  OBVIOUS
<1>3. job \in Job /\ job.step = "failed" /\ Active(w)
  BY <1>1, <1>2 DEF Job, WriteStep, Active
<1>4. /\ writer' = [writer EXCEPT ![w] = job] /\ tidy' = FALSE
      /\ seeding' = IF w = 0 THEN [seeding EXCEPT !.state = "failed"] ELSE seeding
      /\ store' = store /\ vectors' = vectors /\ lexical' = lexical /\ search' = search
      /\ retired' = retired /\ faults < MaxFaults /\ faults' = faults + 1
  BY <1>1, <1>2 DEF EmbeddingFails, Step, Fault, index, KnowledgeInv, Shapes
<1>5. /\ Shapes /\ SerialInv /\ IndexInv /\ SearchInv /\ writer \in [Writer -> Job]
      /\ faults \in 0..MaxFaults
  BY DEF KnowledgeInv, Shapes
<1>6. /\ seeding' \in [state : {"none", "running", "ready", "failed"}, left : Seq(Doc)]
      /\ w # 0 => seeding' = seeding
  BY <1>4, <1>5 DEF Shapes
<1>7. seeding.state = "ready" => seeding'.state = "ready"
  BY <1>3, <1>4, <1>5 DEF SerialInv
<1>8. Shapes'
  <2>1. writer' \in [Writer -> Job] /\ faults' \in 0..MaxFaults /\ tidy' \in BOOLEAN
    BY <1>3, <1>4, <1>5, ConstantFacts
  <2> QED  BY <1>4, <1>5, <1>6, <2>1 DEF Shapes
<1>9. SerialInv'
  <2>1. Active(0)' => w # 0 /\ Active(0)
    BY <1>3, <1>4, <1>5, ConstantFacts DEF Active
  <2> QED  BY <1>4, <1>5, <1>6, <2>1 DEF SerialInv
<1>10. IndexInv' /\ RetiredInv'
  BY <1>4, <1>5 DEF IndexInv, RetiredInv
<1>11. SearchInv'
  BY <1>4, <1>5, <1>7, SearchKept
<1> QED  BY <1>8, <1>9, <1>10, <1>11 DEF KnowledgeInv

LEMMA WriteStarts ==
  ASSUME KnowledgeInv, NEW w \in Writer, NEW write \in Writes, Ingest(w, write) \/ Withdraw(w, write)
  PROVE  KnowledgeInv'
<1>1. write.op \in {"ingest", "remove"} /\ write.doc \in Doc /\ write.revision \in Revision
  BY KnowledgeAssumption DEF KnowledgeAssumption
<1>2. /\ w # 0 /\ writer[w].step = "idle"
      /\ vectors' = vectors /\ lexical' = lexical /\ faults' = faults /\ seeding' = seeding
      /\ Begin(w, write.op, write.doc, write.revision,
               IF write.op = "ingest" THEN "embedding" ELSE "dropping")
  BY DEF Ingest, Withdraw, Fresh
<1>3. /\ ~Active(w)
      /\ seeding' \in [state : {"none", "running", "ready", "failed"}, left : Seq(Doc)]
  BY <1>2 DEF Active, KnowledgeInv, Shapes
<1> QED  BY <1>1, <1>2, <1>3, BeginStep

LEMMA SeedNextStep ==
  ASSUME KnowledgeInv, SeedNext
  PROVE  KnowledgeInv'
<1>1. /\ seeding.state = "running" /\ ~Active(0) /\ seeding.left # <<>>
      /\ Begin(0, "ingest", Head(seeding.left), 1,
               IF "ingest" = "ingest" THEN "embedding" ELSE "dropping")
      /\ seeding' = [seeding EXCEPT !.left = Tail(@)]
      /\ vectors' = vectors /\ lexical' = lexical /\ faults' = faults
  BY DEF SeedNext
<1>2. PICK left \in Seq(Doc), state \in {"none", "running", "ready", "failed"} :
        seeding = [state |-> state, left |-> left]
  BY DEF KnowledgeInv, Shapes
<1>3. Head(left) \in Doc /\ Tail(left) \in Seq(Doc) /\ seeding.left = left
  BY <1>1, <1>2
<1>4. /\ seeding' \in [state : {"none", "running", "ready", "failed"}, left : Seq(Doc)]
      /\ seeding'.state = seeding.state
  BY <1>1, <1>2, <1>3
<1> QED  BY <1>1, <1>3, <1>4, ConstantFacts, BeginStep

LEMMA SeedDoneStep ==
  ASSUME KnowledgeInv, SeedDone
  PROVE  KnowledgeInv'
<1>1. /\ seeding.state = "running" /\ ~Active(0) /\ seeding' = [seeding EXCEPT !.state = "ready"]
      /\ store' = store /\ vectors' = vectors /\ lexical' = lexical /\ writer' = writer
      /\ search' = search /\ tidy' = tidy /\ retired' = retired /\ faults' = faults
  BY DEF SeedDone, index
<1>2. /\ seeding' \in [state : {"none", "running", "ready", "failed"}, left : Seq(Doc)]
      /\ seeding'.state = "ready"
  BY <1>1 DEF KnowledgeInv, Shapes
<1>3. \A v \in Writer : Active(v)' <=> Active(v)
  BY <1>1 DEF Active
<1>4. Shapes' /\ SerialInv' /\ RetiredInv'
  BY <1>1, <1>2, <1>3, ConstantFacts DEF KnowledgeInv, Shapes, SerialInv, RetiredInv
<1>5. IndexInv'
  BY <1>1, <1>3 DEF KnowledgeInv, IndexInv, WriteOk, Of, Held, Listed
<1>6. SearchInv'
  BY <1>1, <1>2, SearchKept DEF KnowledgeInv
<1> QED  BY <1>4, <1>5, <1>6 DEF KnowledgeInv

-----------------------------------------------------------------------------
(* Searches.                                                               *)

LEMMA SearchGoesOn ==
  ASSUME KnowledgeInv, NEW s \in Search, NEW q, search' = [search EXCEPT ![s] = q],
         DOMAIN q = SearchField, q.step \in SearchStep, q.request \in Requests,
         tidy' => q.gone \subseteq retired, tidy' => FoundOk(q), AnswerOk(q),
         q.step \notin {"none", "waiting", "error"} => seeding'.state = "ready",
         store' = store, vectors' = vectors, lexical' = lexical, writer' = writer,
         retired' = retired, faults' \in 0..MaxFaults, tidy' => tidy, tidy' \in BOOLEAN,
         seeding' \in [state : {"none", "running", "ready", "failed"}, left : Seq(Doc)],
         seeding.state = "ready" => seeding'.state = "ready",
         seeding'.state = seeding.state
           \/ (seeding'.state = "running" /\ (tidy' => \A w \in Writer : ~Active(w)))
  PROVE  KnowledgeInv'
<1>1. Shapes /\ SerialInv /\ IndexInv /\ RetiredInv /\ SearchInv
  BY DEF KnowledgeInv
<1>2. search'[s] = q /\ \A t \in Search \ {s} : search'[t] = search[t]
  BY <1>1 DEF Shapes
<1>3. Shapes'
  BY <1>1, <1>2 DEF Shapes
<1>4. \A w \in Writer : Active(w)' <=> Active(w)
  BY DEF Active
<1>5. SerialInv'
  BY <1>1, <1>4, ConstantFacts DEF SerialInv
<1>6. IndexInv'
  BY <1>1, <1>4 DEF IndexInv, WriteOk, Of, Held, Listed
<1>7. RetiredInv'
  BY <1>1, <1>2 DEF RetiredInv
<1>8. SearchInv'
  <2> SUFFICES ASSUME NEW t \in Search
               PROVE  /\ tidy' => FoundOk(search[t])'
                      /\ AnswerOk(search[t])'
                      /\ search'[t].step \notin {"none", "waiting", "error"} =>
                           seeding'.state = "ready"
    BY DEF SearchInv
  <2>1. PICK p : p = search'[t]
    OBVIOUS
  <2>2. /\ tidy' => FoundOk(p)
        /\ AnswerOk(p)
        /\ p.step \notin {"none", "waiting", "error"} => seeding'.state = "ready"
    BY <1>1, <1>2, <2>1 DEF SearchInv
  <2>3. (tidy' => FoundOk(search'[t])) /\ AnswerOk(search'[t])
    BY <2>1, <2>2
  <2> QED  BY <2>1, <2>2, <2>3 DEF FoundOk, Fits, Wanted, AnswerOk, Distinct
<1> QED  BY <1>3, <1>5, <1>6, <1>7, <1>8 DEF KnowledgeInv

LEMMA SearchFacts ==
  ASSUME KnowledgeInv, NEW s \in Search, NEW q, q = search[s]
  PROVE  /\ DOMAIN q = SearchField /\ q.step \in SearchStep /\ q.request \in Requests
         /\ tidy => q.gone \subseteq retired /\ FoundOk(q)
         /\ AnswerOk(q) /\ tidy \in BOOLEAN /\ faults \in 0..MaxFaults
         /\ q.step \notin {"none", "waiting", "error"} => seeding.state = "ready"
         /\ seeding \in [state : {"none", "running", "ready", "failed"}, left : Seq(Doc)]
BY DEF KnowledgeInv, Shapes, RetiredInv, SearchInv

LEMMA StartStep ==
  ASSUME KnowledgeInv, NEW s \in Search, NEW r \in Requests, Start(s, r)
  PROVE  KnowledgeInv'
<1>1. PICK gone : gone = IF seeding.state = "ready" THEN retired ELSE {}
  OBVIOUS
<1>2. PICK q : q = [NoSearch EXCEPT !.step = "waiting", !.request = r, !.gone = gone]
  OBVIOUS
<1>3. /\ DOMAIN q = SearchField /\ q.step = "waiting" /\ q.request = r /\ q.gone = gone
      /\ q.dense = {} /\ q.ranked = <<>> /\ q.cited = <<>> /\ q.level = "NONE"
      /\ q.composed = FALSE /\ q.markers = {}
  BY <1>2 DEF NoSearch, SearchField
<1>4. /\ search' = [search EXCEPT ![s] = q]
      /\ seeding' = IF seeding.state = "none" THEN [seeding EXCEPT !.state = "running"] ELSE seeding
      /\ tidy' = (tidy /\ (seeding.state = "none" => \A w \in Writer : ~Active(w)))
      /\ store' = store /\ vectors' = vectors /\ lexical' = lexical /\ writer' = writer
      /\ retired' = retired /\ faults' = faults
  BY <1>1, <1>2 DEF Start, Set, index
<1>5. /\ seeding \in [state : {"none", "running", "ready", "failed"}, left : Seq(Doc)]
      /\ tidy \in BOOLEAN /\ faults \in 0..MaxFaults
  BY DEF KnowledgeInv, Shapes
<1>6. /\ seeding' \in [state : {"none", "running", "ready", "failed"}, left : Seq(Doc)]
      /\ seeding.state = "ready" => seeding'.state = "ready"
      /\ seeding'.state = seeding.state
           \/ (seeding'.state = "running" /\ (tidy' => \A w \in Writer : ~Active(w)))
  BY <1>4, <1>5
<1>7. FoundOk(q) /\ AnswerOk(q)
  <2>1. DOMAIN <<>> = {}
    OBVIOUS
  <2> QED  BY <1>3, <2>1 DEF FoundOk, AnswerOk, Distinct
<1>8. q.step \in SearchStep /\ tidy' \in BOOLEAN /\ (tidy' => tidy)
  BY <1>3, <1>4 DEF SearchStep
<1> QED  BY <1>1, <1>3, <1>4, <1>5, <1>6, <1>7, <1>8, SearchGoesOn

LEMMA AdmitStep ==
  ASSUME KnowledgeInv, NEW s \in Search, Admit(s)
  PROVE  KnowledgeInv'
<1>1. PICK old : old = search[s]
  OBVIOUS
<1>2. PICK step : step = IF seeding.state = "ready" THEN "embedding" ELSE "error"
  OBVIOUS
<1>3. PICK q : q = [old EXCEPT !.step = step]
  OBVIOUS
<1>4. /\ old.step = "waiting" /\ search' = [search EXCEPT ![s] = q]
      /\ store' = store /\ vectors' = vectors /\ lexical' = lexical /\ seeding' = seeding
      /\ writer' = writer /\ tidy' = tidy /\ retired' = retired /\ faults' = faults
  BY <1>1, <1>2, <1>3 DEF Admit, At, Ends, Set, index
<1>5. /\ DOMAIN old = SearchField /\ old.request \in Requests
      /\ tidy => old.gone \subseteq retired /\ FoundOk(old)
      /\ AnswerOk(old) /\ tidy \in BOOLEAN /\ faults \in 0..MaxFaults
      /\ seeding \in [state : {"none", "running", "ready", "failed"}, left : Seq(Doc)]
  BY <1>1, SearchFacts
<1>6. DOMAIN q = SearchField /\ q.step = step /\ \A f \in SearchField \ {"step"} : q[f] = old[f]
  BY <1>3, <1>5 DEF SearchField
<1>7. /\ q.request = old.request /\ q.gone = old.gone /\ q.dense = old.dense
      /\ q.ranked = old.ranked /\ q.cited = old.cited /\ q.level = old.level
      /\ q.composed = old.composed /\ q.markers = old.markers
  BY <1>6 DEF SearchField
<1>8. (FoundOk(old) => FoundOk(q)) /\ AnswerOk(q)
  BY <1>2, <1>4, <1>5, <1>6, <1>7, ZenonT(60) DEF FoundOk, Fits, Wanted, AnswerOk
<1>9. q.step \in SearchStep /\ (q.step \notin {"none", "waiting", "error"} => seeding'.state = "ready")
  BY <1>2, <1>4, <1>6 DEF SearchStep
<1> QED  BY <1>4, <1>5, <1>6, <1>7, <1>8, <1>9, SearchGoesOn

(* A cut keeps some of what it cuts.                                       *)
LEMMA CutsFacts ==
  ASSUME NEW S, NEW k, NEW score, NEW T \in Cuts(S, k, score)
  PROVE  T \subseteq S
BY DEF Cuts, kSubset

LEMMA DenseStep ==
  ASSUME KnowledgeInv, NEW s \in Search, Dense(s)
  PROVE  KnowledgeInv'
<1>1. PICK old : old = search[s]
  OBVIOUS
<1>2. PICK dense \in Cuts(MayRead(s, vectors), Candidates(s),
                          Similar(Request(s).query, MayRead(s, vectors))) :
        search' = [search EXCEPT ![s] = [old EXCEPT !.step = "ranking", !.dense = dense]]
  BY <1>1 DEF Dense, Set
<1>3. PICK q : q = [old EXCEPT !.step = "ranking", !.dense = dense]
  OBVIOUS
<1>4. /\ old.step = "embedding" /\ search' = [search EXCEPT ![s] = q]
      /\ store' = store /\ vectors' = vectors /\ lexical' = lexical /\ seeding' = seeding
      /\ writer' = writer /\ tidy' = tidy /\ retired' = retired /\ faults' = faults
  BY <1>1, <1>2, <1>3 DEF Dense, At, index
<1>5. /\ DOMAIN old = SearchField /\ old.request \in Requests
      /\ tidy => old.gone \subseteq retired /\ FoundOk(old)
      /\ AnswerOk(old) /\ tidy \in BOOLEAN /\ faults \in 0..MaxFaults
      /\ seeding \in [state : {"none", "running", "ready", "failed"}, left : Seq(Doc)]
      /\ old.step \notin {"none", "waiting", "error"} => seeding.state = "ready"
  BY <1>1, SearchFacts
<1>6. /\ DOMAIN q = SearchField /\ q.step = "ranking" /\ q.dense = dense
      /\ q.request = old.request /\ q.gone = old.gone
      /\ q.ranked = old.ranked /\ q.cited = old.cited /\ q.level = old.level
      /\ q.composed = old.composed /\ q.markers = old.markers
  BY <1>3, <1>5 DEF SearchField
<1>7. ASSUME tidy PROVE FoundOk(q)
  <2>1. dense \subseteq MayRead(s, vectors)
    BY <1>2, CutsFacts
  <2>2. \A e \in dense : e \in vectors /\ e.text = e.acl /\ <<e.doc, e.text>> \notin old.gone
    BY <1>5, <1>7, <2>1 DEF MayRead, KnowledgeInv, IndexInv, RetiredInv
  <2>3. \A e \in dense : Fits(q, e)
    BY <1>1, <1>6, <2>1, <2>2 DEF Fits, MayRead, Request
  <2> QED  BY <1>5, <1>6, <1>7, <2>3 DEF FoundOk, Wanted, Fits
<1>8. AnswerOk(q)
  BY <1>4, <1>5, <1>6 DEF AnswerOk
<1>9. q.step \in SearchStep /\ seeding'.state = "ready"
  BY <1>4, <1>5, <1>6 DEF SearchStep
<1> QED  BY <1>4, <1>5, <1>6, <1>7, <1>8, <1>9, SearchGoesOn

(* What is ranked was there to be ranked, and is there once.               *)
LEMMA RankingsFacts ==
  ASSUME NEW query, NEW first, NEW limit, NEW ranked \in Rankings(query, first, limit)
  PROVE  (\A i \in DOMAIN ranked : ranked[i].entry \in DOMAIN first) /\ Distinct(ranked)
<1>1. PICK score : score = Rescored(query, first)
  OBVIOUS
<1>2. PICK best \in Cuts(DOMAIN first, limit, score) :
        \E order \in Sorted(best, score) :
          ranked = [i \in DOMAIN order |-> [entry |-> order[i], score |-> score[order[i]]]]
  BY <1>1 DEF Rankings
<1>3. best \subseteq DOMAIN first
  BY CutsFacts
<1>4. PICK order \in Sorted(best, score) :
        ranked = [i \in DOMAIN order |-> [entry |-> order[i], score |-> score[order[i]]]]
  BY <1>2
<1>5. /\ DOMAIN order = 1..Cardinality(best) /\ \A i \in DOMAIN order : order[i] \in best
      /\ \A i, j \in DOMAIN order : i < j => order[i] # order[j]
  BY DEF Sorted
<1>6. \A i, j \in DOMAIN order : i # j => order[i] # order[j]
  BY <1>5
<1>7. \A i \in DOMAIN ranked : i \in DOMAIN order /\ ranked[i].entry = order[i]
  BY <1>4
<1> QED  BY <1>3, <1>5, <1>6, <1>7 DEF Distinct

LEMMA RankStep ==
  ASSUME KnowledgeInv, NEW s \in Search, Rank(s)
  PROVE  KnowledgeInv'
<1> DEFINE query == Request(s).query
           match == Matching(query, MayRead(s, lexical))
           merged(sparse) == Fused(query, search[s].dense, sparse)
           result(ranked) == Set(s, [search[s] EXCEPT !.step = "grounding", !.dense = {},
                                                      !.ranked = ranked])
<1>1. PICK sparse \in Cuts({e \in MayRead(s, lexical) : match[e] > 0}, Candidates(s), match) :
        \E kept \in Cuts(OfKind(Request(s), DOMAIN merged(sparse)), Candidates(s), merged(sparse)) :
          \E ranked \in Rankings(query, [e \in kept |-> merged(sparse)[e]], Request(s).limit) :
            result(ranked)
  BY DEF Rank
<1>2. PICK kept \in Cuts(OfKind(Request(s), DOMAIN merged(sparse)), Candidates(s), merged(sparse)) :
        \E ranked \in Rankings(query, [e \in kept |-> merged(sparse)[e]], Request(s).limit) :
          result(ranked)
  BY <1>1
<1>3. PICK ranked \in Rankings(query, [e \in kept |-> merged(sparse)[e]], Request(s).limit) :
        result(ranked)
  BY <1>2
<1>4. PICK old, r, first : old = search[s] /\ r = Request(s) /\ first = merged(sparse)
  OBVIOUS
<1>5. kept \subseteq OfKind(r, DOMAIN first)
  BY <1>4, CutsFacts
<1>6. /\ search' = [search EXCEPT ![s] = [old EXCEPT !.step = "grounding", !.dense = {},
                                                     !.ranked = ranked]]
      /\ DOMAIN [e \in kept |-> first[e]] = kept
      /\ ranked \in Rankings(query, [e \in kept |-> first[e]], r.limit)
  BY <1>3, <1>4 DEF Set
<1>7. PICK q : q = [old EXCEPT !.step = "grounding", !.dense = {}, !.ranked = ranked]
  OBVIOUS
<1>8. /\ old.step = "ranking" /\ search' = [search EXCEPT ![s] = q]
      /\ store' = store /\ vectors' = vectors /\ lexical' = lexical /\ seeding' = seeding
      /\ writer' = writer /\ tidy' = tidy /\ retired' = retired /\ faults' = faults
  BY <1>4, <1>6, <1>7 DEF Rank, At, index
<1>9. /\ DOMAIN old = SearchField /\ old.request \in Requests
      /\ tidy => old.gone \subseteq retired /\ FoundOk(old)
      /\ AnswerOk(old) /\ tidy \in BOOLEAN /\ faults \in 0..MaxFaults
      /\ seeding \in [state : {"none", "running", "ready", "failed"}, left : Seq(Doc)]
      /\ old.step \notin {"none", "waiting", "error"} => seeding.state = "ready"
  BY <1>4, SearchFacts
<1>10. /\ DOMAIN q = SearchField /\ q.step = "grounding" /\ q.dense = {} /\ q.ranked = ranked
      /\ q.request = old.request /\ q.gone = old.gone /\ q.cited = old.cited
      /\ q.level = old.level /\ q.composed = old.composed /\ q.markers = old.markers
  BY <1>7, <1>9 DEF SearchField
<1>11. (\A i \in DOMAIN ranked : ranked[i].entry \in kept) /\ Distinct(ranked)
  BY <1>6, RankingsFacts
<1>12. ASSUME tidy PROVE FoundOk(q)
  <2>1. sparse \subseteq MayRead(s, lexical)
    BY <1>1, CutsFacts
  <2>2. \A e \in sparse : Fits(q, e)
    <3>1. \A e \in sparse : e \in lexical /\ e.text = e.acl /\ <<e.doc, e.text>> \notin old.gone
      BY <1>9, <1>12, <2>1 DEF MayRead, KnowledgeInv, IndexInv, RetiredInv
    <3> QED  BY <1>4, <1>10, <2>1, <3>1 DEF Fits, MayRead, Request
  <2>3. \A e \in old.dense : Fits(q, e)
    BY <1>9, <1>10, <1>12 DEF FoundOk, Fits
  <2>4. DOMAIN first \subseteq old.dense \cup sparse
    BY <1>4 DEF Fused
  <2>5. \A e \in kept : Wanted(q, e)
    BY <1>4, <1>5, <1>10, <2>2, <2>3, <2>4 DEF Wanted, OfKind, Request
  <2>6. \A i \in DOMAIN q.ranked : Wanted(q, q.ranked[i].entry)
    BY <1>10, <1>11, <2>5
  <2>7. q.cited = <<>>
    BY <1>8, <1>9, <1>10 DEF AnswerOk
  <2> QED  BY <1>10, <2>6, <2>7 DEF FoundOk
<1>13. AnswerOk(q)
  BY <1>8, <1>9, <1>10, <1>11 DEF AnswerOk
<1>14. q.step \in SearchStep /\ seeding'.state = "ready"
  BY <1>8, <1>9, <1>10 DEF SearchStep
<1> QED  BY <1>8, <1>9, <1>10, <1>12, <1>13, <1>14, SearchGoesOn

(* What is grounded has a best passage that covers enough of the question. *)
LEMMA GroundStep ==
  ASSUME KnowledgeInv, NEW s \in Search, Ground(s)
  PROVE  KnowledgeInv'
<1>1. PICK old, r : old = search[s] /\ r = Request(s)
  OBVIOUS
<1>2. PICK grounded : grounded = Grounded(r.query, old.ranked, MinScore)
  OBVIOUS
<1>3. PICK step : step = IF grounded /\ r.kind = "answer" THEN "composing" ELSE "answered"
  OBVIOUS
<1>4. PICK cited : cited = IF grounded THEN old.ranked ELSE <<>>
  OBVIOUS
<1>5. PICK level : level = IF grounded
                           THEN ConfidenceLevel(TRUE, Confidence(old.ranked,
                                                                 Informativeness(r.query)))
                           ELSE "NONE"
  OBVIOUS
<1>6. PICK q : q = [old EXCEPT !.step = step, !.grounded = grounded, !.cited = cited,
                               !.level = level]
  OBVIOUS
<1>7. /\ old.step = "grounding" /\ search' = [search EXCEPT ![s] = q]
      /\ store' = store /\ vectors' = vectors /\ lexical' = lexical /\ seeding' = seeding
      /\ writer' = writer /\ tidy' = tidy /\ retired' = retired /\ faults' = faults
  BY <1>1, <1>2, <1>3, <1>4, <1>5, <1>6 DEF Ground, Set, At, index
<1>8. /\ DOMAIN old = SearchField /\ old.request \in Requests
      /\ tidy => old.gone \subseteq retired /\ FoundOk(old)
      /\ AnswerOk(old) /\ tidy \in BOOLEAN /\ faults \in 0..MaxFaults
      /\ seeding \in [state : {"none", "running", "ready", "failed"}, left : Seq(Doc)]
      /\ old.step \notin {"none", "waiting", "error"} => seeding.state = "ready"
  BY <1>1, SearchFacts
<1>9. /\ DOMAIN q = SearchField /\ q.step = step /\ q.cited = cited /\ q.level = level
      /\ q.dense = old.dense /\ q.ranked = old.ranked /\ q.request = old.request
      /\ q.gone = old.gone /\ q.composed = old.composed /\ q.markers = old.markers
  BY <1>6, <1>8 DEF SearchField
<1>10. grounded => cited # <<>> /\ cited = old.ranked /\ Coverage(r.query, cited) >= MinCoverage
  BY <1>2, <1>4 DEF Grounded
<1>11. (level = "NONE") <=> ~grounded
  BY <1>5 DEF ConfidenceLevel
<1>12. ~grounded => cited = <<>>
  BY <1>4
<1>13. DOMAIN <<>> = {}
  OBVIOUS
<1>14. FoundOk(old) => FoundOk(q)
  BY <1>9, <1>10, <1>12, <1>13 DEF FoundOk, Fits, Wanted
<1>15. AnswerOk(q)
  <2>1. Distinct(cited)
    BY <1>8, <1>10, <1>12, <1>13 DEF AnswerOk, Distinct
  <2>2. step \in {"composing", "answered"} /\ (step = "composing" => grounded)
    BY <1>3
  <2>3. r = Asked[q.request]
    BY <1>1, <1>9 DEF Request
  <2> QED  BY <1>7, <1>8, <1>9, <1>10, <1>11, <1>12, <2>1, <2>2, <2>3 DEF AnswerOk
<1>16. q.step \in SearchStep /\ seeding'.state = "ready"
  BY <1>3, <1>7, <1>8, <1>9 DEF SearchStep
<1> QED  BY <1>7, <1>8, <1>9, <1>14, <1>15, <1>16, SearchGoesOn

LEMMA ComposeStep ==
  ASSUME KnowledgeInv, NEW s \in Search, Compose(s)
  PROVE  KnowledgeInv'
<1>1. PICK old : old = search[s]
  OBVIOUS
<1>2. PICK markers \in SUBSET Marks :
        search' = [search EXCEPT ![s] = [old EXCEPT !.step = "answered", !.composed = TRUE,
                                           !.markers = Supported(markers, old.cited)]]
  BY <1>1 DEF Compose, Set
<1>3. PICK left : left = Supported(markers, old.cited)
  OBVIOUS
<1>4. PICK q : q = [old EXCEPT !.step = "answered", !.composed = TRUE, !.markers = left]
  OBVIOUS
<1>5. /\ old.step = "composing" /\ search' = [search EXCEPT ![s] = q]
      /\ store' = store /\ vectors' = vectors /\ lexical' = lexical /\ seeding' = seeding
      /\ writer' = writer /\ tidy' = tidy /\ retired' = retired /\ faults' = faults
  BY <1>1, <1>2, <1>3, <1>4 DEF Compose, At, index
<1>6. /\ DOMAIN old = SearchField /\ old.request \in Requests
      /\ tidy => old.gone \subseteq retired /\ FoundOk(old)
      /\ AnswerOk(old) /\ tidy \in BOOLEAN /\ faults \in 0..MaxFaults
      /\ seeding \in [state : {"none", "running", "ready", "failed"}, left : Seq(Doc)]
      /\ old.step \notin {"none", "waiting", "error"} => seeding.state = "ready"
  BY <1>1, SearchFacts
<1>7. /\ DOMAIN q = SearchField /\ q.step = "answered" /\ q.composed = TRUE /\ q.markers = left
      /\ q.dense = old.dense /\ q.ranked = old.ranked /\ q.request = old.request
      /\ q.gone = old.gone /\ q.cited = old.cited /\ q.level = old.level
  BY <1>4, <1>6 DEF SearchField
<1>8. FoundOk(old) => FoundOk(q)
  BY <1>7, ZenonT(60) DEF FoundOk, Fits, Wanted
<1>9. \A m \in left : m <= 99 => m \in DOMAIN old.cited
  <2>1. \A m \in left : m \in Nat /\ (m \in DOMAIN old.cited \/ m > 99)
    BY <1>2, <1>3, KnowledgeAssumption DEF Supported, KnowledgeAssumption
  <2> QED  BY <2>1
<1>10. AnswerOk(q)
  BY <1>5, <1>6, <1>7, <1>9 DEF AnswerOk
<1>11. q.step \in SearchStep /\ seeding'.state = "ready"
  BY <1>5, <1>6, <1>7 DEF SearchStep
<1> QED  BY <1>5, <1>6, <1>7, <1>8, <1>10, <1>11, SearchGoesOn

LEMMA SearchFailsStep ==
  ASSUME KnowledgeInv, NEW s \in Search, SearchFails(s)
  PROVE  KnowledgeInv'
<1>1. PICK old : old = search[s]
  OBVIOUS
<1>2. PICK q : q = [old EXCEPT !.step = "error"]
  OBVIOUS
<1>3. /\ search' = [search EXCEPT ![s] = q]
      /\ store' = store /\ vectors' = vectors /\ lexical' = lexical /\ seeding' = seeding
      /\ writer' = writer /\ tidy' = tidy /\ retired' = retired
      /\ faults < MaxFaults /\ faults' = faults + 1
  BY <1>1, <1>2 DEF SearchFails, Ends, Set, Fault, index
<1>4. /\ DOMAIN old = SearchField /\ old.request \in Requests
      /\ tidy => old.gone \subseteq retired /\ FoundOk(old)
      /\ AnswerOk(old) /\ tidy \in BOOLEAN /\ faults \in 0..MaxFaults
      /\ seeding \in [state : {"none", "running", "ready", "failed"}, left : Seq(Doc)]
  BY <1>1, SearchFacts
<1>5. /\ DOMAIN q = SearchField /\ q.step = "error" /\ q.composed = old.composed
      /\ q.markers = old.markers /\ q.dense = old.dense /\ q.ranked = old.ranked
      /\ q.request = old.request /\ q.gone = old.gone /\ q.cited = old.cited
      /\ q.level = old.level
  BY <1>2, <1>4 DEF SearchField
<1>6. FoundOk(old) => FoundOk(q)
  BY <1>5 DEF FoundOk, Fits, Wanted
<1>7. AnswerOk(q)
  BY <1>4, <1>5 DEF AnswerOk
<1>8. faults' \in 0..MaxFaults
  BY <1>3, <1>4, ConstantFacts
<1>9. q.step \in SearchStep
  BY <1>5 DEF SearchStep
<1> QED  BY <1>3, <1>4, <1>5, <1>6, <1>7, <1>8, <1>9, SearchGoesOn


-----------------------------------------------------------------------------
LEMMA InitKnowledge ==
  ASSUME Init
  PROVE  KnowledgeInv
<1>1. /\ store = [d \in Doc |-> 0] /\ vectors = {} /\ lexical = {}
      /\ seeding = [state |-> "none", left |-> Seed] /\ writer = [w \in Writer |-> Idle]
      /\ search = [s \in Search |-> NoSearch] /\ tidy = TRUE /\ retired = {} /\ faults = 0
  BY DEF Init
<1>2. /\ \A w \in Writer : ~Active(w)
      /\ \A d \in Doc : store[d] = 0
  BY <1>1, IdleFacts DEF Active
<1>3. PICK q : q = NoSearch
  OBVIOUS
<1>4. /\ DOMAIN q = SearchField /\ q.step = "none" /\ q.gone = {} /\ q.dense = {}
      /\ q.ranked = <<>> /\ q.cited = <<>> /\ q.level = "NONE" /\ q.composed = FALSE
      /\ q.markers = {} /\ q.request \in Requests
  <2>1. (CHOOSE r \in Requests : TRUE) \in Requests
    BY KnowledgeAssumption DEF KnowledgeAssumption
  <2> QED  BY <1>3, <2>1 DEF NoSearch, SearchField
<1>5. \A s \in Search : search[s] = q
  BY <1>1, <1>3
<1>6. Shapes
  <2>1. writer \in [Writer -> Job]
    BY <1>1, IdleFacts
  <2>2. store \in [Doc -> 0..MaxRevision] /\ faults \in 0..MaxFaults
    BY <1>1, ConstantFacts, KnowledgeAssumption DEF KnowledgeAssumption
  <2> QED  BY <1>1, <1>4, <1>5, <2>1, <2>2, ConstantFacts DEF Shapes, SearchStep
<1>7. SerialInv
  BY <1>2, ConstantFacts DEF SerialInv
<1>8. IndexInv
  BY <1>1, <1>2 DEF IndexInv, Of, Held
<1>9. RetiredInv
  BY <1>1, <1>4, <1>5 DEF RetiredInv
<1>10. SearchInv
  <2>1. DOMAIN <<>> = {}
    OBVIOUS
  <2>2. FoundOk(q) /\ AnswerOk(q)
    BY <1>4, <2>1 DEF FoundOk, AnswerOk, Distinct
  <2> QED  BY <1>4, <1>5, <2>2 DEF SearchInv
<1> QED  BY <1>6, <1>7, <1>8, <1>9, <1>10 DEF KnowledgeInv

LEMMA NextKnowledge ==
  ASSUME KnowledgeInv, [Next]_vars
  PROVE  KnowledgeInv'
<1>1. CASE SeedNext
  BY <1>1, SeedNextStep
<1>2. CASE SeedDone
  BY <1>2, SeedDoneStep
<1>3. CASE \E w \in Writer, write \in Writes : Ingest(w, write) \/ Withdraw(w, write)
  BY <1>3, WriteStarts
<1>4. CASE \E w \in Writer : Write(w)
  BY <1>4, EmbeddedStep, EmbeddingFailsStep, UpsertStep, DropStep, ListStep, ReadStep, BuildStep
     DEF Write
<1>5. CASE \E s \in Search, r \in Requests : Start(s, r)
  BY <1>5, StartStep
<1>6. CASE \E s \in Search : Answer(s) \/ SearchFails(s)
  BY <1>6, AdmitStep, DenseStep, RankStep, GroundStep, ComposeStep, SearchFailsStep DEF Answer
<1>7. CASE UNCHANGED vars
  <2>1. /\ store' = store /\ vectors' = vectors /\ lexical' = lexical /\ seeding' = seeding
        /\ writer' = writer /\ search' = search /\ tidy' = tidy /\ retired' = retired
        /\ faults' = faults
    BY <1>7 DEF vars
  <2>2. SearchInv'
    BY <2>1, SearchKept DEF KnowledgeInv
  <2>3. \A w \in Writer : Active(w)' <=> Active(w)
    BY <2>1 DEF Active
  <2>4. Shapes' /\ SerialInv' /\ RetiredInv'
    BY <2>1, <2>3, ConstantFacts DEF KnowledgeInv, Shapes, SerialInv, RetiredInv
  <2>5. IndexInv'
    BY <2>1, <2>3 DEF KnowledgeInv, IndexInv, WriteOk, Of, Held, Listed
  <2> QED  BY <2>2, <2>4, <2>5 DEF KnowledgeInv
<1> QED  BY <1>1, <1>2, <1>3, <1>4, <1>5, <1>6, <1>7 DEF Next

(* The inductive invariant: what each half-done write has made of the      *)
(* indexes, what each half-done search has found (ingestion-service.ts,    *)
(* hybrid-retriever.ts, rag-service.ts).                                   *)
THEOREM Invariance == Spec => []KnowledgeInv
<1>1. Init => KnowledgeInv
  BY InitKnowledge
<1>2. KnowledgeInv /\ [Next]_vars => KnowledgeInv'
  BY NextKnowledge
<1> QED  BY <1>1, <1>2, PTL DEF Spec

(* Every variable keeps its shape, and a passage never has two entries in  *)
(* the dense index (memory-vector-store.ts).                               *)
THEOREM TypeCorrect == Spec => []TypeOK
<1>1. KnowledgeInv => TypeOK
  BY DEF KnowledgeInv, Shapes, IndexInv, TypeOK, SearchStep, Version
<1> QED  BY <1>1, Invariance, PTL

(* Between writes, when none overlapped another and none failed, both      *)
(* indexes hold the passages of the stored revisions and nothing else      *)
(* (ingestion-service.ts, memory-vector-store.ts, memory-lexical-index.ts).*)
THEOREM IndexesHold == Spec => []IndexesFollowTheStore
<1>1. KnowledgeInv => IndexesFollowTheStore
  <2> SUFFICES ASSUME KnowledgeInv, tidy, Quiet
               PROVE  LET held == UNION {Entries(d, store[d], store[d]) :
                                           d \in {d \in Doc : store[d] # 0}}
                      IN  vectors = held /\ lexical = held
    BY DEF IndexesFollowTheStore
  <2> DEFINE held == UNION {Entries(d, store[d], store[d]) : d \in {d \in Doc : store[d] # 0}}
  <2>1. \A d \in Doc : Of(vectors, d) = Held(d) /\ Of(lexical, d) = Held(d)
    BY DEF KnowledgeInv, IndexInv, Quiet
  <2>2. \A e \in vectors \cup lexical : e.doc \in Doc
    BY DEF KnowledgeInv, Shapes, Entry
  <2>3. \A e : e \in held <=> \E d \in Doc : e \in Held(d)
    BY DEF Held
  <2>4. \A e : e \in vectors <=> \E d \in Doc : e \in Of(vectors, d)
    BY <2>2 DEF Of
  <2>5. \A e : e \in lexical <=> \E d \in Doc : e \in Of(lexical, d)
    BY <2>2 DEF Of
  <2>6. vectors = held /\ lexical = held
    BY <2>1, <2>3, <2>4, <2>5
  <2> QED  BY <2>6
<1> QED  BY <1>1, Invariance, PTL

(* The ladder of classifications.                                          *)
LEMMA LevelFacts ==
  ASSUME NEW c \in Classification
  PROVE  Level(c) \in 1..4
<1>1. PICK i \in DOMAIN Classifications : Classifications[i] = c
  BY DEF Classification
<1>2. Level(c) \in DOMAIN Classifications
  BY <1>1 DEF Level
<1> QED  BY <1>2 DEF Classifications

LEMMA MinFacts ==
  ASSUME NEW a \in Nat, NEW b \in Nat
  PROVE  Min({a, b}) \in {a, b}
<1>1. \E x \in {a, b} : \A y \in {a, b} : x =< y
  OBVIOUS
<1> QED  BY <1>1 DEF Min

(* A citation shows its asker only what access list, clearance, ceiling    *)
(* and kinds let through, and nothing a finished write replaced            *)
(* (access-control.ts, hybrid-retriever.ts, memory-vector-store.ts).       *)
THEOREM CitationsHold == Spec => []CitesOnlyWhatMayBeRead
<1>1. KnowledgeInv => CitesOnlyWhatMayBeRead
  <2> SUFFICES ASSUME KnowledgeInv, NEW s \in Search, NEW i \in DOMAIN search[s].cited, tidy,
                      NEW r, r = Request(s), NEW e, e = search[s].cited[i].entry,
                      NEW shown, shown = Content[<<e.doc, e.text>>]
               PROVE  /\ Level(shown.acl.classification)
                           <= Min({Level(r.ceiling), Level(r.asker.clearance)})
                      /\ shown.acl.units # {} => r.asker.unit \in shown.acl.units
                      /\ shown.acl.scopes # {} =>
                           (shown.acl.scopes \cup {"system:admin"}) \cap r.asker.scopes # {}
                      /\ r.kinds = {} \/ shown.kind \in r.kinds
                      /\ <<e.doc, e.text>> \notin search[s].gone
    BY DEF CitesOnlyWhatMayBeRead
  <2>1. Wanted(search[s], e) /\ search[s].request \in Requests
    BY DEF KnowledgeInv, Shapes, SearchInv, FoundOk
  <2>2. /\ <<e.doc, e.text>> \notin search[s].gone
        /\ r.kinds = {} \/ shown.kind \in r.kinds
        /\ Visible(r.asker, r.ceiling, shown.acl)
    BY <2>1 DEF Wanted, Fits, Request
  <2>3. /\ Level(shown.acl.classification) <= Level(r.asker.clearance)
        /\ Level(shown.acl.classification) <= Level(r.ceiling)
        /\ shown.acl.units = {} \/ r.asker.unit \in shown.acl.units
        /\ shown.acl.scopes = {} \/ \E x \in shown.acl.scopes :
             x \in r.asker.scopes \/ "system:admin" \in r.asker.scopes
    BY <2>2 DEF Visible, CanRead, CanAccess, Holds
  <2>4. Level(shown.acl.classification) <= Min({Level(r.ceiling), Level(r.asker.clearance)})
    <3>1. r.ceiling \in Classification /\ r.asker.clearance \in Classification
      BY <2>1, ConstantFacts DEF Request
    <3>2. PICK a, b : a = Level(r.ceiling) /\ b = Level(r.asker.clearance)
      OBVIOUS
    <3>3. a \in Nat /\ b \in Nat
      BY <3>1, <3>2, LevelFacts
    <3>4. Min({a, b}) \in {a, b}
      BY <3>3, MinFacts
    <3> QED  BY <2>3, <3>2, <3>4
  <2> QED  BY <2>2, <2>3, <2>4
<1> QED  BY <1>1, Invariance, PTL

(* An answer says it has nothing, or rests on passages that carry it, each *)
(* named once, with marks that point at them (rag-service.ts,              *)
(* lexical-reranker.ts).                                                   *)
THEOREM AnswersHold == Spec => []AnswersRestOnPassages
<1>1. KnowledgeInv => AnswersRestOnPassages
  <2> SUFFICES ASSUME KnowledgeInv, NEW s \in Search, search[s].step = "answered"
               PROVE  /\ seeding.state = "ready"
                      /\ search[s].composed => search[s].cited # <<>>
                      /\ \A m \in search[s].markers : m <= 99 => m \in DOMAIN search[s].cited
                      /\ search[s].cited # <<>> =>
                           /\ Coverage(Request(s).query, search[s].cited) >= MinCoverage
                           /\ \A i, j \in DOMAIN search[s].cited :
                                i # j => search[s].cited[i] # search[s].cited[j]
                      /\ (search[s].level = "NONE") <=> (search[s].cited = <<>>)
    BY DEF AnswersRestOnPassages
  <2>1. PICK q : q = search[s]
    OBVIOUS
  <2>2. AnswerOk(q) /\ (q.step \notin {"none", "waiting", "error"} => seeding.state = "ready")
    BY <2>1 DEF KnowledgeInv, SearchInv
  <2>3. q.step = "answered" /\ Request(s) = Asked[q.request]
    BY <2>1 DEF Request
  <2> QED  BY <2>1, <2>2, <2>3 DEF AnswerOk, Distinct
<1> QED  BY <1>1, Invariance, PTL

-----------------------------------------------------------------------------
(* The insights.                                                           *)

Subject ==
  {"tania.throughput"} \cup {Kpis[i].id : i \in DOMAIN Kpis}
  \cup {Initiatives[i].id : i \in DOMAIN Initiatives} \cup {Risks[i].id : i \in DOMAIN Risks}
  \cup {EnterpriseDocuments[i].id : i \in DOMAIN EnterpriseDocuments}

Finding == [kind : InsightKind, subject : Subject, severity : DOMAIN Order]

Insight ==
  [by : Reader, kind : InsightKind, subject : Subject, severity : DOMAIN Order, at : Days,
   dismissed : BOOLEAN]

ScanRecord ==
  [stage : {"idle", "asking", "read", "done"}, by : Reader \cup {None}, at : Days,
   found : Seq(Finding \cup {None}), tasks : Seq(TaskKind), failed : BOOLEAN, shown : SUBSET Nat]

Readable(reader, subject) ==
  \E d \in DOMAIN EnterpriseDocuments :
    EnterpriseDocuments[d].id = subject /\ CanRead(reader, EnterpriseDocuments[d].acl)

(* A headline is a disclosure too.                                         *)
Discreet(n, reader) == n.kind = "NEW_DOCUMENT" => Readable(reader, n.subject)

Findings(reader) == {n \in Finding : Discreet(n, reader)} \cup {None}

IsList(list) ==
  /\ list = [i \in DOMAIN list |-> list[i]] /\ IsFiniteSet(DOMAIN list)
  /\ \A i \in DOMAIN list : i \in Nat /\ list[i] \in Insight /\ list[i].at <= day

(* Nobody has the same thing on the list twice.                            *)
EachOnce(list) ==
  \A i, j \in DOMAIN list :
    list[i].by = list[j].by /\ ~list[i].dismissed /\ ~list[j].dismissed
    /\ Alike(list[i], list[j]) => i = j

ScanInv(s) ==
  /\ scan[s] \in ScanRecord /\ scan[s].at <= day
  /\ scan[s].stage \in {"asking", "read"} => scan[s].by \in Reader
                                            /\ scan[s].found \in Seq(Findings(scan[s].by))
  /\ Len(scan[s].tasks) <= TaskWindow
  /\ IsFiniteSet(scan[s].shown) /\ Cardinality(scan[s].shown) <= ListLimit

InsightsInv ==
  /\ day \in Days /\ history \in [Reader -> Seq(TaskKind)]
  /\ IsList(known) /\ EachOnce(known)
  /\ \A i \in DOMAIN known : Discreet(known[i], known[i].by)
  /\ DOMAIN scan = Scanner /\ \A s \in Scanner : ScanInv(s)

-----------------------------------------------------------------------------
(* What the list is cut to. *)

(* Of a finite strict order, an element below which there is none.         *)
LEMMA LastOf ==
  ASSUME NEW S, IsFiniteSet(S), S # {}, NEW below \in [S -> SUBSET S],
         \A p \in S : p \notin below[p],
         \A p \in S : \A o \in below[p] : below[o] \subseteq below[p]
  PROVE  \E p \in S : below[p] = {}
<1> DEFINE T == {Cardinality(below[p]) : p \in S}
<1>1. \A p \in S : IsFiniteSet(below[p]) /\ Cardinality(below[p]) \in Nat
  BY FS_Subset, FS_CardinalityType
<1>2. T \subseteq Nat /\ T # {}
  BY <1>1
<1>3. \E x \in T : \A y \in T : ~(<<y, x>> \in OpToRel(<, Nat))
  BY <1>2, NatLessThanWellFounded, WFMin
<1>4. PICK x \in T : \A y \in T : ~(y < x)
  BY <1>2, <1>3 DEF OpToRel
<1>5. PICK p \in S : x = Cardinality(below[p])
  BY <1>4
<1>6. ASSUME NEW o \in below[p] PROVE FALSE
  <2>1. o \in S /\ below[o] \subseteq below[p] /\ below[o] # below[p]
    OBVIOUS
  <2>2. Cardinality(below[o]) <= Cardinality(below[p]) /\ Cardinality(below[o]) # Cardinality(below[p])
    BY <1>1, <2>1, FS_Subset
  <2>3. Cardinality(below[o]) < Cardinality(below[p]) /\ Cardinality(below[o]) \in T
    BY <1>1, <2>1, <2>2
  <2> QED  BY <1>4, <1>5, <2>3
<1> QED  BY <1>6

LEMMA MaxFacts ==
  ASSUME NEW S \in SUBSET Nat, IsFiniteSet(S), S # {}
  PROVE  Max(S) \in S /\ \A y \in S : y <= Max(S)
<1> DEFINE above == [x \in S |-> {y \in S : y > x}]
<1>1. \A x \in S : x \in Nat
  OBVIOUS
<1>2. above \in [S -> SUBSET S] /\ \A p \in S : p \notin above[p]
  BY <1>1
<1>3. \A p \in S : \A o \in above[p] : above[o] \subseteq above[p]
  <2>1. \A p, o, q \in S : q > o /\ o > p => q > p
    BY <1>1
  <2> QED  BY <2>1
<1> HIDE DEF above
<1>4. \E p \in S : above[p] = {}
  BY <1>2, <1>3, LastOf, Zenon
<1>5. PICK p \in S : above[p] = {}
  BY <1>4
<1>6. \A y \in S : p >= y
  BY <1>1, <1>5 DEF above
<1> QED  BY <1>6 DEF Max

(* The elements of a total order with fewer than limit before them are all *)
(* of them or as many as the limit, and come before the others.            *)
LEMMA TopFacts ==
  ASSUME NEW S, IsFiniteSet(S), NEW above \in [S -> SUBSET S], NEW limit \in Nat,
         \A p \in S : p \notin above[p],
         \A p \in S : \A o \in above[p] : above[o] \subseteq above[p],
         \A p, o \in S : p = o \/ p \in above[o] \/ o \in above[p],
         NEW top \in SUBSET S, \A p \in S : p \in top <=> Cardinality(above[p]) < limit
  PROVE  /\ IsFiniteSet(top) /\ Cardinality(top) \in Nat /\ Cardinality(top) <= limit
         /\ \A o \in S \ top : Cardinality(top) = limit /\ top \subseteq above[o]
<1>1. \A p \in S : IsFiniteSet(above[p]) /\ Cardinality(above[p]) \in Nat
  BY FS_Subset, FS_CardinalityType
<1>2. IsFiniteSet(top) /\ Cardinality(top) \in Nat
  BY FS_Subset, FS_CardinalityType
<1>3. Cardinality(top) <= limit
  <2>1. CASE top = {}
    BY <1>2, <2>1, FS_EmptySet
  <2>2. CASE top # {}
    <3> DEFINE below == [p \in top |-> {o \in top : p \in above[o]}]
    <3>1. below \in [top -> SUBSET top]
      OBVIOUS
    <3>2. \A p \in top : p \notin below[p]
      OBVIOUS
    <3>3. \A p \in top : \A o \in below[p] : below[o] \subseteq below[p]
      OBVIOUS
    <3> HIDE DEF below
    <3>4. \E p \in top : below[p] = {}
      BY <1>2, <2>2, <3>1, <3>2, <3>3, LastOf, Zenon
    <3>5. PICK p \in top : below[p] = {}
      BY <3>4
    <3>6. top \subseteq above[p] \cup {p}
      BY <3>5 DEF below
    <3>7. IsFiniteSet(above[p] \cup {p}) /\ Cardinality(above[p] \cup {p}) = Cardinality(above[p]) + 1
      BY <1>1, FS_AddElement
    <3>8. Cardinality(top) <= Cardinality(above[p] \cup {p})
      BY <3>6, <3>7, FS_Subset
    <3>9. Cardinality(above[p]) < limit /\ Cardinality(above[p]) \in Nat
      BY <1>1
    <3> QED  BY <1>2, <3>7, <3>8, <3>9
  <2> QED  BY <2>1, <2>2
<1>4. ASSUME NEW o \in S, o \notin top PROVE Cardinality(top) = limit /\ top \subseteq above[o]
  <2>1. \A p \in S \ top : Cardinality(above[p]) >= limit
    BY <1>1
  <2>2. ASSUME NEW p \in S \ top PROVE top \subseteq above[p]
    <3> SUFFICES ASSUME NEW i \in top, i \notin above[p] PROVE FALSE
      OBVIOUS
    <3>1. p \in above[i] /\ above[p] \subseteq above[i]
      OBVIOUS
    <3>2. Cardinality(above[p]) <= Cardinality(above[i])
      BY <1>1, <3>1, FS_Subset
    <3>3. Cardinality(above[p]) >= limit /\ Cardinality(above[i]) < limit
      BY <2>1
    <3> QED  BY <1>1, <3>2, <3>3
  <2>3. Cardinality(top) >= limit
    <3> DEFINE rest == S \ top
               before == [p \in rest |-> above[p] \cap rest]
    <3>1. IsFiniteSet(rest) /\ rest # {} /\ before \in [rest -> SUBSET rest]
      BY <1>4, FS_Subset
    <3>2. /\ \A p \in rest : p \notin before[p]
          /\ \A p \in rest : \A q \in before[p] : before[q] \subseteq before[p]
      OBVIOUS
    <3> HIDE DEF before, rest
    <3>3. \E p \in rest : before[p] = {}
      BY <3>1, <3>2, LastOf, Zenon
    <3>4. PICK p \in rest : before[p] = {}
      BY <3>3
    <3>5. above[p] \subseteq top /\ p \in S \ top
      BY <3>4 DEF before, rest
    <3>6. Cardinality(above[p]) <= Cardinality(top)
      BY <1>2, <3>5, FS_Subset
    <3> QED  BY <1>1, <1>2, <2>1, <3>5, <3>6
  <2> QED  BY <1>2, <1>3, <1>4, <2>2, <2>3
<1> QED  BY <1>2, <1>3, <1>4

-----------------------------------------------------------------------------
(* The list.                                                               *)

LEMMA LimitsType ==
  /\ Days \subseteq Nat /\ 0 \in Days /\ TaskWindow \in Nat \ {0} /\ ListLimit \in Nat \ {0}
  /\ \A d \in Days : d \in Nat
BY InsightsAssumption

LEMMA OrderFacts ==
  /\ DOMAIN Order = {"URGENT", "ATTENTION", "INFO"}
  /\ \A a \in DOMAIN Order : Order[a] \in Nat
  /\ \A a, b \in DOMAIN Order : Order[a] = Order[b] => a = b
BY DEF Order

(* The order of the list leaves no two insights side by side.              *)
LEMMA PrecedesFacts ==
  ASSUME NEW list, IsList(list)
  PROVE  /\ \A i \in DOMAIN list : ~Precedes(list, i, i)
         /\ \A i, j, k \in DOMAIN list :
              Precedes(list, i, j) /\ Precedes(list, j, k) => Precedes(list, i, k)
         /\ \A i, j \in DOMAIN list : i = j \/ Precedes(list, i, j) \/ Precedes(list, j, i)
<1>1. \A i \in DOMAIN list :
        /\ i \in Nat /\ list[i].at \in Nat /\ list[i].severity \in DOMAIN Order
        /\ Order[list[i].severity] \in Nat
  BY LimitsType, OrderFacts DEF IsList, Insight
<1>2. \A i, j \in DOMAIN list :
        Order[list[i].severity] = Order[list[j].severity] => list[i].severity = list[j].severity
  BY <1>1, OrderFacts
<1>3. \A i \in DOMAIN list : ~Precedes(list, i, i)
  BY <1>1 DEF Precedes
<1>4. ASSUME NEW i \in DOMAIN list, NEW j \in DOMAIN list, NEW k \in DOMAIN list,
             Precedes(list, i, j), Precedes(list, j, k)
      PROVE  Precedes(list, i, k)
  BY <1>1, <1>4 DEF Precedes
<1>5. ASSUME NEW i \in DOMAIN list, NEW j \in DOMAIN list
      PROVE  i = j \/ Precedes(list, i, j) \/ Precedes(list, j, i)
  BY <1>1, <1>2 DEF Precedes
<1> QED  BY <1>3, <1>4, <1>5

(* Who is shown less than the limit is shown everything; what is left out  *)
(* is no more severe.                                                      *)
LEMMA ShownFacts ==
  ASSUME NEW list, IsList(list), NEW reader
  PROVE  LET now == Current(reader, list)
             shown == Shown(reader, list)
         IN  /\ shown \subseteq now /\ shown \in SUBSET Nat
             /\ IsFiniteSet(shown) /\ Cardinality(shown) <= ListLimit
             /\ \A j \in now \ shown :
                  /\ Cardinality(shown) = ListLimit
                  /\ \A i \in shown : Order[list[i].severity] <= Order[list[j].severity]
<1> DEFINE now == Current(reader, list)
           shown == Shown(reader, list)
           above == [i \in now |-> {j \in now : Precedes(list, j, i)}]
<1>1. now \subseteq DOMAIN list /\ IsFiniteSet(now) /\ shown \subseteq now
  <2>1. now \subseteq DOMAIN list /\ shown \subseteq now
    BY DEF Current, Mine, Shown
  <2> QED  BY <2>1, FS_Subset DEF IsList
<1>2. above \in [now -> SUBSET now] /\ \A p \in now : p \notin above[p]
  BY <1>1, PrecedesFacts
<1>3. \A p \in now : \A o \in above[p] : above[o] \subseteq above[p]
  BY <1>1, PrecedesFacts
<1>4. \A p, o \in now : p = o \/ p \in above[o] \/ o \in above[p]
  BY <1>1, PrecedesFacts
<1>5. \A p \in now : p \in shown <=> Cardinality(above[p]) < ListLimit
  BY DEF Shown
<1>6. ASSUME NEW i \in now, NEW j \in now, i \in above[j]
      PROVE  Order[list[i].severity] <= Order[list[j].severity]
  <2>1. i \in DOMAIN list /\ j \in DOMAIN list /\ Precedes(list, i, j)
    BY <1>1, <1>6
  <2>2. \A k \in DOMAIN list : Order[list[k].severity] \in Nat
    BY OrderFacts DEF IsList, Insight
  <2> QED  BY <2>1, <2>2 DEF Precedes
<1>7. shown \in SUBSET Nat
  BY <1>1 DEF IsList
<1> HIDE DEF now, shown, above
<1>8. /\ IsFiniteSet(shown) /\ Cardinality(shown) \in Nat /\ Cardinality(shown) <= ListLimit
      /\ \A o \in now \ shown : Cardinality(shown) = ListLimit /\ shown \subseteq above[o]
  <2>1. shown \in SUBSET now /\ ListLimit \in Nat
    BY <1>1, LimitsType
  <2>2. IsFiniteSet(now) /\ above \in [now -> SUBSET now] /\ \A p \in now : p \notin above[p]
    BY <1>1, <1>2
  <2> QED  BY ONLY <1>3, <1>4, <1>5, <2>1, <2>2, TopFacts
<1>9. \A j \in now \ shown : \A i \in shown : Order[list[i].severity] <= Order[list[j].severity]
  BY <1>1, <1>6, <1>8
<1> QED  BY <1>1, <1>7, <1>8, <1>9 DEF now, shown

(* Where findings are kept: behind all there was.                          *)
EndOf(list) == Max({0} \cup DOMAIN list)

(* The insight a scan keeps of a finding that is new to its reader.        *)
KeptEntry(s, n) ==
  [by |-> s.by, kind |-> n.kind, subject |-> n.subject, severity |-> n.severity,
   at |-> s.at, dismissed |-> FALSE]

(* What keeping does to the list: every entry stays at its place as it     *)
(* was, and each new finding has a place of its own behind the last.       *)
KeptAsIs(s, list, found) ==
  LET fresh == News(s, list, found)
      after == Kept(s, list, found)
      last == EndOf(list)
  IN  /\ fresh \subseteq DOMAIN found /\ \A k \in fresh : k \in Nat /\ k >= 1
      /\ DOMAIN after = DOMAIN list \cup {last + k : k \in fresh}
      /\ IsFiniteSet(DOMAIN after) /\ DOMAIN after \in SUBSET Nat
      /\ after = [i \in DOMAIN after |-> after[i]]
      /\ \A i \in DOMAIN list : after[i] = list[i]
      /\ \A k \in fresh : after[last + k] = KeptEntry(s, found[k])

LEMMA EndFacts ==
  ASSUME NEW list, IsList(list)
  PROVE  EndOf(list) \in Nat /\ \A i \in DOMAIN list : i \in Nat /\ i <= EndOf(list)
<1> DEFINE places == {0} \cup DOMAIN list
<1>1. places \in SUBSET Nat /\ places # {}
  BY DEF IsList
<1>2. IsFiniteSet(places)
  <2>1. places = DOMAIN list \cup {0} /\ IsFiniteSet(DOMAIN list)
    BY DEF IsList
  <2> HIDE DEF places
  <2> QED  BY <2>1, FS_AddElement
<1>3. EndOf(list) = Max(places) /\ \A i \in DOMAIN list : i \in places
  BY DEF EndOf
<1> HIDE DEF places
<1> QED  BY <1>1, <1>2, <1>3, MaxFacts

LEMMA KeptPlaces ==
  ASSUME NEW list, IsList(list), NEW s, NEW S, NEW found \in Seq(S)
  PROVE  KeptAsIs(s, list, found)
<1> DEFINE fresh == News(s, list, found)
           after == Kept(s, list, found)
           last == EndOf(list)
           new == {last + k : k \in fresh}
<1>1. last \in Nat /\ \A i \in DOMAIN list : i \in Nat /\ i <= last
  BY EndFacts
<1>2. fresh \subseteq DOMAIN found /\ DOMAIN found = 1..Len(found) /\ Len(found) \in Nat
  BY LenProperties DEF News
<1>3. \A k \in fresh : k \in Nat /\ k >= 1
  BY <1>2
<1>4. /\ DOMAIN after = DOMAIN list \cup new /\ after = [i \in DOMAIN after |-> after[i]]
      /\ \A i \in DOMAIN list : after[i] = list[i]
      /\ \A i \in new : after[i] = IF i \in DOMAIN list THEN list[i] ELSE KeptEntry(s, found[i - last])
  BY DEF Kept, EndOf, KeptEntry
<1>5. IsFiniteSet(new) /\ new \in SUBSET Nat
  <2>1. new \in SUBSET (last + 1 .. last + Len(found))
    BY <1>1, <1>2
  <2>2. IsFiniteSet(last + 1 .. last + Len(found))
    BY <1>1, <1>2, FS_Interval
  <2>3. new \in SUBSET Nat
    BY <1>1, <1>3
  <2> QED  BY <2>1, <2>2, <2>3, FS_Subset
<1>6. IsFiniteSet(DOMAIN after) /\ DOMAIN after \in SUBSET Nat
  <2>1. IsFiniteSet(DOMAIN list) /\ DOMAIN list \in SUBSET Nat
    BY DEF IsList
  <2> HIDE DEF new
  <2> QED  BY <1>4, <1>5, <2>1, FS_Union
<1>7. ASSUME NEW k \in fresh PROVE after[last + k] = KeptEntry(s, found[k])
  <2>1. last + k \notin DOMAIN list /\ last + k \in new /\ (last + k) - last = k
    BY <1>1, <1>3
  <2> QED  BY <1>4, <2>1
<1> QED  BY <1>2, <1>3, <1>4, <1>6, <1>7 DEF KeptAsIs, fresh, after, last

(* What is kept of a scan is new to its reader and readable, and leaves    *)
(* nothing out.                                                            *)
LEMMA KeptFacts ==
  ASSUME NEW list, IsList(list), EachOnce(list),
         \A i \in DOMAIN list : Discreet(list[i], list[i].by),
         day \in Nat, NEW s, s.by \in Reader, s.at \in Days, s.at <= day,
         NEW found \in Seq(Findings(s.by))
  PROVE  LET after == Kept(s, list, found) IN
         /\ IsList(after) /\ EachOnce(after)
         /\ \A i \in DOMAIN after : Discreet(after[i], after[i].by)
         /\ \A k \in DOMAIN found : found[k] # None =>
              \E i \in Current(s.by, after) : Alike(after[i], found[k])
<1> DEFINE fresh == News(s, list, found)
           after == Kept(s, list, found)
           last == EndOf(list)
           EntryOf(k) == KeptEntry(s, found[k])
<1>1. /\ last \in Nat /\ \A i \in DOMAIN list : i <= last
      /\ fresh \subseteq DOMAIN found /\ \A k \in fresh : k \in Nat /\ k >= 1
      /\ DOMAIN after = DOMAIN list \cup {last + k : k \in fresh}
      /\ IsFiniteSet(DOMAIN after) /\ DOMAIN after \in SUBSET Nat
      /\ after = [i \in DOMAIN after |-> after[i]]
      /\ \A i \in DOMAIN list : after[i] = list[i]
      /\ \A k \in fresh : after[last + k] = EntryOf(k)
  <2>1. last \in Nat /\ \A i \in DOMAIN list : i <= last
    BY EndFacts
  <2>2. KeptAsIs(s, list, found)
    <3>1. \E S : found \in Seq(S)
      OBVIOUS
    <3> QED  BY <3>1, KeptPlaces, Zenon
  <2> QED  BY <2>1, <2>2 DEF KeptAsIs
<1>2. \A k \in DOMAIN found : found[k] # None =>
        found[k] \in Finding /\ Discreet(found[k], s.by)
  BY LenProperties DEF Findings
<1>3. \A k \in fresh : /\ found[k] # None /\ ~AlreadyKnown(found[k], s.by, list)
                       /\ \A j \in DOMAIN found : j < k /\ found[j] # None => ~Alike(found[j], found[k])
  BY DEF News
<1>4. \A k \in DOMAIN found :
        /\ found[k] # None /\ ~AlreadyKnown(found[k], s.by, list)
        /\ \A j \in DOMAIN found : j < k /\ found[j] # None => ~Alike(found[j], found[k])
        => k \in fresh
  BY DEF News
<1> HIDE DEF fresh, after, last
<1> DEFINE Becoming(e) == e \in Insight /\ e.at <= day /\ Discreet(e, e.by)
<1>5. \A k \in fresh : Becoming(EntryOf(k))
  BY <1>1, <1>2, <1>3 DEF Insight, Finding, Discreet, KeptEntry
<1>6. ASSUME NEW i \in DOMAIN after
      PROVE  i \in DOMAIN list \/ \E k \in fresh : i = last + k /\ after[i] = EntryOf(k)
  <2> HIDE DEF EntryOf
  <2> QED  BY <1>1
<1>7. ASSUME NEW i \in DOMAIN after PROVE i \in Nat /\ Becoming(after[i])
  <2>1. \A j \in DOMAIN list : Becoming(list[j])
    BY DEF IsList
  <2> HIDE DEF Becoming, EntryOf
  <2> QED  BY <1>1, <1>5, <1>6, <2>1
<1>8. IsList(after) /\ \A i \in DOMAIN after : Discreet(after[i], after[i].by)
  BY <1>1, <1>7 DEF IsList
<1>9. EachOnce(after)
  <2>1. ASSUME NEW i \in DOMAIN list, NEW k \in fresh, list[i].by = s.by, ~list[i].dismissed,
               Alike(list[i], EntryOf(k))
        PROVE  FALSE
    BY <1>3, <2>1 DEF AlreadyKnown, Current, Mine, Alike, KeptEntry
  <2>2. ASSUME NEW j \in fresh, NEW k \in fresh, Alike(EntryOf(j), EntryOf(k)) PROVE j = k
    <3>1. ~(j < k) /\ ~(k < j)
      BY <1>1, <1>3, <2>2 DEF Alike, KeptEntry
    <3> QED  BY <1>1, <3>1
  <2>3. ASSUME NEW i \in DOMAIN after, NEW j \in DOMAIN after, after[i].by = after[j].by,
               ~after[i].dismissed, ~after[j].dismissed, Alike(after[i], after[j])
        PROVE  i = j
    <3>1. \A k \in fresh : EntryOf(k).by = s.by
      BY DEF KeptEntry
    <3>2. Alike(after[j], after[i])
      BY <2>3 DEF Alike
    <3> HIDE DEF EntryOf
    <3>3. CASE i \in DOMAIN list /\ j \in DOMAIN list
      BY <1>1, <2>3, <3>3 DEF EachOnce
    <3>4. CASE i \in DOMAIN list /\ \E k \in fresh : j = last + k /\ after[j] = EntryOf(k)
      BY <1>1, <2>1, <2>3, <3>1, <3>4
    <3>5. CASE j \in DOMAIN list /\ \E k \in fresh : i = last + k /\ after[i] = EntryOf(k)
      BY <1>1, <2>1, <2>3, <3>1, <3>2, <3>5
    <3>6. CASE /\ \E k \in fresh : i = last + k /\ after[i] = EntryOf(k)
               /\ \E k \in fresh : j = last + k /\ after[j] = EntryOf(k)
      BY <2>2, <2>3, <3>6
    <3> QED  BY <1>6, <3>3, <3>4, <3>5, <3>6
  <2> QED  BY <2>3 DEF EachOnce
<1>10. ASSUME NEW k \in DOMAIN found, found[k] # None
       PROVE  \E i \in Current(s.by, after) : Alike(after[i], found[k])
  <2>1. CASE AlreadyKnown(found[k], s.by, list)
    BY <1>1, <2>1 DEF AlreadyKnown, Current, Mine
  <2>2. CASE ~AlreadyKnown(found[k], s.by, list)
    <3> DEFINE same == {j \in DOMAIN found : found[j] # None /\ Alike(found[j], found[k])}
    <3>1. same \subseteq Nat /\ same # {}
      BY <1>10, LenProperties DEF Alike
    <3>2. \E x \in same : \A y \in same : ~(<<y, x>> \in OpToRel(<, Nat))
      BY <3>1, NatLessThanWellFounded, WFMin
    <3>3. PICK x \in same : \A y \in same : ~(y < x)
      BY <3>1, <3>2 DEF OpToRel
    <3>4. ~AlreadyKnown(found[x], s.by, list)
      BY <2>2 DEF AlreadyKnown, Alike
    <3>5. \A j \in DOMAIN found : j < x /\ found[j] # None => ~Alike(found[j], found[x])
      BY <3>3 DEF Alike
    <3>6. x \in fresh
      BY <1>4, <3>4, <3>5
    <3>7. last + x \in DOMAIN after /\ after[last + x] = EntryOf(x)
      BY <1>1, <3>6
    <3>8. last + x \in Current(s.by, after) /\ Alike(after[last + x], found[k])
      BY <3>7 DEF Current, Mine, Alike, KeptEntry
    <3> QED  BY <3>8
  <2> QED  BY <2>1, <2>2
<1> QED  BY <1>8, <1>9, <1>10 DEF after

-----------------------------------------------------------------------------
(* What is found.                                                          *)

LEMMA SeqOf ==
  ASSUME NEW S, NEW n \in Nat, NEW f \in [1..n -> S]
  PROVE  f \in Seq(S)
OBVIOUS

LEMMA NoticedFacts ==
  ASSUME NEW r, NEW kind \in InsightKind, NEW id \in Subject, NEW severity \in DOMAIN Order,
         kind = "NEW_DOCUMENT" => Readable(r, id)
  PROVE  Noticed(kind, id, severity) \in Findings(r)
BY DEF Noticed, Findings, Finding, Discreet

LEMMA UrgencyFacts == \A urgent : Urgency(urgent) \in DOMAIN Order
BY OrderFacts DEF Urgency

(* Whatever the sources hold, and whatever day it is.                      *)
LEMMA FoundFacts ==
  ASSUME NEW r, NEW now
  PROVE  KpiAnomalies \o Overdue(now) \o ProjectRisks(now) \o NewDocuments(r, now) \in Seq(Findings(r))
<1>1. KpiAnomalies \in Seq(Findings(r))
  <2>1. DOMAIN Kpis = 1..Len(Kpis) /\ Len(Kpis) \in Nat
    BY InsightsAssumption
  <2>2. \A i \in DOMAIN Kpis : \A s \in DOMAIN Order : Noticed("KPI_ANOMALY", Kpis[i].id, s) \in Findings(r)
    BY NoticedFacts DEF Subject, InsightKind
  <2>3. KpiAnomalies \in [DOMAIN Kpis -> Findings(r)]
    BY <2>2, UrgencyFacts DEF KpiAnomalies, Findings
  <2> QED  BY <2>1, <2>3, SeqOf
<1>2. Overdue(now) \in Seq(Findings(r))
  <2>1. DOMAIN Initiatives = 1..Len(Initiatives) /\ Len(Initiatives) \in Nat
    BY InsightsAssumption
  <2>2. \A i \in DOMAIN Initiatives : \A s \in DOMAIN Order :
          Noticed("OVERDUE_TASK", Initiatives[i].id, s) \in Findings(r)
    BY NoticedFacts DEF Subject, InsightKind
  <2>3. Overdue(now) \in [DOMAIN Initiatives -> Findings(r)]
    BY <2>2, UrgencyFacts DEF Overdue, Findings
  <2> QED  BY <2>1, <2>3, SeqOf
<1>3. ProjectRisks(now) \in Seq(Findings(r))
  <2>1. DOMAIN Risks = 1..Len(Risks) /\ Len(Risks) \in Nat
    BY InsightsAssumption
  <2>2. \A i \in DOMAIN Risks : \A s \in DOMAIN Order :
          Noticed("PROJECT_RISK", Risks[i].id, s) \in Findings(r)
    BY NoticedFacts DEF Subject, InsightKind
  <2>3. ProjectRisks(now) \in [DOMAIN Risks -> Findings(r)]
    BY <2>2, UrgencyFacts DEF ProjectRisks, Findings
  <2> QED  BY <2>1, <2>3, SeqOf
<1>4. NewDocuments(r, now) \in Seq(Findings(r))
  <2>1. DOMAIN EnterpriseDocuments = 1..Len(EnterpriseDocuments) /\ Len(EnterpriseDocuments) \in Nat
    BY InsightsAssumption
  <2>2. \A i \in DOMAIN EnterpriseDocuments : CanRead(r, EnterpriseDocuments[i].acl) =>
          Noticed("NEW_DOCUMENT", EnterpriseDocuments[i].id, "INFO") \in Findings(r)
    <3> SUFFICES ASSUME NEW i \in DOMAIN EnterpriseDocuments, CanRead(r, EnterpriseDocuments[i].acl)
                 PROVE  Noticed("NEW_DOCUMENT", EnterpriseDocuments[i].id, "INFO") \in Findings(r)
      OBVIOUS
    <3>1. Readable(r, EnterpriseDocuments[i].id)
      BY DEF Readable
    <3> QED  BY <3>1, NoticedFacts, OrderFacts DEF Subject, InsightKind
  <2>3. NewDocuments(r, now) \in [DOMAIN EnterpriseDocuments -> Findings(r)]
    BY <2>2 DEF NewDocuments, Findings
  <2> QED  BY <2>1, <2>3, SeqOf
<1> HIDE DEF Findings
<1> QED  BY <1>1, <1>2, <1>3, <1>4, ConcatProperties

LEMMA PerformanceFacts ==
  ASSUME NEW r, NEW tasks
  PROVE  PerformanceChanges(tasks) \in Seq(Findings(r))
<1>1. \A s \in DOMAIN Order : Noticed("PERFORMANCE_CHANGE", "tania.throughput", s) \in Findings(r)
  BY NoticedFacts DEF Subject, InsightKind
<1>2. \A s \in DOMAIN Order :
        <<Noticed("PERFORMANCE_CHANGE", "tania.throughput", s)>> \in Seq(Findings(r))
  BY <1>1
<1>3. <<>> \in Seq(Findings(r))
  OBVIOUS
<1>4. PerformanceChanges(tasks) = <<>> \/
      \E urgent : PerformanceChanges(tasks) =
                    <<Noticed("PERFORMANCE_CHANGE", "tania.throughput", Urgency(urgent))>>
  BY DEF PerformanceChanges, Count
<1> QED  BY <1>2, <1>3, <1>4, UrgencyFacts

LEMMA LatestFacts ==
  ASSUME NEW S, NEW tasks \in Seq(S)
  PROVE  Latest(tasks) \in Seq(S) /\ Len(Latest(tasks)) <= TaskWindow
<1> DEFINE n == IF Len(tasks) <= TaskWindow THEN Len(tasks) ELSE TaskWindow
<1>1. n \in Nat /\ n <= Len(tasks) /\ n <= TaskWindow
  BY LimitsType, LenProperties
<1>2. \A i \in 1..n : tasks[i] \in S
  BY <1>1, LenProperties
<1>3. Latest(tasks) = SubSeq(tasks, 1, n)
  BY DEF Latest
<1> HIDE DEF n
<1>4. SubSeq(tasks, 1, n) \in Seq(S) /\ Len(SubSeq(tasks, 1, n)) = IF 1 <= n THEN n - 1 + 1 ELSE 0
  BY <1>1, <1>2, SubSeqProperties
<1> QED  BY <1>1, <1>3, <1>4

-----------------------------------------------------------------------------
(* The quality numbers. *)

LEMMA DisjointFacts ==
  ASSUME NEW S, IsFiniteSet(S), NEW T, IsFiniteSet(T), S \cap T = {}
  PROVE  IsFiniteSet(S \cup T) /\ Cardinality(S \cup T) = Cardinality(S) + Cardinality(T)
<1>1. Cardinality(S) \in Nat /\ Cardinality(T) \in Nat /\ Cardinality(S \cap T) = 0
  BY FS_CardinalityType, FS_EmptySet
<1>2. /\ IsFiniteSet(S \cup T)
      /\ Cardinality(S \cup T) = Cardinality(S) + Cardinality(T) - Cardinality(S \cap T)
  BY FS_Union
<1> QED  BY <1>1, <1>2

(* Of a history, the tasks that came to that end.                          *)
Ended(tasks, statuses) == {i \in DOMAIN tasks : tasks[i].status \in statuses}

LEMMA EndedFacts ==
  ASSUME NEW S, NEW tasks \in Seq(S)
  PROVE  LET done == Cardinality(Ended(tasks, {"COMPLETED"}))
             failed == Cardinality(Ended(tasks, {"FAILED", "BLOCKED"}))
             cancelled == Cardinality(Ended(tasks, {"CANCELLED"}))
         IN  /\ done \in Nat /\ failed \in Nat /\ cancelled \in Nat
             /\ Cardinality(Ended(tasks, {"COMPLETED", "FAILED", "BLOCKED"})) = done + failed
             /\ Cardinality(Ended(tasks, {"FAILED", "BLOCKED", "CANCELLED"})) = failed + cancelled
             /\ Cardinality(Ended(tasks, {"COMPLETED", "FAILED", "BLOCKED", "CANCELLED"}))
                  = done + failed + cancelled
<1> DEFINE D == Ended(tasks, {"COMPLETED"})
           F == Ended(tasks, {"FAILED", "BLOCKED"})
           C == Ended(tasks, {"CANCELLED"})
<1>1. DOMAIN tasks = 1..Len(tasks) /\ Len(tasks) \in Nat
  BY LenProperties
<1>2. IsFiniteSet(DOMAIN tasks)
  BY <1>1, FS_Interval
<1>3. D \in SUBSET DOMAIN tasks /\ F \in SUBSET DOMAIN tasks /\ C \in SUBSET DOMAIN tasks
  BY DEF Ended
<1>4. D \cap F = {} /\ F \cap C = {} /\ (D \cup F) \cap C = {}
  BY DEF Ended
<1>5. /\ Ended(tasks, {"COMPLETED", "FAILED", "BLOCKED"}) = D \cup F
      /\ Ended(tasks, {"FAILED", "BLOCKED", "CANCELLED"}) = F \cup C
      /\ Ended(tasks, {"COMPLETED", "FAILED", "BLOCKED", "CANCELLED"}) = (D \cup F) \cup C
  BY DEF Ended
<1> HIDE DEF D, F, C
<1>6. IsFiniteSet(D) /\ IsFiniteSet(F) /\ IsFiniteSet(C)
  BY <1>2, <1>3, FS_Subset
<1>7. Cardinality(D) \in Nat /\ Cardinality(F) \in Nat /\ Cardinality(C) \in Nat
  BY <1>6, FS_CardinalityType
<1>8. IsFiniteSet(D \cup F) /\ Cardinality(D \cup F) = Cardinality(D) + Cardinality(F)
  BY <1>4, <1>6, <1>7, DisjointFacts
<1>9. Cardinality(F \cup C) = Cardinality(F) + Cardinality(C)
  BY <1>4, <1>6, <1>7, DisjointFacts
<1>10. Cardinality((D \cup F) \cup C) = Cardinality(D) + Cardinality(F) + Cardinality(C)
  BY <1>4, <1>6, <1>7, <1>8, DisjointFacts
<1> QED  BY <1>5, <1>7, <1>8, <1>9, <1>10 DEF D, F, C

(* The detector's alarm and the two numbers it is about, in those counts.  *)
LEMMA MeasuredFacts ==
  ASSUME NEW tasks
  PROVE  LET done == Cardinality(Ended(tasks, {"COMPLETED"}))
             failed == Cardinality(Ended(tasks, {"FAILED", "BLOCKED"}))
             short == Cardinality(Ended(tasks, {"COMPLETED", "FAILED", "BLOCKED"}))
             unfinished == Cardinality(Ended(tasks, {"FAILED", "BLOCKED", "CANCELLED"}))
             settled == Cardinality(Ended(tasks, {"COMPLETED", "FAILED", "BLOCKED", "CANCELLED"}))
         IN  /\ PerformanceChanges(tasks) # <<>> => ~(short < 4) /\ ~(10 * failed < 3 * short)
             /\ Measured(tasks)["taskCompletion"] = [part |-> done, sample |-> settled]
             /\ Measured(tasks)["failureRate"] = [part |-> unfinished, sample |-> settled]
             /\ Count(tasks, Settled) = settled
<1>1. Count(tasks, Settled) = Cardinality(Ended(tasks, {"COMPLETED", "FAILED", "BLOCKED", "CANCELLED"}))
  BY DEF Count, Settled, Ended
<1>2. Count(tasks, LAMBDA t : Settled(t) /\ t.status = "COMPLETED") = Cardinality(Ended(tasks, {"COMPLETED"}))
  <2>1. {i \in DOMAIN tasks : Settled(tasks[i]) /\ tasks[i].status = "COMPLETED"} = Ended(tasks, {"COMPLETED"})
    BY DEF Settled, Ended
  <2> QED  BY <2>1 DEF Count
<1>3. Count(tasks, LAMBDA t : Settled(t) /\ t.status # "COMPLETED")
        = Cardinality(Ended(tasks, {"FAILED", "BLOCKED", "CANCELLED"}))
  <2>1. {i \in DOMAIN tasks : Settled(tasks[i]) /\ tasks[i].status # "COMPLETED"}
          = Ended(tasks, {"FAILED", "BLOCKED", "CANCELLED"})
    BY DEF Settled, Ended
  <2> QED  BY <2>1 DEF Count
<1>4. Measured(tasks)["taskCompletion"] = Ratio(tasks, LAMBDA t : t.status = "COMPLETED", Settled)
  BY DEF Measured, Ratio, Count
<1>5. Measured(tasks)["failureRate"] = Ratio(tasks, LAMBDA t : t.status # "COMPLETED", Settled)
  BY DEF Measured, Ratio, Count
<1>6. PerformanceChanges(tasks) # <<>> =>
        LET failed == Cardinality(Ended(tasks, {"FAILED", "BLOCKED"}))
            short == Cardinality(Ended(tasks, {"COMPLETED", "FAILED", "BLOCKED"}))
        IN  ~(short < 4) /\ ~(10 * failed < 3 * short)
  BY DEF PerformanceChanges, Count, Ended
<1> QED  BY <1>1, <1>2, <1>3, <1>4, <1>5, <1>6 DEF Ratio, Count

(* An alarm about tasks is one the numbers raise too or call too few.      *)
LEMMA Backed ==
  ASSUME NEW tasks \in Seq(TaskKind)
  PROVE  LET report == Evaluate(tasks) IN
         /\ PerformanceChanges(tasks) # <<>> =>
              report.insufficientData \/ "failureRate" \in report.failing
         /\ report.insufficientData => report.failing \cap {"taskCompletion", "failureRate"} = {}
         /\ "taskCompletion" \in report.failing => "failureRate" \in report.failing
<1> DEFINE done == Cardinality(Ended(tasks, {"COMPLETED"}))
           failed == Cardinality(Ended(tasks, {"FAILED", "BLOCKED"}))
           cancelled == Cardinality(Ended(tasks, {"CANCELLED"}))
           settled == done + failed + cancelled
           completion == [part |-> done, sample |-> settled]
           failure == [part |-> failed + cancelled, sample |-> settled]
           report == Evaluate(tasks)
<1>1. done \in Nat /\ failed \in Nat /\ cancelled \in Nat
  BY EndedFacts
<1>2. /\ Measured(tasks)["taskCompletion"] = completion /\ Measured(tasks)["failureRate"] = failure
      /\ Count(tasks, Settled) = settled
      /\ PerformanceChanges(tasks) # <<>> => ~(done + failed < 4) /\ ~(10 * failed < 3 * (done + failed))
  BY EndedFacts, MeasuredFacts
<1>3. /\ report.insufficientData <=> settled < 5
      /\ "taskCompletion" \in report.failing <=> ~Healthy("taskCompletion", completion)
      /\ "failureRate" \in report.failing <=> ~Healthy("failureRate", failure)
  BY <1>2 DEF Evaluate, Metric, MinSample
<1> HIDE DEF done, failed, cancelled, report
<1>4. /\ ~Healthy("taskCompletion", completion) <=> ~(settled < 5) /\ ~(100 * done >= 80 * settled)
      /\ ~Healthy("failureRate", failure) <=>
           ~(settled < 5) /\ ~(100 * (failed + cancelled) <= 15 * settled)
  BY DEF Healthy, Threshold, LowerIsBetter, Metric, MinSample
<1>5. PerformanceChanges(tasks) # <<>> => report.insufficientData \/ "failureRate" \in report.failing
  BY <1>1, <1>2, <1>3, <1>4
<1>6. report.insufficientData => "taskCompletion" \notin report.failing /\ "failureRate" \notin report.failing
  BY <1>3, <1>4
<1>7. "taskCompletion" \in report.failing => "failureRate" \in report.failing
  BY <1>1, <1>3, <1>4
<1> QED  BY <1>5, <1>6, <1>7 DEF report

-----------------------------------------------------------------------------
(* Every step keeps what a reader relies on.                               *)

LEMMA NoScanFacts ==
  /\ NoScan \in ScanRecord /\ NoScan.stage = "idle" /\ NoScan.at = 0 /\ NoScan.tasks = <<>>
  /\ NoScan.shown = {} /\ NoScan.by = None /\ NoScan.found = <<>>
BY LimitsType DEF NoScan, ScanRecord

LEMMA NothingShown ==
  Len(<<>>) <= TaskWindow /\ IsFiniteSet({}) /\ Cardinality({}) <= ListLimit
<1>1. Len(<<>>) = 0 /\ Cardinality({}) = 0 /\ IsFiniteSet({})
  BY FS_EmptySet
<1>2. 0 <= TaskWindow /\ 0 <= ListLimit
  BY LimitsType
<1> QED  BY <1>1, <1>2

LEMMA InsightsStart == ASSUME InsightsInit PROVE InsightsInv
<1>1. day \in Days /\ \A s \in Scanner : scan[s] = NoScan
  BY LimitsType DEF InsightsInit
<1>2. history \in [Reader -> Seq(TaskKind)]
  BY DEF InsightsInit
<1>3. IsList(known) /\ EachOnce(known) /\ \A i \in DOMAIN known : Discreet(known[i], known[i].by)
  <2>1. known = [i \in {} |-> 0] /\ DOMAIN known = {}
    BY DEF InsightsInit
  <2>2. known = [i \in DOMAIN known |-> known[i]]
    BY <2>1
  <2> QED  BY <2>1, <2>2, FS_EmptySet DEF IsList, EachOnce
<1>4. \A s \in Scanner : ScanInv(s)
  <2>1. day = 0 /\ 0 <= day
    BY DEF InsightsInit
  <2> QED  BY <1>1, <2>1, NoScanFacts, NothingShown DEF ScanInv
<1> QED  BY <1>1, <1>2, <1>3, <1>4 DEF InsightsInv, InsightsInit

(* One scanner's step leaves the others' requests alone.                   *)
LEMMA OneScans ==
  ASSUME InsightsInv, NEW s \in Scanner, NEW r, scan' = [scan EXCEPT ![s] = r],
         UNCHANGED day, ScanInv(s)'
  PROVE  scan'[s] = r /\ DOMAIN scan' = Scanner /\ \A t \in Scanner : ScanInv(t)'
<1>1. scan'[s] = r /\ DOMAIN scan' = Scanner /\ \A t \in Scanner : t # s => scan'[t] = scan[t]
  BY DEF InsightsInv
<1>2. ASSUME NEW t \in Scanner, t # s PROVE ScanInv(t)'
  BY <1>1, <1>2 DEF InsightsInv, ScanInv
<1> QED  BY <1>1, <1>2

LEMMA StartKeeps ==
  ASSUME InsightsInv, NEW s \in Scanner, NEW r \in Reader, StartScan(s, r)
  PROVE  InsightsInv'
<1> DEFINE found == KpiAnomalies \o Overdue(day) \o ProjectRisks(day) \o NewDocuments(r, day)
           request == [NoScan EXCEPT !.stage = "asking", !.by = r, !.at = day, !.found = found]
<1>1. scan' = [scan EXCEPT ![s] = request] /\ UNCHANGED <<day, history, known>>
  BY DEF StartScan
<1>2. found \in Seq(Findings(r)) /\ found \in Seq(Finding \cup {None})
  <2>1. found \in Seq(Findings(r))
    BY FoundFacts
  <2>2. Findings(r) \subseteq Finding \cup {None}
    BY DEF Findings
  <2> HIDE DEF found
  <2> QED  BY <2>1, <2>2, SeqMonotonic
<1> HIDE DEF found
<1>3. /\ request \in ScanRecord /\ request.stage = "asking" /\ request.by = r /\ request.at = day
      /\ request.found = found /\ request.tasks = <<>> /\ request.shown = {}
  BY <1>2, NoScanFacts DEF ScanRecord, InsightsInv
<1> HIDE DEF request
<1>4. scan'[s] = request
  BY <1>1 DEF InsightsInv
<1>5. day \in Nat /\ day <= day
  BY LimitsType DEF InsightsInv
<1>6. ScanInv(s)'
  BY <1>1, <1>2, <1>3, <1>4, <1>5, NothingShown DEF ScanInv
<1> QED  BY <1>1, <1>6, OneScans DEF InsightsInv, IsList

LEMMA ReadKeeps ==
  ASSUME InsightsInv, NEW s \in Scanner, ReadTasks(s)
  PROVE  InsightsInv'
<1>1. UNCHANGED <<day, history, known>> /\ ScanInv(s) /\ scan[s].by \in Reader
  BY DEF ReadTasks, InsightsInv, ScanInv
<1>2. ASSUME NEW r, scan' = [scan EXCEPT ![s] = r], r \in ScanRecord, r.stage = "read",
             r.by = scan[s].by, r.at = scan[s].at, r.found = scan[s].found, r.shown = scan[s].shown,
             Len(r.tasks) <= TaskWindow
      PROVE  InsightsInv'
  <2>1. scan'[s] = r
    BY <1>2 DEF InsightsInv
  <2>2. ScanInv(s)'
    BY <1>1, <1>2, <2>1 DEF ScanInv, ReadTasks
  <2> QED  BY <1>1, <1>2, <2>2, OneScans DEF InsightsInv, IsList
<1>3. history[scan[s].by] \in Seq(TaskKind)
  BY <1>1 DEF InsightsInv
<1>4. CASE scan' = [scan EXCEPT ![s].stage = "read", ![s].tasks = Latest(history[scan[s].by])]
  <2> DEFINE tasks == Latest(history[scan[s].by])
             r == [scan[s] EXCEPT !.stage = "read", !.tasks = tasks]
  <2>1. tasks \in Seq(TaskKind) /\ Len(tasks) <= TaskWindow
    BY <1>3, LatestFacts
  <2>2. scan' = [scan EXCEPT ![s] = r]
    BY <1>4 DEF InsightsInv
  <2> HIDE DEF tasks
  <2>3. /\ r \in ScanRecord /\ r.stage = "read" /\ r.by = scan[s].by /\ r.at = scan[s].at
        /\ r.found = scan[s].found /\ r.shown = scan[s].shown /\ r.tasks = tasks
    BY <1>1, <2>1 DEF ScanInv, ScanRecord
  <2> HIDE DEF r
  <2> QED  BY <1>2, <2>1, <2>2, <2>3
<1>5. CASE scan' = [scan EXCEPT ![s].stage = "read", ![s].failed = TRUE]
  <2> DEFINE r == [scan[s] EXCEPT !.stage = "read", !.failed = TRUE]
  <2>1. scan' = [scan EXCEPT ![s] = r]
    BY <1>5 DEF InsightsInv
  <2>2. /\ r \in ScanRecord /\ r.stage = "read" /\ r.by = scan[s].by /\ r.at = scan[s].at
        /\ r.found = scan[s].found /\ r.shown = scan[s].shown /\ r.tasks = scan[s].tasks
    BY <1>1 DEF ScanInv, ScanRecord
  <2> HIDE DEF r
  <2> QED  BY <1>1, <1>2, <2>1, <2>2 DEF ScanInv
<1> QED  BY <1>4, <1>5 DEF ReadTasks

LEMMA JoinFacts ==
  ASSUME NEW S, NEW a \in Seq(S), NEW b \in Seq(S)
  PROVE  \A k \in DOMAIN a : k \in DOMAIN (a \o b) /\ (a \o b)[k] = a[k]
OBVIOUS

(* What a scan keeps when its answers are in.                              *)
LEMMA FinishFacts ==
  ASSUME InsightsInv, NEW s \in Scanner, Finish(s)
  PROVE  LET found == scan[s].found \o PerformanceChanges(scan[s].tasks) IN
         /\ known' = Kept(scan[s], known, found) /\ scan[s].by \in Reader
         /\ IsList(known') /\ EachOnce(known')
         /\ \A i \in DOMAIN known' : Discreet(known'[i], known'[i].by)
         /\ \A k \in DOMAIN found : found[k] # None =>
              \E i \in Current(scan[s].by, known') : Alike(known'[i], found[k])
         /\ \A k \in DOMAIN scan[s].found : k \in DOMAIN found /\ found[k] = scan[s].found[k]
<1> DEFINE r == scan[s].by
           found == scan[s].found \o PerformanceChanges(scan[s].tasks)
<1>1. /\ scan[s].found \in Seq(Findings(r)) /\ r \in Reader
      /\ scan[s].at \in Days /\ scan[s].at <= day
  BY DEF Finish, InsightsInv, ScanInv, ScanRecord
<1>2. found \in Seq(Findings(r))
  BY <1>1, PerformanceFacts, ConcatProperties
<1>3. \A k \in DOMAIN scan[s].found : k \in DOMAIN found /\ found[k] = scan[s].found[k]
  <2>1. PerformanceChanges(scan[s].tasks) \in Seq(Findings(r))
    BY PerformanceFacts
  <2> QED  BY <1>1, <2>1, JoinFacts, Zenon
<1>4. known' = Kept(scan[s], known, found)
  BY DEF Finish
<1>5. day \in Nat /\ IsList(known) /\ EachOnce(known)
      /\ \A i \in DOMAIN known : Discreet(known[i], known[i].by)
  BY LimitsType DEF InsightsInv
<1> HIDE DEF found
<1>6. /\ IsList(known') /\ EachOnce(known')
      /\ \A i \in DOMAIN known' : Discreet(known'[i], known'[i].by)
      /\ \A k \in DOMAIN found : found[k] # None =>
           \E i \in Current(r, known') : Alike(known'[i], found[k])
  BY <1>1, <1>2, <1>4, <1>5, KeptFacts
<1> QED  BY <1>1, <1>3, <1>4, <1>6 DEF found

LEMMA FinishKeeps ==
  ASSUME InsightsInv, NEW s \in Scanner, Finish(s)
  PROVE  InsightsInv'
<1> DEFINE shown == Shown(scan[s].by, known')
           r == [NoScan EXCEPT !.stage = "done", !.shown = shown]
<1>1. scan' = [scan EXCEPT ![s] = r] /\ UNCHANGED <<day, history>>
  BY DEF Finish
<1>2. /\ IsList(known') /\ EachOnce(known')
      /\ \A i \in DOMAIN known' : Discreet(known'[i], known'[i].by)
  BY FinishFacts
<1>3. shown \in SUBSET Nat /\ IsFiniteSet(shown) /\ Cardinality(shown) <= ListLimit
  BY <1>2, ShownFacts
<1> HIDE DEF shown
<1>4. /\ r \in ScanRecord /\ r.stage = "done" /\ r.at = 0 /\ r.shown = shown /\ r.tasks = <<>>
  BY <1>3, NoScanFacts DEF ScanRecord
<1> HIDE DEF r
<1>5. scan'[s] = r
  BY <1>1 DEF InsightsInv
<1>6. day \in Nat /\ day >= 0
  BY LimitsType DEF InsightsInv
<1>7. ScanInv(s)'
  BY <1>1, <1>3, <1>4, <1>5, <1>6, NothingShown DEF ScanInv
<1>8. IsList(known)'
  BY <1>1, <1>2 DEF IsList
<1> QED  BY <1>1, <1>2, <1>7, <1>8, OneScans DEF InsightsInv

(* Only a finished scan adds to the list; a reader strikes out an entry.   *)
LEMMA DismissKeeps ==
  ASSUME InsightsInv, NEW r \in Reader, NEW i \in DOMAIN known, Dismiss(r, i)
  PROVE  InsightsInv'
<1> DEFINE e == [known[i] EXCEPT !.dismissed = TRUE]
<1>1. known' = [known EXCEPT ![i] = e] /\ UNCHANGED <<day, history, scan>>
  BY DEF Dismiss
<1>2. known[i] \in Insight /\ known[i].at <= day /\ Discreet(known[i], known[i].by)
  BY DEF InsightsInv, IsList
<1>3. /\ e \in Insight /\ e.dismissed /\ e.by = known[i].by /\ e.kind = known[i].kind
      /\ e.subject = known[i].subject /\ e.at = known[i].at
  BY <1>2 DEF Insight
<1>4. Discreet(e, e.by)
  BY <1>2, <1>3 DEF Discreet
<1> HIDE DEF e
<1>5. /\ DOMAIN known' = DOMAIN known /\ known' = [j \in DOMAIN known' |-> known'[j]]
      /\ known'[i] = e /\ \A j \in DOMAIN known : j # i => known'[j] = known[j]
  BY <1>1
<1>6. IsList(known)' /\ (\A j \in DOMAIN known : Discreet(known[j], known[j].by))'
  BY <1>1, <1>2, <1>3, <1>4, <1>5 DEF InsightsInv, IsList, Discreet, Readable
<1>7. EachOnce(known)'
  BY <1>3, <1>5 DEF InsightsInv, EachOnce, Alike
<1>8. \A s \in Scanner : ScanInv(s)'
  BY <1>1 DEF InsightsInv, ScanInv
<1> QED  BY <1>1, <1>6, <1>7, <1>8 DEF InsightsInv

LEMMA TaskEndsKeeps ==
  ASSUME InsightsInv, NEW r \in Reader, NEW t \in TaskKind, TaskEnds(r, t)
  PROVE  InsightsInv'
<1>1. UNCHANGED <<day, known, scan>>
  BY DEF TaskEnds
<1>2. <<t>> \o history[r] \in Seq(TaskKind)
  BY DEF InsightsInv
<1>3. history' \in [Reader -> Seq(TaskKind)]
  BY <1>2 DEF InsightsInv, TaskEnds
<1>4. \A s \in Scanner : ScanInv(s)'
  BY <1>1 DEF InsightsInv, ScanInv
<1> QED  BY <1>1, <1>3, <1>4 DEF InsightsInv, IsList

LEMMA TomorrowKeeps == ASSUME InsightsInv, Tomorrow PROVE InsightsInv'
<1>1. day \in Nat /\ day' \in Nat /\ day' \in Days /\ day <= day' /\ UNCHANGED <<history, known, scan>>
  BY LimitsType DEF InsightsInv, Tomorrow
<1>2. IsList(known)'
  <2>1. \A i \in DOMAIN known : known[i].at \in Nat /\ known[i].at <= day'
    BY <1>1, LimitsType DEF InsightsInv, IsList, Insight
  <2> QED  BY <1>1, <2>1 DEF InsightsInv, IsList
<1>3. ASSUME NEW s \in Scanner PROVE ScanInv(s)'
  <2>1. ScanInv(s) /\ scan[s].at \in Nat
    BY LimitsType DEF InsightsInv, ScanInv, ScanRecord
  <2>2. scan[s].at <= day'
    BY <1>1, <2>1 DEF ScanInv
  <2> QED  BY <1>1, <2>1, <2>2 DEF ScanInv
<1> QED  BY <1>1, <1>2, <1>3 DEF InsightsInv

LEMMA InsightsStep == ASSUME InsightsInv, [InsightsNext]_insightVars PROVE InsightsInv'
<1>1. CASE UNCHANGED insightVars
  <2>1. UNCHANGED <<day, history, known, scan>>
    BY <1>1 DEF insightVars
  <2>2. \A s \in Scanner : ScanInv(s)'
    BY <2>1 DEF InsightsInv, ScanInv
  <2> QED  BY <2>1, <2>2 DEF InsightsInv, IsList
<1>2. ASSUME NEW s \in Scanner, NEW r \in Reader, StartScan(s, r) PROVE InsightsInv'
  BY <1>2, StartKeeps
<1>3. ASSUME NEW s \in Scanner, ReadTasks(s) PROVE InsightsInv'
  BY <1>3, ReadKeeps
<1>4. ASSUME NEW s \in Scanner, Finish(s) PROVE InsightsInv'
  BY <1>4, FinishKeeps
<1>5. ASSUME NEW r \in Reader, NEW i \in DOMAIN known, Dismiss(r, i) PROVE InsightsInv'
  BY <1>5, DismissKeeps
<1>6. ASSUME NEW r \in Reader, NEW t \in TaskKind, TaskEnds(r, t) PROVE InsightsInv'
  BY <1>6, TaskEndsKeeps
<1>7. CASE Tomorrow
  BY <1>7, TomorrowKeeps
<1> QED  BY <1>1, <1>2, <1>3, <1>4, <1>5, <1>6, <1>7 DEF InsightsNext

(* index.ts:42: what the service holds and what its scans have in hand:    *)
(* nobody has a thing on the list twice or a headline of a document they   *)
(* may not read, whichever scans overlap.                                  *)
THEOREM InsightsInvariance == InsightsSpec => []InsightsInv
<1>1. InsightsInit => InsightsInv
  BY InsightsStart
<1>2. InsightsInv /\ [InsightsNext]_insightVars => InsightsInv'
  BY InsightsStep
<1> QED  BY <1>1, <1>2, PTL DEF InsightsSpec

(* index.ts:45, task-store.ts: the list, the requests and the history keep *)
(* their shape; no list is longer than its limit.                          *)
THEOREM ListKeepsShape == InsightsSpec => []InsightsTypeOK
<1>1. InsightsInv => InsightsTypeOK
  <2> SUFFICES ASSUME InsightsInv PROVE InsightsTypeOK
    OBVIOUS
  <2>1. \A r \in Reader : \A i \in DOMAIN history[r] : history[r][i] \in TaskKind
    BY LenProperties DEF InsightsInv
  <2>2. \A i \in DOMAIN known :
          /\ known[i].by \in Reader /\ known[i].kind \in InsightKind
          /\ known[i].severity \in DOMAIN Order
          /\ known[i].at \in Days /\ known[i].at <= day /\ known[i].dismissed \in BOOLEAN
    BY DEF InsightsInv, IsList, Insight
  <2>3. \A s \in Scanner :
          /\ scan[s].stage \in {"idle", "asking", "read", "done"}
          /\ Cardinality(scan[s].shown) <= ListLimit /\ Len(scan[s].tasks) <= TaskWindow
    BY DEF InsightsInv, ScanInv, ScanRecord
  <2> QED  BY <2>1, <2>2, <2>3 DEF InsightsTypeOK, InsightsInv
<1> QED  BY <1>1, InsightsInvariance, PTL

(* index.ts:75, evaluator.ts:34: a scan answers with its reader's own      *)
(* insights, each once, none forgotten and the most severe first, and with *)
(* no headline its reader may not read; and an alarm about tasks never     *)
(* contradicts the quality numbers.                                        *)
THEOREM InsightsAreTrue == InsightsSpec => InsightsAreHonest
<1> DEFINE Tells(s) ==
      LET r == scan[s].by
          now == Current(r, known')
          shown == scan'[s].shown
      IN  /\ shown \subseteq now
          /\ \A i, j \in now : Seen(i) = Seen(j) => i = j
          /\ \A k \in DOMAIN scan[s].found : scan[s].found[k] # None => \E i \in now :
               Seen(i) = [kind |-> scan[s].found[k].kind, subject |-> scan[s].found[k].subject]
          /\ \A j \in now \ shown :
               /\ Cardinality(shown) = ListLimit
               /\ \A i \in shown : Order[known'[i].severity] <= Order[known'[j].severity]
          /\ \A i \in now : known'[i].kind = "NEW_DOCUMENT" =>
               \E d \in DOMAIN EnterpriseDocuments :
                 /\ EnterpriseDocuments[d].id = known'[i].subject
                 /\ CanRead(r, EnterpriseDocuments[d].acl)
<1>1. ASSUME InsightsInv, InsightsNext, NEW s \in Scanner,
             scan[s].stage = "read", scan'[s].stage = "done"
      PROVE  Finish(s)
  <2>1. ASSUME NEW t \in Scanner, NEW r, scan' = [scan EXCEPT ![t] = r], r.stage # "done" PROVE FALSE
    BY <1>1, <2>1 DEF InsightsInv
  <2>2. ASSUME NEW t \in Scanner, NEW r \in Reader, StartScan(t, r) PROVE FALSE
    <3> DEFINE request == [NoScan EXCEPT !.stage = "asking", !.by = r, !.at = day,
                  !.found = KpiAnomalies \o Overdue(day) \o ProjectRisks(day) \o NewDocuments(r, day)]
    <3>1. request.stage = "asking" /\ scan' = [scan EXCEPT ![t] = request]
      BY <2>2 DEF StartScan, NoScan
    <3> HIDE DEF request
    <3> QED  BY <2>1, <3>1
  <2>3. ASSUME NEW t \in Scanner, ReadTasks(t) PROVE FALSE
    BY <1>1, <2>3 DEF ReadTasks, InsightsInv, ScanInv, ScanRecord
  <2>4. ASSUME NEW t \in Scanner, Finish(t), t # s PROVE FALSE
    BY <1>1, <2>4 DEF Finish, InsightsInv
  <2>5. ASSUME UNCHANGED scan PROVE FALSE
    BY <1>1, <2>5
  <2>6. ASSUME NEW r \in Reader, NEW i, Dismiss(r, i) PROVE FALSE
    BY <2>5, <2>6 DEF Dismiss
  <2>7. ASSUME NEW r \in Reader, NEW t \in TaskKind, TaskEnds(r, t) PROVE FALSE
    BY <2>5, <2>7 DEF TaskEnds
  <2>8. ~Tomorrow
    BY <2>5 DEF Tomorrow
  <2> QED  BY <1>1, <2>2, <2>3, <2>4, <2>6, <2>7, <2>8 DEF InsightsNext
<1>2. ASSUME InsightsInv, NEW s \in Scanner, Finish(s) PROVE Tells(s)
  <2> DEFINE r == scan[s].by
             now == Current(r, known')
             shown == Shown(r, known')
             found == scan[s].found \o PerformanceChanges(scan[s].tasks)
  <2>1. /\ IsList(known') /\ EachOnce(known')
        /\ \A i \in DOMAIN known' : Discreet(known'[i], known'[i].by)
        /\ \A k \in DOMAIN found : found[k] # None => \E i \in now : Alike(known'[i], found[k])
        /\ \A k \in DOMAIN scan[s].found : k \in DOMAIN found /\ found[k] = scan[s].found[k]
    BY <1>2, FinishFacts
  <2>2. scan'[s].shown = shown
    BY <1>2 DEF Finish, InsightsInv, NoScan
  <2>3. now \subseteq DOMAIN known' /\ \A i \in now : known'[i].by = r /\ ~known'[i].dismissed
    BY DEF Current, Mine
  <2>4. /\ shown \subseteq now
        /\ \A j \in now \ shown :
             /\ Cardinality(shown) = ListLimit
             /\ \A i \in shown : Order[known'[i].severity] <= Order[known'[j].severity]
    BY <2>1, ShownFacts
  <2> HIDE DEF now, shown, found
  <2>5. \A i, j \in now : Seen(i) = Seen(j) => i = j
    BY <2>1, <2>3 DEF EachOnce, Alike, Seen
  <2>6. \A k \in DOMAIN scan[s].found : scan[s].found[k] # None => \E i \in now :
          Seen(i) = [kind |-> scan[s].found[k].kind, subject |-> scan[s].found[k].subject]
    BY <2>1 DEF Alike, Seen
  <2>7. \A i \in now : known'[i].kind = "NEW_DOCUMENT" => Readable(r, known'[i].subject)
    BY <2>1, <2>3 DEF Discreet
  <2> QED  BY <2>2, <2>4, <2>5, <2>6, <2>7 DEF now, Readable
<1>3. InsightsInv => AlarmsAreBacked
  <2> SUFFICES ASSUME InsightsInv, NEW s \in Scanner PROVE
        LET report == Evaluate(scan[s].tasks) IN
        /\ PerformanceChanges(scan[s].tasks) # <<>> =>
             report.insufficientData \/ "failureRate" \in report.failing
        /\ report.insufficientData => report.failing \cap {"taskCompletion", "failureRate"} = {}
        /\ "taskCompletion" \in report.failing => "failureRate" \in report.failing
    BY DEF AlarmsAreBacked
  <2>1. scan[s].tasks \in Seq(TaskKind)
    BY DEF InsightsInv, ScanInv, ScanRecord
  <2> QED  BY <2>1, Backed
<1> DEFINE Told == \A s \in Scanner : scan[s].stage = "read" /\ scan'[s].stage = "done" => Tells(s)
<1>4. InsightsInv /\ [InsightsNext]_insightVars => [Told]_insightVars
  <2> HIDE DEF Tells
  <2> QED  BY <1>1, <1>2
<1>5. InsightsSpec => [][Told]_insightVars
  <2> HIDE DEF Told
  <2> QED  BY <1>4, InsightsInvariance, PTL DEF InsightsSpec
<1>6. InsightsSpec => EveryScanTells
  BY <1>5 DEF EveryScanTells
<1>7. InsightsSpec => []AlarmsAreBacked
  BY <1>3, InsightsInvariance, PTL
<1> QED  BY <1>6, <1>7 DEF InsightsAreHonest
=============================================================================
