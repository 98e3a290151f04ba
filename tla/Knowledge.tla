------------------------------ MODULE Knowledge ------------------------------
(***************************************************************************)
(* The knowledge pipeline of the portal: a document store, a dense and a   *)
(* keyword index filled by ingestions that wait between their steps, and   *)
(* searches that wait between theirs. The first search has the shipped     *)
(* corpus indexed; every later one waits for that same promise.            *)
(*                                                                         *)
(* A document has revisions, each with a kind, an access list and a number *)
(* of passages. What embeddings make of a text is given with each query;   *)
(* what the model writes is chosen by the environment.                     *)
(***************************************************************************)
EXTENDS Permissions, Ranking

CONSTANTS
  Doc,          \* documents of the instance
  MaxRevision,  \* bound: revisions of a document
  Content,      \* [doc, revision] -> [kind, acl, parts]
  Seed,         \* the corpus, in order: each at revision 1
  Writes,       \* ingestions and removals asked for: [op, doc, revision, by]
  MaxWrites,    \* bound: writes beside the seeding
  Requests,     \* names of the requests
  Asked,        \* request -> [kind, asker, query, limit, ceiling, kinds]
  MaxSearches,  \* bound: searches
  MinScore,     \* TANIA_RAG_MIN_SCORE, in ten-thousandths
  Marks,        \* markers the model may write
  MaxFaults     \* bound: calls to the embedding or the model that fail

Revision == 1..MaxRevision
Writer == 0..MaxWrites
Search == 1..MaxSearches

(* Revisions have passages under an access list, and requests are valid.   *)
ASSUME KnowledgeAssumption ==
  /\ {MaxRevision, MaxWrites, MaxSearches, MinScore, MaxFaults} \subseteq Nat
  /\ MaxRevision > 0 /\ Seed \in Seq(Doc) /\ Seed # <<>> /\ Marks \subseteq Nat
  /\ \A d \in Doc, r \in Revision :
       /\ Content[<<d, r>>].parts \in Nat
       /\ Content[<<d, r>>].acl.classification \in Classification
  /\ \A write \in Writes :
       write.op \in {"ingest", "remove"} /\ write.doc \in Doc /\ write.revision \in Revision
  /\ Requests # {}
  /\ \A r \in Requests :
       /\ Asked[r].limit \in 1..20
       /\ {Asked[r].ceiling, Asked[r].asker.clearance} \subseteq Classification

VARIABLES
  store,    \* the revision held of each document, 0 for none
  vectors,  \* entries of the dense index
  lexical,  \* entries of the keyword index
  seeding,  \* the promise of ensureIndexed: its state and what is left to do
  writer,   \* the writes; writer 0 is the seeding
  search,   \* the searches
  tidy,     \* no write overlapped another or failed so far, for the properties
  retired,  \* revisions replaced or removed by a finished write, likewise
  faults

vars == <<store, vectors, lexical, seeding, writer, search, tidy, retired, faults>>
index == <<store, vectors, lexical>>

(* chunkDocument: the passages of a revision.                              *)
Entries(doc, text, acl) ==
  {[doc |-> doc, part |-> p, text |-> text, acl |-> acl] : p \in 1..Content[<<doc, text>>].parts}

Idle == [step |-> "idle", op |-> "ingest", doc |-> Seed[1], revision |-> 1,
         listed |-> {}, built |-> {}]

NoSearch == [step |-> "none", request |-> CHOOSE r \in Requests : TRUE, gone |-> {},
             dense |-> {}, ranked |-> <<>>, grounded |-> FALSE, cited |-> <<>>,
             level |-> "NONE", composed |-> FALSE, markers |-> {}]

Init ==
  /\ store = [d \in Doc |-> 0]
  /\ vectors = {} /\ lexical = {}
  /\ seeding = [state |-> "none", left |-> Seed]
  /\ writer = [w \in Writer |-> Idle]
  /\ search = [s \in Search |-> NoSearch]
  /\ tidy = TRUE /\ retired = {} /\ faults = 0

Fault == faults < MaxFaults /\ faults' = faults + 1

-----------------------------------------------------------------------------
(* IngestionService. Each action ends where the code awaits.               *)

Active(w) == writer[w].step \in {"embedding", "upserting", "dropping", "listing", "reading"}
Alone(w) == \A v \in Writer \ {w} : ~Active(v) /\ (v = 0 => seeding.state # "running")

(* What is written again is no longer replaced or removed.                 *)
Begin(w, op, doc, revision, step) ==
  LET again == IF op = "ingest" THEN {<<doc, revision>>} ELSE {} IN
  /\ store' = [store EXCEPT ![doc] = IF op = "ingest" THEN revision ELSE 0]
  /\ writer' = [writer EXCEPT ![w] = [Idle EXCEPT !.step = step, !.op = op, !.doc = doc,
                                                  !.revision = revision]]
  /\ tidy' = (tidy /\ Alone(w))
  /\ retired' = retired \ again
  /\ search' = [s \in Search |-> [search[s] EXCEPT !.gone = @ \ again]]

Fresh(w) == w # 0 /\ writer[w].step = "idle" /\ \A v \in 1..(w - 1) : writer[v].step # "idle"

Ingest(w, write) ==
  /\ Fresh(w) /\ write.op = "ingest" /\ Holds(write.by, "knowledge:write")
  /\ Begin(w, "ingest", write.doc, write.revision, "embedding")
  /\ UNCHANGED <<vectors, lexical, seeding, faults>>

Withdraw(w, write) ==
  /\ Fresh(w) /\ write.op = "remove" /\ Holds(write.by, "knowledge:write")
  /\ Begin(w, "remove", write.doc, write.revision, "dropping")
  /\ UNCHANGED <<vectors, lexical, seeding, faults>>

(* ingestAll: the next document of the corpus. *)
SeedNext ==
  /\ seeding.state = "running" /\ ~Active(0) /\ seeding.left # <<>>
  /\ Begin(0, "ingest", Head(seeding.left), 1, "embedding")
  /\ seeding' = [seeding EXCEPT !.left = Tail(@)]
  /\ UNCHANGED <<vectors, lexical, faults>>

SeedDone ==
  /\ seeding.state = "running" /\ ~Active(0) /\ seeding.left = <<>>
  /\ seeding' = [seeding EXCEPT !.state = "ready"]
  /\ UNCHANGED <<index, writer, search, tidy, retired, faults>>

(* Mutant of Without: what was indexed of the document stays.              *)
WithoutNothing(entries, doc) == entries

Without(entries, doc) == {e \in entries : e.doc # doc}

Step(w, step) == writer' = [writer EXCEPT ![w].step = step]

(* The embeddings are there: the old passages leave the dense index.       *)
Embedded(w) ==
  /\ writer[w].step = "embedding"
  /\ vectors' = Without(vectors, writer[w].doc)
  /\ Step(w, "upserting")
  /\ UNCHANGED <<store, lexical, seeding, search, tidy, retired, faults>>

(* The store keeps the new revision, both indexes the old one; a failure   *)
(* while seeding is what every later search is told.                       *)
EmbeddingFails(w) ==
  /\ writer[w].step = "embedding"
  /\ Fault
  /\ Step(w, "failed")
  /\ tidy' = FALSE
  /\ seeding' = IF w = 0 THEN [seeding EXCEPT !.state = "failed"] ELSE seeding
  /\ UNCHANGED <<index, search, retired>>

(* Mutant of Upserted: push without the filter.                            *)
UpsertedBeside(entries, new) == entries \cup new

Upserted(entries, new) == {e \in entries : \A f \in new : ~SameChunk(e, f)} \cup new

Upsert(w) ==
  /\ writer[w].step = "upserting"
  /\ vectors' = Upserted(vectors, Entries(writer[w].doc, writer[w].revision, writer[w].revision))
  /\ Step(w, "listing")
  /\ UNCHANGED <<store, lexical, seeding, search, tidy, retired, faults>>

Drop(w) ==
  /\ writer[w].step = "dropping"
  /\ vectors' = Without(vectors, writer[w].doc)
  /\ Step(w, "listing")
  /\ UNCHANGED <<store, lexical, seeding, search, tidy, retired, faults>>

(* rebuildLexical: the descriptors are listed, then each document is read, *)
(* then all entries of the keyword index are replaced.                     *)
List(w) ==
  /\ writer[w].step = "listing"
  /\ writer' = [writer EXCEPT ![w].step = "reading",
                              ![w].listed = {<<d, store[d]>> : d \in {d \in Doc : store[d] # 0}},
                              ![w].built = {}]
  /\ UNCHANGED <<index, seeding, search, tidy, retired, faults>>

(* A passage gets the text read now under the descriptor listed before; a  *)
(* document gone meanwhile is skipped.                                     *)
Read(w) ==
  /\ writer[w].step = "reading"
  /\ \E l \in writer[w].listed :
       writer' = [writer EXCEPT ![w].listed = @ \ {l},
                                ![w].built = @ \cup IF store[l[1]] = 0 THEN {}
                                                    ELSE Entries(l[1], store[l[1]], l[2])]
  /\ UNCHANGED <<index, seeding, search, tidy, retired, faults>>

Superseded(w) ==
  {writer[w].doc} \X (Revision \ (IF writer[w].op = "ingest" THEN {writer[w].revision} ELSE {}))

Build(w) ==
  /\ writer[w].step = "reading" /\ writer[w].listed = {}
  /\ lexical' = writer[w].built
  /\ writer' = [writer EXCEPT ![w] = IF w = 0 THEN Idle ELSE [@ EXCEPT !.step = "done", !.built = {}]]
  /\ retired' = (retired \ ({writer[w].doc} \X Revision)) \cup Superseded(w)
  /\ UNCHANGED <<store, vectors, seeding, search, tidy, faults>>

Write(w) == Embedded(w) \/ EmbeddingFails(w) \/ Upsert(w) \/ Drop(w) \/ List(w) \/ Read(w) \/ Build(w)

-----------------------------------------------------------------------------
(* RagService and HybridRetriever.                                         *)

Set(s, new) == search' = [search EXCEPT ![s] = new]
At(s, step) == search[s].step = step
Ends(s, step) == Set(s, [search[s] EXCEPT !.step = step])

(* The first search starts the seeding, every search waits for it.         *)
Start(s, r) ==
  /\ At(s, "none") /\ \A t \in 1..(s - 1) : ~At(t, "none")
  /\ Set(s, [NoSearch EXCEPT !.step = "waiting", !.request = r,
                              !.gone = IF seeding.state = "ready" THEN retired ELSE {}])
  /\ seeding' = IF seeding.state = "none" THEN [seeding EXCEPT !.state = "running"] ELSE seeding
  /\ tidy' = (tidy /\ (seeding.state = "none" => \A w \in Writer : ~Active(w)))
  /\ UNCHANGED <<index, writer, retired, faults>>

(* The promise is kept as it settled: after a failed seeding every search  *)
(* of the process fails.                                                   *)
Admit(s) ==
  /\ At(s, "waiting") /\ seeding.state \in {"ready", "failed"}
  /\ Ends(s, IF seeding.state = "ready" THEN "embedding" ELSE "error")
  /\ UNCHANGED <<index, seeding, writer, tidy, retired, faults>>

Request(s) == Asked[search[s].request]

MayRead(s, entries) ==
  LET r == Request(s)
  IN  {e \in entries : Visible(r.asker, r.ceiling, Content[<<e.doc, e.acl>>].acl)}

Candidates(s) == Request(s).limit * CandidateMultiplier

(* The embedding of the question is there: the dense index is scanned.     *)
Dense(s) ==
  /\ At(s, "embedding")
  /\ \E dense \in Cuts(MayRead(s, vectors), Candidates(s),
                        Similar(Request(s).query, MayRead(s, vectors))) :
       Set(s, [search[s] EXCEPT !.step = "ranking", !.dense = dense])
  /\ UNCHANGED <<index, seeding, writer, tidy, retired, faults>>

OfKind(r, S) == {e \in S : r.kinds = {} \/ Content[<<e.doc, e.acl>>].kind \in r.kinds}

(* The keyword index is scanned; both lists, cut already, are fused, asked *)
(* for their kind, cut again and reranked.                                 *)
Rank(s) ==
  /\ At(s, "ranking")
  /\ LET r == Request(s)
         match == Matching(r.query, MayRead(s, lexical))
     IN  \E sparse \in Cuts({e \in MayRead(s, lexical) : match[e] > 0}, Candidates(s), match) :
           LET first == Fused(r.query, search[s].dense, sparse)
           IN  \E kept \in Cuts(OfKind(r, DOMAIN first), Candidates(s), first) :
                 \E ranked \in Rankings(r.query, [e \in kept |-> first[e]], r.limit) :
                   Set(s, [search[s] EXCEPT !.step = "grounding", !.dense = {}, !.ranked = ranked])
  /\ UNCHANGED <<index, seeding, writer, tidy, retired, faults>>

(* How far the words of the question tell documents apart; nothing while   *)
(* nothing is indexed.                                                     *)
Informativeness(query) == IF lexical = {} THEN 0 ELSE query.informativeness

(* Grounding, confidence and citations; an answer is only composed of a    *)
(* grounded retrieval.                                                     *)
Ground(s) ==
  /\ At(s, "grounding")
  /\ LET r == Request(s)
         ranked == search[s].ranked
         grounded == Grounded(r.query, ranked, MinScore)
     IN  Set(s, [search[s] EXCEPT
                   !.step = IF grounded /\ r.kind = "answer" THEN "composing" ELSE "answered",
                   !.grounded = grounded,
                   !.cited = IF grounded THEN ranked ELSE <<>>,
                   !.level = IF grounded
                             THEN ConfidenceLevel(TRUE, Confidence(ranked, Informativeness(r.query)))
                             ELSE "NONE"])
  /\ UNCHANGED <<index, seeding, writer, tidy, retired, faults>>

(* enforceCitationMarkers strips what points at no citation, of one or two *)
(* digits.                                                                 *)
Supported(markers, citations) == {m \in markers : m \in DOMAIN citations \/ m > 99}

Compose(s) ==
  /\ At(s, "composing")
  /\ \E markers \in SUBSET Marks :
       Set(s, [search[s] EXCEPT !.step = "answered", !.composed = TRUE,
                                !.markers = Supported(markers, search[s].cited)])
  /\ UNCHANGED <<index, seeding, writer, tidy, retired, faults>>

(* The embedding or the model fails under a search.                        *)
SearchFails(s) ==
  /\ At(s, "embedding") \/ At(s, "composing")
  /\ Fault
  /\ Ends(s, "error")
  /\ UNCHANGED <<index, seeding, writer, tidy, retired>>

Answer(s) == Admit(s) \/ Dense(s) \/ Rank(s) \/ Ground(s) \/ Compose(s)

Next ==
  \/ SeedNext \/ SeedDone
  \/ \E w \in Writer, write \in Writes : Ingest(w, write) \/ Withdraw(w, write)
  \/ \E w \in Writer : Write(w)
  \/ \E s \in Search, r \in Requests : Start(s, r)
  \/ \E s \in Search : Answer(s) \/ SearchFails(s)

Spec == Init /\ [][Next]_vars
=============================================================================
