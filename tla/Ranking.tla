------------------------------- MODULE Ranking -------------------------------
(* How passages are ranked and whether they carry an answer: fusion of the *)
(* dense and the keyword index, reranking, grounding and confidence.       *)
(* An index entry is [doc, part, text, acl]: which passage, and the        *)
(* revisions its text and its access list come from. A query gives each    *)
(* passage its signals in percent; scores are in ten-thousandths, rounded  *)
(* down.                                                                   *)
EXTENDS Integers, Sequences, FiniteSetsExt

CandidateMultiplier == 4

(* The best k of S: which of equal ones the cut keeps is left open.        *)
Cuts(S, k, score) ==
  {T \in kSubset(Min({k, Cardinality(S)}), S) : \A x \in T, y \in S \ T : score[x] >= score[y]}

Signals(query, e) == query.signals[<<e.doc, e.part, e.text>>]

SameChunk(e, f) == e.doc = f.doc /\ e.part = f.part

Similar(query, S) == [e \in S |-> Signals(query, e).vector]
Matching(query, S) == [e \in S |-> Signals(query, e).lexical]

(* fuse: entries are merged by chunk id; of two, the dense index's stays.  *)
Fused(query, dense, sparse) ==
  LET alone == {f \in sparse : \A e \in dense : ~SameChunk(e, f)}
      Keyword(e) == {Signals(query, f).lexical : f \in {f \in sparse : SameChunk(e, f)}}
  IN  [e \in dense \cup alone |->
         (IF e \in dense THEN 55 * Signals(query, e).vector ELSE 0)
         + 45 * Max({0} \cup Keyword(e))]

(* Second pass: coverage of the question, headings, a phrase, freshness. A *)
(* question without a term of its own is not reranked.                     *)
Rescored(query, first) ==
  [e \in DOMAIN first |->
     LET s == Signals(query, e)
     IN  first[e] + (IF query.terms
                     THEN 35 * s.coverage + 15 * s.heading + 10 * s.phrase + 5 * s.freshness
                     ELSE 0)]

(* The best in order; that the code orders equals by chunk id is left out. *)
Sorted(best, score) ==
  {s \in [1..Cardinality(best) -> best] :
     \A i, j \in DOMAIN s : i < j => s[i] # s[j] /\ score[s[i]] >= score[s[j]]}

(* The rankings: the best by the second pass, in order.                    *)
Rankings(query, first, limit) ==
  LET score == Rescored(query, first)
  IN  {[i \in DOMAIN s |-> [entry |-> s[i], score |-> score[s[i]]]] :
         s \in UNION {Sorted(best, score) : best \in Cuts(DOMAIN first, limit, score)}}

-----------------------------------------------------------------------------
MinCoverage == 20
Clamp(x) == Max({0, Min({10000, x})})

Documents(ranked) == {ranked[i].entry.doc : i \in DOMAIN ranked}

(* What the reranker measured of the best passage; nothing without a term. *)
Coverage(query, ranked) == IF query.terms THEN Signals(query, ranked[1].entry).coverage ELSE 0

(* Mutant of Grounded: the best passage carries the answer, however weak.  *)
GroundedAnyhow(query, ranked, minScore) == ranked # <<>>

(* An answer may assert facts when the best passage covers enough of the   *)
(* question and scores high enough.                                        *)
Grounded(query, ranked, minScore) ==
  /\ ranked # <<>>
  /\ Coverage(query, ranked) >= MinCoverage
  /\ ranked[1].score >= minScore

(* How sure: the best match, its lead and how many documents agree, held   *)
(* back on a question of common words.                                     *)
Confidence(ranked, informativeness) ==
  LET top == ranked[1].score
      second == IF Len(ranked) > 1 THEN ranked[2].score ELSE 0
      margin == IF top = 0 THEN 0 ELSE Min({10000, ((top - second) * 10000) \div top})
      agreement == Min({10000, (Cardinality(Documents(ranked)) * 10000) \div 3})
      raw == Clamp((6 * Clamp((top * 10) \div 8) + 2 * margin + 2 * agreement) \div 10)
  IN  Clamp((raw * informativeness) \div 100)

ConfidenceLevel(grounded, score) ==
  IF ~grounded THEN "NONE"
  ELSE IF score >= 7000 THEN "HIGH" ELSE IF score >= 4500 THEN "MEDIUM" ELSE "LOW"
=============================================================================
