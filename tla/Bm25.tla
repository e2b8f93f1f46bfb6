-------------------------------- MODULE Bm25 --------------------------------
(***************************************************************************)
(* The sign of a BM25 score (retrieval/postings.py): which chunks a query  *)
(* can find at all.  The logarithms of the term weights are never taken:   *)
(* a weight is positive, zero or negative as a fraction is above, at or    *)
(* below one.  docs is the corpus the statistics were built from, a        *)
(* sequence of chunks; Terms gives the terms that stand in a chunk.        *)
(***************************************************************************)
EXTENDS Integers, Sequences, FiniteSets, FiniteSetsExt

CONSTANT Terms

DocumentFrequency(docs, t) ==
  Cardinality({i \in 1..Len(docs) : t \in Terms[docs[i]]})

Vocabulary(docs) == UNION {Terms[docs[i]] : i \in 1..Len(docs)}

Sign(n) == IF n > 0 THEN 1 ELSE IF n < 0 THEN -1 ELSE 0

(* The sign of the mean of all weights log(N - df + 0.5) - log(df + 0.5)   *)
FloorSign(docs) ==
  LET df(t) == DocumentFrequency(docs, t)
      up(t, product) == product * (2 * (Len(docs) - df(t)) + 1)
      down(t, product) == product * (2 * df(t) + 1)
  IN  Sign(FoldSet(up, 1, Vocabulary(docs)) - FoldSet(down, 1, Vocabulary(docs)))

(* _compute_idf: a negative weight is replaced by a share of the mean.     *)
IdfSign(docs, t) ==
  LET raw == Sign(Len(docs) - 2 * DocumentFrequency(docs, t))
  IN  IF raw < 0 THEN FloorSign(docs) ELSE raw

(* The weights that add up to chunk i's score for a query                  *)
Weights(docs, query, i) == {IdfSign(docs, t) : t \in query \cap Terms[docs[i]]}

(* Chunks that score above zero for certain, and those that may: where     *)
(* positive and negative weights meet, their sizes decide.                 *)
SureHits(docs, query) ==
  {i \in 1..Len(docs) :
     1 \in Weights(docs, query, i) /\ -1 \notin Weights(docs, query, i)}

PossibleHits(docs, query) ==
  {i \in 1..Len(docs) : 1 \in Weights(docs, query, i)}
=============================================================================
