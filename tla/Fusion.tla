------------------------------- MODULE Fusion -------------------------------
(***************************************************************************)
(* Reciprocal rank fusion (retrieval/fusion.py).  A result list is a       *)
(* sequence of chunks, each once; a chunk's rank is its place in the list. *)
(* Scores are fractions <<numerator, denominator>> and never rounded.      *)
(***************************************************************************)
EXTENDS Integers, Sequences, SequencesExt

CONSTANT RrfK      \* k, which damps the advantage of the top ranks

ASSUME FusionAssumption == RrfK \in Nat

RankIn(list, c) == CHOOSE i \in 1..Len(list) : list[i] = c

Holds(list, c) == c \in ToSet(list)

(* Mutant of Score: a chunk found twice keeps the better of its two scores *)
ScoreOfBest(dense, sparse, c) ==
  IF Holds(dense, c)
  THEN <<1, RrfK + RankIn(dense, c)>> ELSE <<1, RrfK + RankIn(sparse, c)>>

(* 1 / (k + rank), added up over the lists that hold the chunk             *)
Score(dense, sparse, c) ==
  LET d == RrfK + RankIn(dense, c)
      s == RrfK + RankIn(sparse, c)
  IN  IF Holds(dense, c) /\ Holds(sparse, c) THEN <<d + s, d * s>>
      ELSE <<1, IF Holds(dense, c) THEN d ELSE s>>

(* When a chunk comes into the dictionary of scores                        *)
Seen(dense, sparse, c) ==
  IF Holds(dense, c) THEN RankIn(dense, c) ELSE Len(dense) + RankIn(sparse, c)

(* The sort is stable: equal scores keep the order they came in.           *)
Before(dense, sparse, c, e) ==
  LET a == Score(dense, sparse, c)
      b == Score(dense, sparse, e)
  IN  \/ a[1] * b[2] > b[1] * a[2]
      \/ /\ a[1] * b[2] = b[1] * a[2]
         /\ Seen(dense, sparse, c) < Seen(dense, sparse, e)

Least(a, b) == IF a < b THEN a ELSE b

(* reciprocal_rank_fusion: a chunk's place in the sorted list is behind    *)
(* all that come before it.                                                *)
Fused(dense, sparse, topK) ==
  LET all == ToSet(dense) \cup ToSet(sparse)
      Place(c) == 1 + Cardinality({e \in all : Before(dense, sparse, e, c)})
  IN  [p \in 1..Least(topK, Cardinality(all)) |->
         CHOOSE c \in all : Place(c) = p]
=============================================================================
