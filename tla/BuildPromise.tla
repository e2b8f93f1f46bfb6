---------------------------- MODULE BuildPromise ----------------------------
(***************************************************************************)
(* What build_index promises its caller, with no checkpoint and no crash   *)
(* in sight: every time it hands chunks and vectors to the index, they are *)
(* the chunks of exactly the filings asked for, each once, and row i is    *)
(* the vector of chunk i under the model asked for.                        *)
(***************************************************************************)
EXTENDS Naturals, Sequences

CONSTANTS Filings, Missing, Cfgs, Count, Requests, NoBuild

VARIABLE handed

Chunk == Filings \X Nat \X Cfgs

Hands(r, cs, rows) ==
  /\ \A i \in 1..Len(cs) :
       /\ cs[i][1] \in r.filings \ Missing
       /\ cs[i][2] \in 1..Count[cs[i][1]]
       /\ cs[i][3] = r.cfg
  /\ \A f \in r.filings \ Missing : \A k \in 1..Count[f] :
       \E i \in 1..Len(cs) : cs[i] = <<f, k, r.cfg>>
  /\ \A i, j \in 1..Len(cs) : cs[i] = cs[j] => i = j
  /\ Len(rows) = Len(cs)
  /\ \A i \in 1..Len(rows) : rows[i] = <<cs[i], r.cfg>>

Init == handed = NoBuild

HandOver(r) ==
  /\ handed' # NoBuild
  /\ handed'.req = r
  /\ Hands(r, handed'.chunks, handed'.vecs)

Next == \E r \in Requests : HandOver(r)

Spec == Init /\ [][Next]_handed
=============================================================================
