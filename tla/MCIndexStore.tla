---------------------------- MODULE MCIndexStore ----------------------------
(* Small instances of IndexStore for TLC. *)
EXTENDS IndexStore, SequencesExt, TLC

CONSTANTS a, b, c, d

MCFilings == {a, b, c, d}
MCRank == a :> 1 @@ b :> 2 @@ c :> 3 @@ d :> 4

Ranked(S) == SetToSortSeq(S, LAMBDA f, g : MCRank[f] < MCRank[g])
ListWithout(X) == [S \in SUBSET MCFilings |-> Ranked(S \ X)]
ListBarD == ListWithout({d})
ListBarA == ListWithout({a})

Companies == a :> "x" @@ b :> "x" @@ c :> "y" @@ d :> "z"

JustB == {{b}}
AllSaves == Saves
(* Deaths that leave the files as they were, or all of them new. *)
CleanSaves == {"faiss", "json", "postings"}
=============================================================================
