---------------------------- MODULE MCIndexBuild ----------------------------
(* Small instances of IndexBuild for TLC. *)
EXTENDS IndexBuild, TLC

CONSTANTS a, b, c, d, e, f, hedged, fixed

(* a yields two chunks, d has no stored document, e yields no chunk.  Five *)
(* filings to chunk are enough for a resumed run to save once more.        *)
MCFilings == {a, b, c, d, e, f}
MCMissing == {d}
MCCount == a :> 2 @@ b :> 1 @@ c :> 1 @@ d :> 1 @@ e :> 0 @@ f :> 1
MCRank == a :> 1 @@ b :> 2 @@ c :> 3 @@ d :> 4 @@ e :> 5 @@ f :> 6
MCDim == hedged :> 2 @@ fixed :> 3

All == [filings |-> MCFilings, cfg |-> hedged, ckpt |-> TRUE]
Some == [filings |-> {a, b, c}, cfg |-> hedged, ckpt |-> TRUE]
Other == [filings |-> {a, b, c}, cfg |-> fixed, ckpt |-> TRUE]
Direct == [filings |-> {b, c}, cfg |-> hedged, ckpt |-> FALSE]
Nothing == [filings |-> {d}, cfg |-> hedged, ckpt |-> TRUE]

OneRequest == {All}
ManyRequests == {All, Some, Other, Direct, Nothing}

AllSteps == Steps
AllButManifest == Steps \ {"saveManifest"}
AllButDropManifest == Steps \ {"dropManifest"}
ReplacedFiles == {"manifest", "meta"}
=============================================================================
