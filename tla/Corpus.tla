------------------------------- MODULE Corpus -------------------------------
(***************************************************************************)
(* What scripts/scale.py promises about a growing corpus, with no files    *)
(* and no saves in sight: filings become known, and a batch puts a few of  *)
(* those that are not held yet behind those that are.  "The index is the   *)
(* thing that must not be double-counted", and a batch that never          *)
(* completes takes nothing away.  The promise ends (out) where another     *)
(* command puts an index of its own there, and where a death inside a      *)
(* write leaves a file that cannot be read.                                *)
(***************************************************************************)
EXTENDS Integers, Sequences

CONSTANT BatchSize

VARIABLES
  known,     \* the filings ingested so far
  held,      \* the filings of the index, in the order of their chunks
  out        \* is the index out of the promise?

Init == known = {} /\ held = <<>> /\ ~out

Learn == known \subseteq known' /\ UNCHANGED <<held, out>>

Extend ==
  /\ ~out /\ UNCHANGED <<known, out>>
  /\ Len(held') \in (Len(held) + 1)..(Len(held) + BatchSize)
  /\ SubSeq(held', 1, Len(held)) = held
  /\ \A i \in (Len(held) + 1)..Len(held') :
       held'[i] \in known /\ \A j \in 1..(i - 1) : held'[j] # held'[i]

Leave == out'

Next == Learn \/ Extend \/ Leave

Spec == Init /\ [][Next]_<<known, held, out>>
=============================================================================
