------------------------------ MODULE Splitter ------------------------------
(***************************************************************************)
(* _pack and _carry_overlap of chunking/splitter.py: the sentences of a    *)
(* text are grouped into overlapping chunks under a token budget.          *)
(*                                                                         *)
(* A text of n sentences is a function on 0..n: upto[i] tokens stand       *)
(* in its first i sentences.  Counting a string adds Special tokens, so    *)
(* that sentences counted one by one (bound) add up to more than their     *)
(* joined text.                                                            *)
(* Sentences a..b are the pair <<a, b>>; the current chunk is always       *)
(* first..(index - 1).                                                     *)
(***************************************************************************)
EXTENDS Integers, Sequences, FiniteSets

CONSTANTS
  Target,        \* target_tokens
  Overlap,       \* overlap_tokens
  MinSentences,  \* min_sentences: shorter texts have no breakpoints
  Special,       \* special tokens of every counted string
  MaxBreaks      \* bound: how many breakpoints a text has

ASSUME SplitterAssumption ==
  /\ Target \in Nat /\ Overlap \in Nat /\ Overlap < Target
  /\ MinSentences \in Nat
  /\ Special \in Nat /\ MaxBreaks \in Nat

VARIABLES
  length, upto,   \* the text at work and its number of sentences
  breakpoints,    \* sentences after which the topic shifts
  index, first, bound,
  chunks,
  stage

pack == <<length, upto, breakpoints, index, first, bound, chunks, stage>>

-----------------------------------------------------------------------------
Size(i) == upto[i] - upto[i - 1] + Special

(* count_tokens of the sentences a..b joined                               *)
Count(a, b) == upto[b] - upto[a - 1] + Special

(* What the sentences a..b sum up to, counted one by one                   *)
SumOfSizes(a, b) == upto[b] - upto[a - 1] + (b + 1 - a) * Special

HalfBudget == Target \div 2

Nonempty == first < index

IsText(n, text) ==
  /\ n \in Nat \ {0} /\ text \in [0..n -> Nat]
  /\ \A i, j \in 0..n : i <= j => text[i] <= text[j]

(* _carry_overlap drops the sentences in front of the longest end of a..b  *)
(* that fits into the overlap; the last sentence is carried in any case.   *)
Fits(k, b) == k = b \/ SumOfSizes(k, b) <= Overlap \/ Count(k, b) <= Overlap

(* Mutant of CarryStarts: a chunk that is not half full has no overlap.    *)
CarryStartsWhenHalf(a, b) ==
  IF Overlap = 0 \/ Count(a, b) < HalfBudget THEN {b + 1}
  ELSE {k \in a..b : /\ \A j \in k..b : Fits(j, b)
                     /\ k = a \/ ~ Fits(k - 1, b)}

CarryStarts(a, b) ==
  IF Overlap = 0 THEN {b + 1}
  ELSE {k \in a..b : /\ \A j \in k..b : Fits(j, b)
                     /\ k = a \/ ~ Fits(k - 1, b)}

-----------------------------------------------------------------------------
Init ==
  /\ length = 0 /\ upto = [i \in {0} |-> 0] /\ breakpoints = {}
  /\ index = 1 /\ first = 1 /\ bound = 0
  /\ chunks = <<>> /\ stage = "done"

(* Mutant of Start: the loop goes on where it ended in the text before.    *)
StartKept(n, text) ==
  /\ stage = "done"
  /\ length' = n /\ upto' = text
  /\ breakpoints' = {}
  /\ chunks' = <<>> /\ stage' = "sentence"
  /\ UNCHANGED <<index, first, bound>>

(* The breakpoints come from similarities of neighbouring sentences: in a  *)
(* text that is not too short at least the least similar pair of them.     *)
Start(n, text) ==
  /\ stage = "done"
  /\ length' = n /\ upto' = text
  /\ IF n < MinSentences \/ n < 2
     THEN breakpoints' = {}
     ELSE breakpoints' \in {shifts \in SUBSET (1..(n - 1)) :
                               Cardinality(shifts) \in 1..MaxBreaks}
  /\ index' = 1 /\ first' = 1 /\ bound' = 0
  /\ chunks' = <<>> /\ stage' = "sentence"

(* Mutant of Close: the running total starts again from nothing.           *)
CloseUnsummed ==
  /\ chunks' = Append(chunks, <<first, index - 1>>)
  /\ first' \in CarryStarts(first, index - 1)
  /\ bound' = 0
  /\ UNCHANGED <<length, upto, breakpoints, index>>

(* The current chunk is closed, the next one starts with what is carried.  *)
Close ==
  /\ chunks' = Append(chunks, <<first, index - 1>>)
  /\ first' \in CarryStarts(first, index - 1)
  /\ bound' = SumOfSizes(first', index - 1)
  /\ UNCHANGED <<length, upto, breakpoints, index>>

(* One sentence more exceeds the budget.                                   *)
Full ==
  /\ Nonempty
  /\ bound + Size(index) > Target /\ Count(first, index) > Target

(* Mutant of CloseFull: the sentence is looked at again, not taken.        *)
CloseFullAgain ==
  /\ stage = "sentence" /\ index <= length
  /\ Full
  /\ Close
  /\ stage' = "sentence"

CloseFull ==
  /\ stage = "sentence" /\ index <= length
  /\ Full
  /\ Close
  /\ stage' = "append"

KeepOpen ==
  /\ stage = "sentence" /\ index <= length
  /\ ~ Full
  /\ stage' = "append"
  /\ UNCHANGED <<length, upto, breakpoints, index, first, bound, chunks>>

Take ==
  /\ stage = "append"
  /\ bound' = bound + Size(index)
  /\ index' = index + 1
  /\ stage' = "break"
  /\ UNCHANGED <<length, upto, breakpoints, first, chunks>>

(* A preferred boundary, and the chunk is half full.                       *)
AtBreak ==
  /\ index - 1 \in breakpoints
  /\ bound >= HalfBudget /\ Count(first, index - 1) >= HalfBudget

CloseAtBreak ==
  /\ stage = "break" /\ AtBreak
  /\ Close
  /\ stage' = "sentence"

GoOn ==
  /\ stage = "break" /\ ~ AtBreak
  /\ stage' = "sentence"
  /\ UNCHANGED <<length, upto, breakpoints, index, first, bound, chunks>>

Finish ==
  /\ stage = "sentence" /\ index > length
  /\ chunks' = IF Nonempty THEN Append(chunks, <<first, index - 1>>) ELSE chunks
  /\ stage' = "done"
  /\ UNCHANGED <<length, upto, breakpoints, index, first, bound>>

Packing == CloseFull \/ KeepOpen \/ Take \/ CloseAtBreak \/ GoOn \/ Finish

Next ==
  \/ Packing
  \/ \E n \in Nat : \E text \in [0..n -> Nat] :
       IsText(n, text) /\ Start(n, text)

Spec == Init /\ [][Next]_pack

-----------------------------------------------------------------------------
(* Types: the chunk at work never reaches beyond the sentences taken.      *)
TypeOK ==
  /\ length \in Nat /\ upto \in [0..length -> Nat]
  /\ breakpoints \subseteq 1..length
  /\ index \in 1..(length + 1) /\ first \in 1..index
  /\ bound \in Nat
  /\ chunks \in Seq(Nat \X Nat)
  /\ stage \in {"done", "sentence", "append", "break"}

(* The sum of sizes never hides a chunk that the joined count would close: *)
(* "both the decision and the resulting chunks are unchanged".             *)
ShortcutSound ==
  /\ stage = "sentence" /\ index <= length /\ Nonempty
       => (Count(first, index) > Target => Full)
  /\ stage = "break" /\ index - 1 \in breakpoints
       => (Count(first, index - 1) >= HalfBudget => AtBreak)

(* Only a sentence that is alone or met nothing but carried ones takes a   *)
(* chunk over the budget: splitter.py closes a chunk before it would be.   *)
OverBudgetOnlyByCarry ==
  \A i \in 1..Len(chunks) :
    Count(chunks[i][1], chunks[i][2]) > Target =>
      \/ chunks[i][1] = chunks[i][2]
      \/ i > 1 /\ chunks[i - 1][2] = chunks[i][2] - 1

(* What the budget of the docstring comes to.                              *)
BudgetKept == ShortcutSound /\ OverBudgetOnlyByCarry

(* No sentence is lost and none is out of order: the chunks begin with the *)
(* first sentence, leave no gap ...                                        *)
InOrder ==
  \A i \in 1..Len(chunks) :
    /\ chunks[i][1] <= chunks[i][2]
    /\ i = 1 => chunks[i][1] = 1
    /\ i > 1 => /\ chunks[i - 1][1] <= chunks[i][1]
                /\ chunks[i][1] <= chunks[i - 1][2] + 1
                /\ chunks[i - 1][2] <= chunks[i][2]

(* ... and end with the last one.                                          *)
Complete ==
  stage = "done" /\ length > 0 => chunks # <<>> /\ chunks[Len(chunks)][2] = length

(* A chunk that adds no sentence to the one before it comes only right     *)
(* behind a break, and the next chunk goes on.                             *)
Advances ==
  \A i \in 2..Len(chunks) :
    chunks[i][2] = chunks[i - 1][2] =>
      /\ chunks[i][2] \in breakpoints
      /\ i > 2 => chunks[i - 2][2] < chunks[i][2]

(* The chunks cover the text, each going beyond the one before it.         *)
Covers == InOrder /\ Complete /\ Advances

-----------------------------------------------------------------------------
(* What the properties rest on at each stage: bound is the sum of the      *)
(* sentences at hand, ...                                                  *)
StageInv ==
  /\ \A i, j \in 0..length : i <= j => upto[i] <= upto[j]
  /\ stage = "append" => index <= length
  /\ stage = "break" => Nonempty
  /\ bound = SumOfSizes(first, index - 1)

Closed == chunks[Len(chunks)]

Excused(a, b) ==
  Count(a, b) <= Target \/ a = b \/ (chunks # <<>> /\ Closed[2] = b - 1)

(* ... the chunk at work may be closed as it is, ...                       *)
BudgetInv ==
  /\ stage = "sentence" /\ Nonempty => Excused(first, index - 1)
  /\ stage = "append" => Excused(first, index)
  /\ stage = "break" => Excused(first, index - 1)

(* ... it adjoins or overlaps the one closed before, ...                   *)
AdjoinInv ==
  stage # "done" =>
    IF chunks = <<>> THEN first = 1
    ELSE /\ Closed[1] <= first /\ first <= Closed[2] + 1
         /\ Closed[2] <= index - 1

(* ... and closing it without a further sentence would repeat an end only  *)
(* behind a break, and only once.                                          *)
AdvanceInv ==
  /\ stage = "sentence" /\ chunks # <<>> /\ Closed[2] = index - 1 =>
       /\ index - 1 \in breakpoints
       /\ Len(chunks) > 1 => chunks[Len(chunks) - 1][2] < index - 1
  /\ stage = "break" /\ chunks # <<>> => Closed[2] < index - 1

(* Chunks lie in the text, and the next chunk begins with the whole of one *)
(* that fits into the overlap.                                             *)
InText ==
  \A i \in 1..Len(chunks) :
    1 <= chunks[i][1] /\ chunks[i][1] <= chunks[i][2] /\ chunks[i][2] <= length

Small(chunk) == Overlap > 0 /\ Count(chunk[1], chunk[2]) <= Overlap

CarryInv ==
  /\ InText
  /\ \A i \in 2..Len(chunks) : Small(chunks[i - 1]) => chunks[i][1] = chunks[i - 1][1]
  /\ stage # "done" /\ chunks # <<>> => (Small(Closed) => first = Closed[1])

PackInv == StageInv /\ BudgetInv /\ AdjoinInv /\ AdvanceInv /\ CarryInv
=============================================================================
