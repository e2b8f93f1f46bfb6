------------------------------ MODULE Sections ------------------------------
(***************************************************************************)
(* parsing/sections.py: which of the lines of a filing that look like      *)
(* "Item 7A. ..." start a section.                                         *)
(*                                                                         *)
(* A document is a sequence of lines.  A line has a size in characters; a  *)
(* PART line names a part, a line with an item heading and a title names   *)
(* an item; items are numbered in the order of _item_key.  Lines are       *)
(* referred to by their positions.                                         *)
(***************************************************************************)
EXTENDS Integers, Sequences, FiniteSets, FiniteSetsExt

CONSTANTS
  TocMin,        \* TOC_MIN_ENTRIES
  MaxGap,        \* TOC_MAX_GAP_CHARS
  MinSection,    \* MIN_SECTION_CHARS
  None           \* no part, no item

ASSUME SectionsAssumption ==
  TocMin \in Nat \ {0} /\ MaxGap \in Nat /\ MinSection \in Nat

(* Where each line begins, and the end of the text                         *)
Offset(doc) ==
  LET at[i \in 1..(Len(doc) + 1)] ==
        IF i = 1 THEN 0 ELSE at[i - 1] + doc[i - 1].size
  IN  at

(* The part named last; headings in front of the first PART line have none *)
PartAt(doc, i) ==
  LET named == {k \in 1..i : doc[k].part # None}
  IN  IF named = {} THEN None ELSE doc[Max(named)].part

Candidates(doc) == {i \in 1..Len(doc) : doc[i].item # None}

-----------------------------------------------------------------------------
(* Candidate i goes on with the run of the candidate in front of it.       *)
Continues(doc, lines, i) ==
  LET before == {k \in lines : k < i}
  IN  /\ before # {}
      /\ Offset(doc)[i] - Offset(doc)[Max(before)] <= MaxGap
      /\ doc[i].item > doc[Max(before)].item

(* The candidates of i's run: contents rows ascend, packed closely.        *)
RunOf(doc, lines, i) ==
  {j \in lines :
     \A k \in lines :
       (i < k /\ k <= j) \/ (j < k /\ k <= i) => Continues(doc, lines, k)}

(* Mutant of DropContents: whatever is packed closely is kept.             *)
DropNothing(doc, lines) == lines

(* _drop_table_of_contents                                                 *)
DropContents(doc, lines) ==
  LET survivors ==
        {i \in lines : Cardinality(RunOf(doc, lines, i)) < TocMin}
  IN  IF survivors = {} THEN lines ELSE survivors

-----------------------------------------------------------------------------
(* From a heading to the next one that is left, or to the end              *)
Extent(doc, lines, i) ==
  LET after == {k \in lines : k > i}
  IN  Offset(doc)[IF after = {} THEN Len(doc) + 1 ELSE Min(after)]
        - Offset(doc)[i]

SameSection(doc, lines, i) ==
  {j \in lines :
     doc[j].item = doc[i].item /\ PartAt(doc, j) = PartAt(doc, i)}

(* Mutant of DropUndersized: repeated headings are told apart by size only *)
(* where one of them is too small.                                         *)
DropSmall(doc, lines) ==
  {i \in lines :
     \/ SameSection(doc, lines, i) = {i}
     \/ Extent(doc, lines, i) >= MinSection}

(* _drop_undersized: of repeated headings the first of the largest extent  *)
DropUndersized(doc, lines) ==
  {i \in lines :
     \/ SameSection(doc, lines, i) = {i}
     \/ /\ Extent(doc, lines, i) >= MinSection
        /\ \A j \in SameSection(doc, lines, i) \ {i} :
             \/ Extent(doc, lines, j) < Extent(doc, lines, i)
             \/ j > i /\ Extent(doc, lines, j) = Extent(doc, lines, i)}

(* find_item_headings                                                      *)
Headings(doc) == DropUndersized(doc, DropContents(doc, Candidates(doc)))
=============================================================================
