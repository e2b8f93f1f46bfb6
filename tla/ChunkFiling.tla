---------------------------- MODULE ChunkFiling ----------------------------
(***************************************************************************)
(* From the text of one filing to its chunks: parse_filing cuts it into    *)
(* sections, chunk_filing has the sections that are long enough split and  *)
(* labels the chunks (parsing/pipeline.py, chunking/pipeline.py).          *)
(*                                                                         *)
(* A line is one sentence; it has a size in characters, which sections and *)
(* MIN_CHUNK_CHARS are measured by, and of its own a number of tokens,     *)
(* which the splitter counts: neither says anything about the other.       *)
(* What kind a line is ("heading": it does start a section, "contents",    *)
(* "repeat": an item named again, "part", "text") only the properties know.*)
(***************************************************************************)
EXTENDS Splitter, Sections, SequencesExt

CONSTANTS
  Filings,       \* documents
  MinChunk       \* MIN_CHUNK_CHARS

(* The empty text is one line.                                             *)
ASSUME ChunkFilingAssumption ==
  /\ MinChunk \in Nat \ {0}
  /\ \A lines \in Filings :
       /\ Len(lines) \in Nat \ {0}
       /\ \A i \in 1..Len(lines) :
            lines[i].size \in Nat /\ lines[i].tokens \in Nat

VARIABLES
  doc,           \* the lines of the filing
  usable,        \* the bodies of its sections that are long enough
  split,         \* the chunk texts of the bodies split so far
  records        \* the chunks made in the end

vars == <<pack, doc, usable, split, records>>

-----------------------------------------------------------------------------
Measure(lines, a, b) == Offset(lines)[b + 1] - Offset(lines)[a]

(* parse_filing: each section reaches to the next heading; a filing with   *)
(* no heading is one section.                                              *)
SectionsOf(lines) ==
  LET starts == Headings(lines)
      After(h) == {k \in starts : k > h}
  IN  IF starts = {}
      THEN {[part |-> None, item |-> None, from |-> 1, to |-> Len(lines)]}
      ELSE {[part |-> PartAt(lines, h), item |-> lines[h].item, from |-> h,
             to |-> IF After(h) = {} THEN Len(lines) ELSE Min(After(h)) - 1] :
               h \in starts}

(* _strip_heading: the body begins behind the heading line, if there is    *)
(* any line behind it.                                                     *)
StripHeading(lines, section) ==
  IF lines[section.from].item # None /\ section.from < section.to
  THEN [section EXCEPT !.from = @ + 1] ELSE section

Usable(lines) ==
  {body \in {StripHeading(lines, section) : section \in SectionsOf(lines)} :
     Measure(lines, body.from, body.to) >= MinChunk}

(* split_sentences on a body                                               *)
SentencesIn(body) == body.to - body.from + 1

(* The lines measured by their tokens                                      *)
InTokens(lines) ==
  [i \in 1..Len(lines) |-> [size |-> lines[i].tokens]]

Upto(lines, body) ==
  [i \in 0..SentencesIn(body) |->
     Measure(InTokens(lines), body.from, body.from + i - 1)]

-----------------------------------------------------------------------------
InitFiling ==
  /\ Init
  /\ doc \in Filings
  /\ usable = Usable(doc)
  /\ split = [body \in {} |-> <<>>] /\ records = {}

(* The bodies are split in the order of the text.                          *)
Current ==
  CHOOSE body \in usable \ DOMAIN split :
    \A other \in usable \ DOMAIN split : body.from <= other.from

SplitNext ==
  /\ stage = "done" /\ DOMAIN split # usable
  /\ Start(SentencesIn(Current), Upto(doc, Current))
  /\ UNCHANGED <<doc, usable, split, records>>

Pack ==
  /\ Packing
  /\ split' = IF stage' # "done" THEN split
              ELSE [body \in DOMAIN split \cup {Current} |->
                      IF body = Current THEN chunks' ELSE split[body]]
  /\ UNCHANGED <<doc, usable, records>>

(* The k-th chunk of a body                                                *)
Made(body, k) ==
  [id |-> <<body.part, body.item, k>>,
   from |-> body.from + split[body][k][1] - 1,
   to |-> body.from + split[body][k][2] - 1]

AllMade ==
  UNION {{Made(body, k) : k \in 1..Len(split[body])} : body \in DOMAIN split}

(* _build_chunks: texts that are too short are left out, the others keep   *)
(* their number.                                                           *)
Kept == {made \in AllMade : Measure(doc, made.from, made.to) >= MinChunk}

BuildChunks ==
  /\ stage = "done" /\ DOMAIN split = usable /\ records = {}
  /\ records' = Kept
  /\ UNCHANGED <<pack, doc, usable, split>>

NextFiling == SplitNext \/ Pack \/ BuildChunks

SpecFiling == InitFiling /\ [][NextFiling]_vars

-----------------------------------------------------------------------------
(* Two chunks of a filing never have the same id: "accession number, part, *)
(* item and order already identify a chunk uniquely".                      *)
IdsUnique ==
  /\ \A a, b \in records : a.id = b.id => a = b
  /\ Cardinality(records) = Cardinality({a.id : a \in records})

Real(lines) == {i \in 1..Len(lines) : lines[i].kind = "heading"}

(* The last line of the section that really starts at h                    *)
EndOf(lines, h) ==
  LET later == {k \in Real(lines) : k > h}
  IN  IF later = {} THEN Len(lines) ELSE Min(later) - 1

Short(lines, h) == Measure(lines, h, EndOf(lines, h)) <= MaxGap

Rows(lines) == {i \in 1..Len(lines) : lines[i].kind = "contents"}

Adjacent(S, i, j) == i < j /\ \A k \in S : k <= i \/ j <= k

Between(S, a, b) == {k \in S : a <= k /\ k <= b}

(* No item is named again inside a section, parts begin with PART, and a   *)
(* heading alone is too short for a chunk.                                 *)
Plain(lines) ==
  /\ \A i \in 1..Len(lines) :
       lines[i].item # None <=> lines[i].kind \in {"heading", "contents"}
  /\ \A h \in Real(lines) : /\ lines[h].of = <<PartAt(lines, h), lines[h].item>>
                            /\ lines[h].size < MinChunk
  /\ \A g, h \in Real(lines) : lines[g].of = lines[h].of => g = h

(* Sections do not follow each other as closely as contents rows do.       *)
NoShortRun(lines) ==
  \A a, b \in Real(lines) :
    Cardinality(Between(Real(lines), a, b)) >= TocMin =>
      \E h \in Between(Real(lines), a, b) \ {b} : ~ Short(lines, h)

(* A table of contents stands in front, packed closely; behind it items    *)
(* start over.                                                             *)
ContentsInFront(lines) ==
  /\ \A r \in Rows(lines), h \in Real(lines) : r < h
  /\ \A r, s \in Rows(lines) :
       Adjacent(Rows(lines), r, s) => Measure(lines, r, s - 1) <= MaxGap
  /\ \A r \in Rows(lines), h \in Real(lines) :
       Adjacent(Candidates(lines), r, h) => ~ (lines[h].item > lines[r].item)

(* The contents rows that are not in a long ascending list                 *)
Unlisted(lines) ==
  {r \in Rows(lines) :
     ~ \E a, b \in Rows(lines) :
         /\ r \in Between(Rows(lines), a, b)
         /\ Cardinality(Between(Rows(lines), a, b)) >= TocMin
         /\ \A i, j \in Between(Rows(lines), a, b) :
              Adjacent(Rows(lines), i, j) => lines[j].item > lines[i].item}

(* Such a row is short, and the section that it names is not.              *)
ContentsTellApart(lines) ==
  \A r \in Unlisted(lines) :
    /\ Extent(lines, Unlisted(lines) \cup Real(lines), r) < MinSection
    /\ \E h \in Real(lines) : /\ lines[h].item = lines[r].item
                              /\ PartAt(lines, h) = PartAt(lines, r)
                              /\ Measure(lines, h, EndOf(lines, h)) >= MinSection

Regular(lines) ==
  /\ Real(lines) # {} /\ Plain(lines) /\ NoShortRun(lines)
  /\ ContentsInFront(lines) /\ ContentsTellApart(lines)

(* In a regular filing every chunk is a piece of the section that its id   *)
(* and metadata name: what filters and citations rely on.                  *)
RightItem ==
  Regular(doc) =>
    \A made \in records :
      \E h \in Real(doc) : /\ h < made.from /\ made.to <= EndOf(doc, h)
                           /\ doc[h].of = <<made.id[1], made.id[2]>>

(* What _carry_overlap takes over as a whole                               *)
CarriedOn(made) ==
  Overlap > 0 /\ Measure(InTokens(doc), made.from, made.to) + Special <= Overlap

(* Each of the lines from..to is in a chunk of this part and item, but for *)
(* an end of the lines that is too short for a chunk, and for a text that  *)
(* is too short for one and yet has more tokens than the overlap takes.    *)
FiledUnder(part, item, from, to) ==
  LET own == {made \in AllMade : made.id[1] = part /\ made.id[2] = item}
  IN  \A i \in from..to :
        \/ Measure(doc, i, to) < MinChunk
        \/ \E made \in own : /\ made.from <= i /\ i <= made.to
                             /\ made \in Kept \/ ~ CarriedOn(made)

(* Whatever sections are found: those that are long enough are filed so,   *)
(* as texts that are left out in the middle are carried on ...             *)
BodiesFiled ==
  \A body \in usable : FiledUnder(body.part, body.item, body.from, body.to)

(* ... and in a regular filing so are the real ones.                       *)
SectionsFiled ==
  Regular(doc) =>
    \A h \in Real(doc) :
      Measure(doc, h + 1, EndOf(doc, h)) >= MinChunk =>
        FiledUnder(doc[h].of[1], doc[h].of[2], h + 1, EndOf(doc, h))

(* When short texts are left out (chunking/pipeline.py:94) no line of a    *)
(* section that is long enough goes with them, but in the two cases named  *)
(* at FiledUnder.                                                          *)
NothingSkipped ==
  stage = "done" /\ DOMAIN split = usable => BodiesFiled /\ SectionsFiled

(* Types; in particular no loop index or body outlives its text: the packing*)
(* of a body starts afresh, and bodies lie within the filing.              *)
TypeOKFiling ==
  /\ TypeOK
  /\ \A body \in usable :
       1 <= body.from /\ body.from <= body.to /\ body.to <= Len(doc)
  /\ DOMAIN split \subseteq usable

-----------------------------------------------------------------------------
(* Why: bodies are split one after the other, each once, and nothing is    *)
(* recorded but their chunks.                                              *)
FilingInv ==
  /\ doc \in Filings /\ usable = Usable(doc)
  /\ DOMAIN split \subseteq usable
  /\ \A body \in DOMAIN split : split[body] \in Seq(Nat \X Nat)
  /\ stage # "done" => DOMAIN split # usable
  /\ records \subseteq AllMade

(* The chunks cut of a text of n sentences adjoin or overlap from its      *)
(* first to its last, and what fits into the overlap is part of the next.  *)
WellCut(cut, n, text) ==
  /\ cut \in Seq(Nat \X Nat) /\ cut # <<>>
  /\ \A i \in 1..Len(cut) :
       1 <= cut[i][1] /\ cut[i][1] <= cut[i][2] /\ cut[i][2] <= n
  /\ cut[1][1] = 1 /\ cut[Len(cut)][2] = n
  /\ \A i \in 2..Len(cut) :
       /\ cut[i][1] <= cut[i - 1][2] + 1 /\ cut[i - 1][2] <= cut[i][2]
       /\ Overlap > 0 /\ text[cut[i - 1][2]] - text[cut[i - 1][1] - 1] + Special <= Overlap
            => cut[i][1] = cut[i - 1][1]

(* Every body is cut so, and what is kept is recorded when all are.        *)
FiledInv ==
  /\ stage # "done" => length = SentencesIn(Current) /\ upto = Upto(doc, Current)
  /\ \A body \in DOMAIN split :
       WellCut(split[body], SentencesIn(body), Upto(doc, body))
  /\ records # {} => DOMAIN split = usable /\ records = Kept
=============================================================================
