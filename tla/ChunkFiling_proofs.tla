------------------------- MODULE ChunkFiling_proofs -------------------------
(***************************************************************************)
(* Proofs about ChunkFiling for every set of filings, sizes and thresholds.*)
(* What Splitter_proofs shows of texts is brought to the bodies of filings.*)
(***************************************************************************)
EXTENDS ChunkFiling, Splitter_proofs, FiniteSetTheorems, WellFoundedInduction

LEMMA LeastOf ==
  ASSUME NEW T \in SUBSET Nat, T # {}
  PROVE  \E x \in T : \A y \in T : x <= y
<1>1. \E x \in T : \A y \in T : ~ (<<y, x>> \in OpToRel(<, Nat))
  BY NatLessThanWellFounded, WFMin
<1>2. \A x, y \in T : ~ (<<y, x>> \in OpToRel(<, Nat)) => x <= y
  BY DEF OpToRel
<1> QED BY <1>1, <1>2

-----------------------------------------------------------------------------
(* The offsets of lines: a recursive function exists because a first line  *)
(* up to which it does not cannot be.                                      *)
Measured(lines) ==
  Len(lines) \in Nat /\ \A i \in 1..Len(lines) : lines[i].size \in Nat

OffsetsUpto(lines, n, f) ==
  /\ f \in [1..n -> Nat] /\ f[1] = 0
  /\ \A i \in 2..n : f[i] = f[i - 1] + lines[i - 1].size

LEMMA OffsetsExist ==
  ASSUME NEW lines, Measured(lines)
  PROVE  \E f : OffsetsUpto(lines, Len(lines) + 1, f)
<1> DEFINE without == {n \in 1..(Len(lines) + 1) : ~ \E f : OffsetsUpto(lines, n, f)}
<1>0. /\ Len(lines) \in Nat /\ \A i \in 1..Len(lines) : lines[i].size \in Nat
  BY DEF Measured
<1> SUFFICES ASSUME without # {} PROVE FALSE
  <2>1. Len(lines) + 1 \in 1..(Len(lines) + 1)
    BY <1>0
  <2> QED BY <2>1
<1>1. PICK m \in without : \A n \in without : m <= n
  <2>1. without \in SUBSET Nat /\ without # {}
    BY <1>0
  <2> HIDE DEF without
  <2> QED BY <2>1, LeastOf
<1>2. CASE m = 1
  <2>1. OffsetsUpto(lines, 1, [i \in 1..1 |-> 0])
    BY DEF OffsetsUpto
  <2> QED BY <1>2, <2>1
<1>3. CASE m # 1
  <2>1. m \in 2..(Len(lines) + 1) /\ m - 1 \in 1..(Len(lines) + 1) /\ m - 1 \in 1..Len(lines)
    BY <1>0, <1>3
  <2>2. m - 1 \notin without
    BY <1>1, <2>1
  <2>3. PICK f : OffsetsUpto(lines, m - 1, f)
    BY <2>1, <2>2
  <2> DEFINE g == [i \in 1..m |-> IF i = m THEN f[m - 1] + lines[m - 1].size ELSE f[i]]
  <2>4. f \in [1..(m - 1) -> Nat] /\ f[m - 1] \in Nat /\ lines[m - 1].size \in Nat
    BY <1>0, <2>1, <2>3 DEF OffsetsUpto
  <2>5. g \in [1..m -> Nat]
    BY <2>1, <2>4
  <2>6. g[1] = 0
    BY <2>1, <2>3 DEF OffsetsUpto
  <2>7. ASSUME NEW i \in 2..m PROVE g[i] = g[i - 1] + lines[i - 1].size
    <3>1. i - 1 \in 1..m /\ i - 1 # m /\ g[i - 1] = f[i - 1]
      BY <2>1
    <3>2. CASE i = m
      BY <2>1, <3>1, <3>2
    <3>3. CASE i # m
      <4>1. i \in 2..(m - 1)
        BY <2>1, <3>3
      <4> QED BY <2>1, <2>3, <3>1, <3>3, <4>1 DEF OffsetsUpto
    <3> QED BY <3>2, <3>3
  <2> HIDE DEF g
  <2>8. OffsetsUpto(lines, m, g)
    BY <2>5, <2>6, <2>7 DEF OffsetsUpto
  <2> QED BY <2>8
<1> QED BY <1>2, <1>3

LEMMA OffsetsDefined ==
  ASSUME NEW lines, Measured(lines)
  PROVE  OffsetsUpto(lines, Len(lines) + 1, Offset(lines))
<1> DEFINE n == Len(lines) + 1
           IsIt(g) == g = [i \in 1..n |-> IF i = 1 THEN 0 ELSE g[i - 1] + lines[i - 1].size]
<1>0. /\ Len(lines) \in Nat /\ \A i \in 1..Len(lines) : lines[i].size \in Nat
  BY DEF Measured
<1>1. PICK f : OffsetsUpto(lines, n, f)
  BY OffsetsExist
<1>2. IsIt(f)
  <2>1. f \in [1..n -> Nat] /\ \A i \in 1..n : i # 1 => i \in 2..n
    BY <1>0, <1>1 DEF OffsetsUpto
  <2>2. \A i \in 1..n : f[i] = IF i = 1 THEN 0 ELSE f[i - 1] + lines[i - 1].size
    BY <1>1, <2>1 DEF OffsetsUpto
  <2> QED BY <2>1, <2>2
<1>3. Offset(lines) = CHOOSE g : IsIt(g)
  BY DEF Offset
<1>4. IsIt(CHOOSE g : IsIt(g))
  <2> HIDE DEF IsIt
  <2> QED BY <1>2
<1>5. PICK at : at = Offset(lines) /\ IsIt(at)
  BY <1>3, <1>4
<1>6. /\ DOMAIN at = 1..n /\ at[1] = 0
      /\ \A i \in 2..n : at[i] = at[i - 1] + lines[i - 1].size
  BY <1>0, <1>5
<1>7. \A i \in 1..n : at[i] \in Nat
  <2> DEFINE wrong == {i \in 1..n : at[i] \notin Nat}
  <2> SUFFICES ASSUME wrong # {} PROVE FALSE
    OBVIOUS
  <2>0. wrong \in SUBSET Nat /\ wrong # {}
    BY <1>0
  <2>1. PICK m \in wrong : \A i \in wrong : m <= i
    <3> HIDE DEF wrong
    <3> QED BY <2>0, LeastOf
  <2>2. m \in 2..n /\ m - 1 \in 1..n /\ m - 1 \in 1..Len(lines)
    BY <1>0, <1>6, <2>1
  <2>3. m - 1 \notin wrong
    BY <2>1, <2>2
  <2>4. at[m - 1] \in Nat /\ lines[m - 1].size \in Nat /\ at[m] = at[m - 1] + lines[m - 1].size
    BY <1>0, <1>6, <2>2, <2>3
  <2> QED BY <2>1, <2>4
<1>8. at = [i \in 1..n |-> at[i]]
  BY <1>5
<1> QED BY <1>5, <1>6, <1>7, <1>8 DEF OffsetsUpto

(* Later lines begin later.                                                *)
LEMMA OffsetsAscend ==
  ASSUME NEW lines, Measured(lines),
         NEW i \in 1..(Len(lines) + 1), NEW j \in 1..(Len(lines) + 1), i <= j
  PROVE  /\ Offset(lines)[i] \in Nat /\ Offset(lines)[j] \in Nat
         /\ Offset(lines)[i] <= Offset(lines)[j]
<1> DEFINE at == Offset(lines)
           n == Len(lines) + 1
           less == {k \in 1..n : i <= k /\ ~ (at[i] <= at[k])}
<1>0. /\ Len(lines) \in Nat /\ \A k \in 1..Len(lines) : lines[k].size \in Nat
  BY DEF Measured
<1>1. /\ \A k \in 1..n : at[k] \in Nat
      /\ \A k \in 2..n : at[k] = at[k - 1] + lines[k - 1].size
  BY OffsetsDefined DEF OffsetsUpto
<1>2. less = {}
  <2> SUFFICES ASSUME less # {} PROVE FALSE
    OBVIOUS
  <2>0. less \in SUBSET Nat /\ less # {}
    BY <1>0
  <2>1. PICK m \in less : \A k \in less : m <= k
    <3> HIDE DEF less
    <3> QED BY <2>0, LeastOf
  <2>2. m # i /\ m \in 2..n /\ m - 1 \in 1..n /\ m - 1 \in 1..Len(lines) /\ i <= m - 1
    BY <1>0, <1>1, <2>1
  <2>3. m - 1 \notin less
    BY <2>1, <2>2
  <2>4. at[i] <= at[m - 1] /\ at[m] = at[m - 1] + lines[m - 1].size
        /\ lines[m - 1].size \in Nat /\ at[i] \in Nat /\ at[m - 1] \in Nat
    BY <1>0, <1>1, <2>2, <2>3
  <2>5. at[i] <= at[m]
    <3> HIDE DEF at
    <3> QED BY <2>4
  <2> QED BY <2>1, <2>5
<1> QED BY <1>1, <1>2

LEMMA MeasureType ==
  ASSUME NEW lines, Measured(lines), NEW a \in 1..(Len(lines) + 1),
         NEW b \in 0..Len(lines), a <= b + 1
  PROVE  /\ Measure(lines, a, b) \in Nat
         /\ Measure(lines, a, b) = Offset(lines)[b + 1] - Offset(lines)[a]
<1>1. Len(lines) \in Nat /\ b + 1 \in 1..(Len(lines) + 1)
  BY DEF Measured
<1>2. /\ Offset(lines)[a] \in Nat /\ Offset(lines)[b + 1] \in Nat
      /\ Offset(lines)[a] <= Offset(lines)[b + 1]
  BY <1>1, OffsetsAscend
<1> QED BY <1>2 DEF Measure

(* Filings have sizes in characters and in tokens.                         *)
LEMMA FilingMeasured ==
  ASSUME NEW lines \in Filings
  PROVE  /\ Measured(lines) /\ Measured(InTokens(lines))
         /\ Len(InTokens(lines)) = Len(lines)
<1>1. /\ Len(lines) \in Nat
      /\ \A i \in 1..Len(lines) : lines[i].size \in Nat /\ lines[i].tokens \in Nat
  BY ChunkFilingAssumption
<1>2. Len(InTokens(lines)) = Len(lines)
  BY <1>1 DEF InTokens
<1>3. \A i \in 1..Len(lines) : InTokens(lines)[i].size = lines[i].tokens
  BY DEF InTokens
<1>4. Measured(lines)
  BY <1>1 DEF Measured
<1>5. Measured(InTokens(lines))
  BY <1>1, <1>2, <1>3 DEF Measured
<1> QED BY <1>2, <1>4, <1>5

-----------------------------------------------------------------------------
(* The section names of a filing are its own: of two headings with one     *)
(* part and item, at most one is kept.                                     *)
LEMMA HeadingsIn ==
  ASSUME NEW lines \in Filings
  PROVE  /\ Headings(lines) \subseteq 1..Len(lines)
         /\ DropContents(lines, Candidates(lines)) \subseteq 1..Len(lines)
<1>1. Candidates(lines) \subseteq 1..Len(lines)
  BY DEF Candidates
<1>2. DropContents(lines, Candidates(lines)) \subseteq Candidates(lines)
  BY DEF DropContents
<1> QED BY <1>1, <1>2 DEF Headings, DropUndersized

LEMMA LeastAfter ==
  ASSUME NEW S \in SUBSET Nat, S # {}
  PROVE  Min(S) \in S /\ \A x \in S : Min(S) <= x
BY LeastOf DEF Min

LEMMA ExtentType ==
  ASSUME NEW lines \in Filings, NEW kept \in SUBSET (1..Len(lines)), NEW i \in kept
  PROVE  Extent(lines, kept, i) \in Int
<1> DEFINE after == {k \in kept : k > i}
           end == IF after = {} THEN Len(lines) + 1 ELSE Min(after)
<1>0. Len(lines) \in Nat
  BY ChunkFilingAssumption
<1>1. end \in 1..(Len(lines) + 1)
  <2>1. CASE after = {}
    BY <1>0, <2>1
  <2>2. CASE after # {}
    <3>1. after \subseteq 1..Len(lines)
      OBVIOUS
    <3> HIDE DEF after
    <3>2. after \in SUBSET Nat
      BY <1>0, <3>1
    <3>3. Min(after) \in after
      BY <2>2, <3>2, LeastAfter
    <3>4. Min(after) \in 1..Len(lines) /\ end = Min(after)
      BY <2>2, <3>1, <3>3
    <3> HIDE DEF end
    <3> QED BY <1>0, <3>4
  <2> QED BY <2>1, <2>2
<1>2. Extent(lines, kept, i) = Offset(lines)[end] - Offset(lines)[i]
  BY DEF Extent
<1> HIDE DEF end, after
<1>3. Offset(lines)[end] \in Nat /\ Offset(lines)[i] \in Nat
  <2>1. i \in 1..(Len(lines) + 1)
    BY <1>0
  <2> QED BY <1>1, <2>1, OffsetsAscend, FilingMeasured
<1> QED BY <1>2, <1>3

LEMMA HeadingsApart ==
  ASSUME NEW lines \in Filings, NEW i \in Headings(lines), NEW j \in Headings(lines),
         lines[i].item = lines[j].item, PartAt(lines, i) = PartAt(lines, j)
  PROVE  i = j
<1> DEFINE kept == DropContents(lines, Candidates(lines))
<1>1. kept \in SUBSET (1..Len(lines)) /\ Len(lines) \in Nat
  BY HeadingsIn, ChunkFilingAssumption
<1>2. Headings(lines) = DropUndersized(lines, kept)
  BY DEF Headings
<1> HIDE DEF kept
<1>3. i \in kept /\ j \in kept
  BY <1>2 DEF DropUndersized
<1>4. /\ j \in SameSection(lines, kept, i)
      /\ i \in SameSection(lines, kept, j)
  BY <1>3 DEF SameSection
<1> SUFFICES ASSUME i # j PROVE FALSE
  OBVIOUS
<1>5. \/ Extent(lines, kept, j) < Extent(lines, kept, i)
      \/ j > i /\ Extent(lines, kept, j) = Extent(lines, kept, i)
  BY <1>2, <1>4 DEF DropUndersized
<1>6. \/ Extent(lines, kept, i) < Extent(lines, kept, j)
      \/ i > j /\ Extent(lines, kept, i) = Extent(lines, kept, j)
  BY <1>2, <1>4 DEF DropUndersized
<1>7. Extent(lines, kept, i) \in Int /\ Extent(lines, kept, j) \in Int
  BY <1>1, <1>3, ExtentType
<1>8. i \in Int /\ j \in Int
  BY <1>1, <1>3
<1> QED BY <1>5, <1>6, <1>7, <1>8

(* The section that a heading starts, and the only one of a filing without *)
SectionAt(lines, h) ==
  LET after == {k \in Headings(lines) : k > h}
  IN  IF Headings(lines) = {}
      THEN [part |-> None, item |-> None, from |-> 1, to |-> Len(lines)]
      ELSE [part |-> PartAt(lines, h), item |-> lines[h].item, from |-> h,
            to |-> IF after = {} THEN Len(lines) ELSE Min(after) - 1]

Starts(lines) == IF Headings(lines) = {} THEN {1} ELSE Headings(lines)

LEMMA SectionsListed ==
  ASSUME NEW lines \in Filings
  PROVE  /\ SectionsOf(lines) = {SectionAt(lines, h) : h \in Starts(lines)}
         /\ \A h \in Starts(lines) : /\ h \in 1..Len(lines)
                                     /\ SectionAt(lines, h).from = h
                                     /\ SectionAt(lines, h).to \in h..Len(lines)
         /\ \A h, k \in Starts(lines) :
              SectionAt(lines, h).part = SectionAt(lines, k).part
                /\ SectionAt(lines, h).item = SectionAt(lines, k).item => h = k
<1>0. Len(lines) \in Nat /\ Len(lines) >= 1
  BY ChunkFilingAssumption
<1>1. CASE Headings(lines) = {}
  BY <1>0, <1>1 DEF SectionsOf, SectionAt, Starts
<1>2. CASE Headings(lines) # {}
  <2>1. SectionsOf(lines) = {SectionAt(lines, h) : h \in Starts(lines)}
    BY <1>2 DEF SectionsOf, SectionAt, Starts
  <2>2. ASSUME NEW h \in Starts(lines)
        PROVE  /\ h \in 1..Len(lines) /\ SectionAt(lines, h).from = h
               /\ SectionAt(lines, h).to \in h..Len(lines)
               /\ SectionAt(lines, h).part = PartAt(lines, h)
               /\ SectionAt(lines, h).item = lines[h].item
    <3> DEFINE after == {k \in Headings(lines) : k > h}
    <3>1. h \in 1..Len(lines) /\ Headings(lines) \in SUBSET Nat
      BY <1>0, <1>2, HeadingsIn DEF Starts
    <3>2. SectionAt(lines, h) =
            [part |-> PartAt(lines, h), item |-> lines[h].item, from |-> h,
             to |-> IF after = {} THEN Len(lines) ELSE Min(after) - 1]
      BY <1>2 DEF SectionAt
    <3>3. after \in SUBSET Nat /\ after \subseteq 1..Len(lines) /\ \A k \in after : k > h
      BY <3>1, HeadingsIn
    <3> HIDE DEF after
    <3>4. (IF after = {} THEN Len(lines) ELSE Min(after) - 1) \in h..Len(lines)
      <4>1. CASE after = {}
        BY <1>0, <3>1, <4>1
      <4>2. CASE after # {}
        <5>1. Min(after) \in after
          BY <3>3, <4>2, LeastAfter
        <5>2. Min(after) \in 1..Len(lines) /\ Min(after) > h
          BY <3>3, <5>1
        <5>3. Min(after) - 1 \in h..Len(lines)
          BY <1>0, <3>1, <5>2
        <5> QED BY <4>2, <5>3
      <4> QED BY <4>1, <4>2
    <3> QED BY <3>1, <3>2, <3>4
  <2>3. \A h, k \in Starts(lines) :
          SectionAt(lines, h).part = SectionAt(lines, k).part
            /\ SectionAt(lines, h).item = SectionAt(lines, k).item => h = k
    BY <1>2, <2>2, HeadingsApart DEF Starts
  <2> QED BY <2>1, <2>2, <2>3
<1> QED BY <1>1, <1>2

(* Stripping a heading keeps a body inside its section and under its name. *)
LEMMA BodyOf ==
  ASSUME NEW lines \in Filings, NEW h \in Starts(lines), NEW body,
         body = StripHeading(lines, SectionAt(lines, h))
  PROVE  /\ body.from \in 1..Len(lines) /\ body.to \in body.from..Len(lines)
         /\ h <= body.from /\ body.to = SectionAt(lines, h).to
         /\ body.part = SectionAt(lines, h).part
         /\ body.item = SectionAt(lines, h).item
<1> DEFINE s == SectionAt(lines, h)
<1>0. Len(lines) \in Nat
  BY ChunkFilingAssumption
<1>1. h \in 1..Len(lines) /\ s.from = h /\ s.to \in h..Len(lines)
  BY SectionsListed
<1>2. s = [part |-> s.part, item |-> s.item, from |-> s.from, to |-> s.to]
  BY DEF SectionAt
<1>3. body = IF lines[s.from].item # None /\ s.from < s.to
             THEN [s EXCEPT !.from = @ + 1] ELSE s
  BY DEF StripHeading
<1> HIDE DEF s
<1>4. CASE lines[s.from].item # None /\ s.from < s.to
  <2>1. body = [part |-> s.part, item |-> s.item, from |-> s.from + 1, to |-> s.to]
    BY <1>2, <1>3, <1>4
  <2>2. body.from = h + 1 /\ body.to = s.to /\ body.part = s.part /\ body.item = s.item
    BY <1>1, <2>1
  <2>3. h + 1 \in 1..Len(lines) /\ s.to \in (h + 1)..Len(lines) /\ h <= h + 1
    BY <1>0, <1>1, <1>4
  <2> QED BY <2>2, <2>3 DEF s
<1>5. CASE ~ (lines[s.from].item # None /\ s.from < s.to)
  <2>1. body = s
    BY <1>3, <1>5
  <2> QED BY <1>0, <1>1, <2>1 DEF s
<1> QED BY <1>4, <1>5

LEMMA UsableBodies ==
  ASSUME NEW lines \in Filings
  PROVE  /\ IsFiniteSet(Usable(lines))
         /\ \A body \in Usable(lines) :
              body.from \in 1..Len(lines) /\ body.to \in body.from..Len(lines)
         /\ \A b, c \in Usable(lines) : b.part = c.part /\ b.item = c.item => b = c
<1>1. \A body \in Usable(lines) : \E h \in Starts(lines) :
        body = StripHeading(lines, SectionAt(lines, h))
  BY SectionsListed DEF Usable
<1>2. \A body \in Usable(lines) :
        body.from \in 1..Len(lines) /\ body.to \in body.from..Len(lines)
  BY <1>1, BodyOf
<1>3. ASSUME NEW b \in Usable(lines), NEW c \in Usable(lines),
             b.part = c.part, b.item = c.item
      PROVE  b = c
  <2>1. PICK h \in Starts(lines) : b = StripHeading(lines, SectionAt(lines, h))
    BY <1>1
  <2>2. PICK k \in Starts(lines) : c = StripHeading(lines, SectionAt(lines, k))
    BY <1>1
  <2>3. /\ SectionAt(lines, h).part = SectionAt(lines, k).part
        /\ SectionAt(lines, h).item = SectionAt(lines, k).item
    BY <1>3, <2>1, <2>2, BodyOf
  <2> QED BY <2>1, <2>2, <2>3, SectionsListed
<1>4. IsFiniteSet(Usable(lines))
  <2>1. IsFiniteSet(Starts(lines))
    <3>1. Len(lines) \in Nat /\ Starts(lines) \in SUBSET (1..Len(lines))
      BY SectionsListed, ChunkFilingAssumption
    <3>2. IsFiniteSet(1..Len(lines))
      BY <3>1, FS_Interval
    <3> QED BY <3>1, <3>2, FS_Subset
  <2> DEFINE strip == [h \in Starts(lines) |-> StripHeading(lines, SectionAt(lines, h))]
             all == {StripHeading(lines, SectionAt(lines, h)) : h \in Starts(lines)}
  <2>2. strip \in Surjection(Starts(lines), all)
    BY DEF Surjection
  <2>3. Usable(lines) \in SUBSET all
    BY <1>1
  <2> HIDE DEF strip, all
  <2>4. IsFiniteSet(all)
    BY <2>1, <2>2, FS_Surjection
  <2> QED BY <2>3, <2>4, FS_Subset
<1> QED BY <1>2, <1>3, <1>4

(* A body is a text to pack.                                               *)
LEMMA BodyIsText ==
  ASSUME NEW lines \in Filings, NEW body,
         body.from \in 1..Len(lines), body.to \in body.from..Len(lines)
  PROVE  IsText(SentencesIn(body), Upto(lines, body))
<1> DEFINE n == SentencesIn(body)
           text == Upto(lines, body)
<1>0. /\ Len(lines) \in Nat /\ n \in Nat \ {0}
      /\ body.from + n - 1 = body.to
  BY ChunkFilingAssumption DEF SentencesIn
<1>1. ASSUME NEW i \in 0..n
      PROVE  /\ body.from + i \in 1..(Len(lines) + 1) /\ text[i] \in Nat
             /\ text[i] = Offset(InTokens(lines))[body.from + i] - Offset(InTokens(lines))[body.from]
  <2>1. /\ body.from \in 1..(Len(lines) + 1) /\ body.from + i \in 1..(Len(lines) + 1)
        /\ body.from + i - 1 \in 0..Len(lines) /\ body.from <= (body.from + i - 1) + 1
        /\ (body.from + i - 1) + 1 = body.from + i
    BY <1>0
  <2>2. text[i] = Measure(InTokens(lines), body.from, body.from + i - 1)
    BY DEF Upto
  <2> QED BY <2>1, <2>2, MeasureType, FilingMeasured
<1>2. text \in [0..n -> Nat]
  BY <1>1 DEF Upto
<1>3. ASSUME NEW i \in 0..n, NEW j \in 0..n, i <= j PROVE text[i] <= text[j]
  <2>1. /\ body.from + i \in 1..(Len(lines) + 1) /\ body.from + j \in 1..(Len(lines) + 1)
        /\ body.from \in 1..(Len(lines) + 1) /\ body.from + i <= body.from + j
        /\ body.from <= body.from
    BY <1>0, <1>1, <1>3
  <2>2. /\ Offset(InTokens(lines))[body.from + i] \in Nat /\ Offset(InTokens(lines))[body.from + j] \in Nat
        /\ Offset(InTokens(lines))[body.from + i] <= Offset(InTokens(lines))[body.from + j]
        /\ Offset(InTokens(lines))[body.from] \in Nat
    BY <2>1, OffsetsAscend, FilingMeasured
  <2>3. /\ text[i] = Offset(InTokens(lines))[body.from + i] - Offset(InTokens(lines))[body.from]
        /\ text[j] = Offset(InTokens(lines))[body.from + j] - Offset(InTokens(lines))[body.from]
    BY <1>1
  <2> HIDE DEF text
  <2> QED BY <2>2, <2>3
<1> HIDE DEF n, text
<1>4. IsText(n, text)
  BY <1>0, <1>2, <1>3 DEF IsText
<1> QED BY <1>4 DEF n, text

(* There is a body in line as long as not all are split.                   *)
LEMMA CurrentInLine ==
  ASSUME FilingInv, DOMAIN split # usable
  PROVE  Current \in usable /\ Current \notin DOMAIN split
<1> DEFINE waiting == usable \ DOMAIN split
           begins == {body.from : body \in waiting}
<1>1. \A body \in waiting : body.from \in Nat
  <2>1. \A body \in usable : body.from \in 1..Len(doc)
    BY UsableBodies DEF FilingInv
  <2> QED BY <2>1
<1>2. waiting # {}
  BY DEF FilingInv
<1>3. PICK begin \in begins : \A b \in begins : begin <= b
  <2>1. begins \in SUBSET Nat /\ begins # {}
    BY <1>1, <1>2
  <2> HIDE DEF begins
  <2> QED BY <2>1, LeastOf
<1>4. \E body \in waiting : \A other \in waiting : body.from <= other.from
  BY <1>3
<1> QED BY <1>4 DEF Current

-----------------------------------------------------------------------------
(* Every step on a filing is a step of the splitter on one of its bodies,  *)
(* or leaves the splitter alone.                                           *)
LEMMA StepPacks == FilingInv /\ [NextFiling]_vars => [Next]_pack
<1> SUFFICES ASSUME FilingInv, [NextFiling]_vars PROVE [Next]_pack
  OBVIOUS
<1>1. CASE SplitNext
  <2> DEFINE n == SentencesIn(Current)
             text == Upto(doc, Current)
  <2>1. Current \in Usable(doc) /\ doc \in Filings
    BY <1>1, CurrentInLine DEF SplitNext, FilingInv
  <2>2. IsText(n, text)
    BY <2>1, UsableBodies, BodyIsText
  <2>3. Start(n, text)
    BY <1>1 DEF SplitNext
  <2> HIDE DEF n, text
  <2>4. n \in Nat /\ text \in [0..n -> Nat]
    BY <2>2 DEF IsText
  <2>5. Next
    BY <2>2, <2>3, <2>4 DEF Next
  <2> QED BY <2>5
<1>2. CASE Pack
  BY <1>2 DEF Pack, Next
<1>3. CASE BuildChunks
  BY <1>3 DEF BuildChunks
<1>4. CASE UNCHANGED vars
  BY <1>4 DEF vars
<1> QED BY <1>1, <1>2, <1>3, <1>4 DEF NextFiling

(* Chunks once made stay as they are while further bodies are split.       *)
LEMMA MadeStays ==
  ASSUME FilingInv, DOMAIN split # usable,
         split' = [body \in DOMAIN split \cup {Current} |->
                     IF body = Current THEN chunks' ELSE split[body]]
  PROVE  AllMade \subseteq AllMade'
<1>1. Current \notin DOMAIN split
  BY CurrentInLine
<1>2. DOMAIN split \subseteq DOMAIN split'
      /\ \A body \in DOMAIN split : split'[body] = split[body]
  BY <1>1
<1>3. ASSUME NEW body \in DOMAIN split, NEW k \in 1..Len(split[body])
      PROVE  Made(body, k) \in AllMade'
  <2>1. body \in DOMAIN split' /\ split'[body] = split[body]
    BY <1>2
  <2>2. Made(body, k) = Made(body, k)'
    BY <2>1 DEF Made
  <2>3. Made(body, k)' \in {Made(body, j) : j \in 1..Len(split[body])}'
    BY <2>1
  <2> QED BY <2>1, <2>2, <2>3 DEF AllMade
<1>4. SUFFICES ASSUME NEW made \in AllMade PROVE made \in AllMade'
  OBVIOUS
<1>5. PICK body \in DOMAIN split : made \in {Made(body, k) : k \in 1..Len(split[body])}
  BY DEF AllMade
<1>6. PICK k \in 1..Len(split[body]) : made = Made(body, k)
  BY <1>5
<1> QED BY <1>3, <1>6

LEMMA FilingNext ==
  FilingInv /\ TypeOK' /\ [NextFiling]_vars => FilingInv'
<1> SUFFICES ASSUME FilingInv, TypeOK', [NextFiling]_vars PROVE FilingInv'
  OBVIOUS
<1>1. CASE SplitNext
  <2>1. UNCHANGED <<doc, usable, split, records>> /\ DOMAIN split # usable
    BY <1>1 DEF SplitNext
  <2>2. AllMade' = AllMade
    BY <2>1 DEF AllMade, Made
  <2> QED BY <2>1, <2>2 DEF FilingInv
<1>2. CASE Pack
  <2>1. UNCHANGED <<doc, usable, records>> /\ stage # "done" /\ DOMAIN split # usable
    BY <1>2 DEF Pack, Packing, CloseFull, KeepOpen, Take, CloseAtBreak, GoOn,
                Finish, FilingInv
  <2>2. CASE stage' # "done"
    <3>1. split' = split
      BY <1>2, <2>2 DEF Pack
    <3>2. AllMade' = AllMade
      BY <3>1 DEF AllMade, Made
    <3> QED BY <2>1, <3>1, <3>2 DEF FilingInv
  <2>3. CASE stage' = "done"
    <3>1. split' = [body \in DOMAIN split \cup {Current} |->
                      IF body = Current THEN chunks' ELSE split[body]]
      BY <1>2, <2>3 DEF Pack
    <3>2. Current \in usable /\ Current \notin DOMAIN split
      BY <2>1, CurrentInLine
    <3>3. AllMade \subseteq AllMade'
      BY <2>1, <3>1, MadeStays
    <3>4. chunks' \in Seq(Nat \X Nat)
      BY DEF TypeOK
    <3>5. DOMAIN split' = DOMAIN split \cup {Current} /\ DOMAIN split' \subseteq usable'
      BY <2>1, <3>1, <3>2 DEF FilingInv
    <3>6. \A body \in DOMAIN split' : split'[body] \in Seq(Nat \X Nat)
      BY <3>1, <3>4, <3>5 DEF FilingInv
    <3>7. records' \subseteq AllMade'
      BY <2>1, <3>3 DEF FilingInv
    <3>8. doc' \in Filings /\ usable' = Usable(doc')
      BY <2>1 DEF FilingInv
    <3> QED BY <2>3, <3>5, <3>6, <3>7, <3>8 DEF FilingInv
  <2> QED BY <2>2, <2>3
<1>3. CASE BuildChunks
  <2>1. UNCHANGED <<pack, doc, usable, split>> /\ records' \subseteq AllMade
    BY <1>3 DEF BuildChunks, Kept
  <2>2. AllMade' = AllMade /\ stage' = stage
    BY <2>1 DEF AllMade, Made, pack
  <2> QED BY <2>1, <2>2 DEF FilingInv
<1>4. CASE UNCHANGED vars
  <2>1. UNCHANGED <<doc, usable, split, records>> /\ stage' = stage
    BY <1>4 DEF vars, pack
  <2>2. AllMade' = AllMade
    BY <2>1 DEF AllMade, Made
  <2> QED BY <2>1, <2>2 DEF FilingInv
<1> QED BY <1>1, <1>2, <1>3, <1>4 DEF NextFiling

LEMMA FilingInvHolds == SpecFiling => [](TypeOK /\ StageInv /\ FilingInv)
<1>1. InitFiling => TypeOK /\ StageInv /\ FilingInv
  <2> SUFFICES ASSUME InitFiling PROVE TypeOK /\ StageInv /\ FilingInv
    OBVIOUS
  <2>1. TypeOK /\ StageInv
    BY InitHolds DEF InitFiling, PackInv
  <2>2. FilingInv
    BY DEF InitFiling, Init, FilingInv
  <2> QED BY <2>1, <2>2
<1>2. TypeOK /\ StageInv /\ FilingInv /\ [NextFiling]_vars
        => (TypeOK /\ StageInv /\ FilingInv)'
  BY StepPacks, StageNext, FilingNext
<1> QED BY <1>1, <1>2, PTL DEF SpecFiling

-----------------------------------------------------------------------------
(* Types and bounds: for every filing, whatever lines are headings, the    *)
(* bodies that are split lie within it and are not empty.                  *)
THEOREM FilingTypeCorrect == SpecFiling => []TypeOKFiling
<1>1. TypeOK /\ FilingInv => TypeOKFiling
  <2> SUFFICES ASSUME TypeOK, FilingInv PROVE TypeOKFiling
    OBVIOUS
  <2>1. ASSUME NEW body \in usable
        PROVE  1 <= body.from /\ body.from <= body.to /\ body.to <= Len(doc)
    <3>1. body \in Usable(doc) /\ doc \in Filings /\ Len(doc) \in Nat
      BY ChunkFilingAssumption DEF FilingInv
    <3>2. body.from \in 1..Len(doc) /\ body.to \in body.from..Len(doc)
      BY <3>1, UsableBodies
    <3> QED BY <3>1, <3>2
  <2> QED BY <2>1 DEF TypeOKFiling, FilingInv
<1> QED BY <1>1, FilingInvHolds, PTL

(* Splitting a filing is splitting texts: whatever the headings found, the *)
(* splitter is only ever handed texts, one after the other, each when the  *)
(* one before is done, and nothing but its own steps touches its state.    *)
THEOREM FilingIsSplit == SpecFiling => Spec
<1>1. InitFiling => Init
  BY DEF InitFiling
<1> QED BY <1>1, StepPacks, FilingInvHolds, PTL DEF SpecFiling, Spec

(* So each chunk keeps the budget as it does for a text alone ...          *)
THEOREM FilingBudgetKept == SpecFiling => []BudgetKept
BY FilingIsSplit, BudgetAlwaysKept

(* ... and the chunks of each body cover it.                               *)
THEOREM FilingCovered == SpecFiling => []Covers
BY FilingIsSplit, TextAlwaysCovered

-----------------------------------------------------------------------------
(* What the splitter leaves of a body is cut well.                         *)
LEMMA CutWell ==
  ASSUME TypeOK, PackInv, Covers, stage = "done", length > 0
  PROVE  WellCut(chunks, length, upto)
<1>1. /\ chunks \in Seq(Nat \X Nat) /\ chunks # <<>> /\ chunks[Len(chunks)][2] = length
      /\ Len(chunks) \in Nat /\ Len(chunks) >= 1
  <2>1. chunks \in Seq(Nat \X Nat) /\ chunks # <<>> /\ chunks[Len(chunks)][2] = length
    BY DEF TypeOK, Covers, Complete
  <2> QED BY <2>1
<1>2. \A i \in 1..Len(chunks) :
        1 <= chunks[i][1] /\ chunks[i][1] <= chunks[i][2] /\ chunks[i][2] <= length
  BY DEF PackInv, CarryInv, InText
<1>3. chunks[1][1] = 1
  BY <1>1 DEF Covers, InOrder
<1>4. ASSUME NEW i \in 2..Len(chunks)
      PROVE  /\ chunks[i][1] <= chunks[i - 1][2] + 1 /\ chunks[i - 1][2] <= chunks[i][2]
             /\ (Overlap > 0 /\ upto[chunks[i - 1][2]] - upto[chunks[i - 1][1] - 1] + Special <= Overlap)
                  => chunks[i][1] = chunks[i - 1][1]
  <2>1. i \in 1..Len(chunks) /\ i > 1 /\ i - 1 \in 1..Len(chunks)
    BY <1>1
  <2>2. chunks[i][1] <= chunks[i - 1][2] + 1 /\ chunks[i - 1][2] <= chunks[i][2]
    BY <2>1 DEF Covers, InOrder
  <2>3. ASSUME Overlap > 0,
               upto[chunks[i - 1][2]] - upto[chunks[i - 1][1] - 1] + Special <= Overlap
        PROVE  chunks[i][1] = chunks[i - 1][1]
    <3>1. Small(chunks[i - 1])
      BY <2>3 DEF Small, Count
    <3> QED BY <3>1 DEF PackInv, CarryInv
  <2> QED BY <2>2, <2>3
<1> QED BY <1>1, <1>2, <1>3, <1>4 DEF WellCut

LEMMA FiledNext ==
  FilingInv /\ FiledInv /\ (TypeOK /\ PackInv /\ Covers)' /\ [NextFiling]_vars
    => FiledInv'
<1> SUFFICES ASSUME FilingInv, FiledInv, (TypeOK /\ PackInv /\ Covers)', [NextFiling]_vars
             PROVE  FiledInv'
  OBVIOUS
<1>1. CASE SplitNext
  <2>1. /\ UNCHANGED <<doc, usable, split, records>> /\ DOMAIN split # usable
        /\ length' = SentencesIn(Current) /\ upto' = Upto(doc, Current)
    BY <1>1 DEF SplitNext, Start
  <2>2. Current' = Current /\ Kept' = Kept
    BY <2>1 DEF Current, Kept, AllMade, Made
  <2> QED BY <2>1, <2>2 DEF FiledInv
<1>2. CASE Pack
  <2>1. /\ UNCHANGED <<doc, usable, records>> /\ stage # "done" /\ DOMAIN split # usable
        /\ UNCHANGED <<length, upto>>
    BY <1>2 DEF Pack, Packing, CloseFull, KeepOpen, Take, CloseAtBreak, GoOn,
                Finish, Close, FilingInv
  <2>2. CASE stage' # "done"
    <3>1. split' = split
      BY <1>2, <2>2 DEF Pack
    <3>2. Current' = Current /\ Kept' = Kept
      BY <2>1, <3>1 DEF Current, Kept, AllMade, Made
    <3> QED BY <2>1, <3>1, <3>2 DEF FiledInv
  <2>3. CASE stage' = "done"
    <3>1. split' = [body \in DOMAIN split \cup {Current} |->
                      IF body = Current THEN chunks' ELSE split[body]]
      BY <1>2, <2>3 DEF Pack
    <3>2. Current \in usable /\ Current \notin DOMAIN split
      BY <2>1, CurrentInLine
    <3>3. length = SentencesIn(Current) /\ upto = Upto(doc, Current)
      BY <2>1 DEF FiledInv
    <3>4. length > 0
      <4>1. doc \in Filings /\ Current \in Usable(doc)
        BY <3>2 DEF FilingInv
      <4>2. IsText(length, upto)
        BY <3>3, <4>1, UsableBodies, BodyIsText
      <4> QED BY <4>2 DEF IsText
    <3>5. (stage = "done" /\ length > 0 => WellCut(chunks, length, upto))'
      BY CutWell, PTL
    <3>6. WellCut(chunks', SentencesIn(Current), Upto(doc, Current))
      BY <2>1, <2>3, <3>3, <3>4, <3>5
    <3>7. ASSUME NEW body \in DOMAIN split'
          PROVE  WellCut(split'[body], SentencesIn(body), Upto(doc, body))
      BY <3>1, <3>6 DEF FiledInv
    <3>8. records' = {}
      BY <2>1 DEF FiledInv
    <3> QED BY <2>1, <2>3, <3>7, <3>8 DEF FiledInv
  <2> QED BY <2>2, <2>3
<1>3. CASE BuildChunks
  <2>1. UNCHANGED <<pack, doc, usable, split>> /\ records' = Kept /\ DOMAIN split = usable
    BY <1>3 DEF BuildChunks
  <2>2. Kept' = Kept /\ Current' = Current /\ UNCHANGED <<stage, length, upto>>
    BY <2>1 DEF Kept, AllMade, Made, Current, pack
  <2> QED BY <2>1, <2>2 DEF FiledInv
<1>4. CASE UNCHANGED vars
  <2>1. UNCHANGED <<doc, usable, split, records>> /\ UNCHANGED <<stage, length, upto>>
    BY <1>4 DEF vars, pack
  <2>2. Kept' = Kept /\ Current' = Current
    BY <2>1 DEF Kept, AllMade, Made, Current
  <2> QED BY <2>1, <2>2 DEF FiledInv
<1> QED BY <1>1, <1>2, <1>3, <1>4 DEF NextFiling

(* The greatest of a bounded set is the least distance from the bound.     *)
LEMMA GreatestOf ==
  ASSUME NEW n \in Nat, NEW T \in SUBSET (0..n), T # {}
  PROVE  \E x \in T : \A y \in T : y <= x
<1> DEFINE gaps == {n - x : x \in T}
<1>0. \A x \in T : x \in Nat /\ n - x \in Nat
  OBVIOUS
<1>1. gaps \in SUBSET Nat /\ gaps # {}
  BY <1>0
<1>2. PICK gap \in gaps : \A g \in gaps : gap <= g
  <2> HIDE DEF gaps
  <2> QED BY <1>1, LeastOf
<1>3. PICK x \in T : gap = n - x
  BY <1>2
<1>4. \A y \in T : n - y \in gaps /\ n - x <= n - y
  BY <1>2, <1>3
<1> HIDE DEF gaps
<1> QED BY <1>0, <1>4

LEMMA MaxIs ==
  ASSUME NEW S \in SUBSET Nat, NEW m \in S, \A x \in S : x <= m
  PROVE  Max(S) = m
<1>1. m \in S /\ \A y \in S : m >= y
  OBVIOUS
<1>2. \A x \in S : (\A y \in S : x >= y) => x = m
  BY <1>1
<1> QED BY <1>1, <1>2 DEF Max

(* Each sentence is in a chunk, which may be the last, and else has more   *)
(* tokens than the overlap takes: one that has no more begins where the    *)
(* next one does.                                                          *)
LEMMA CutKept ==
  ASSUME NEW cut, NEW n \in Nat \ {0}, NEW text, WellCut(cut, n, text), NEW l \in 1..n
  PROVE  \E k \in 1..Len(cut) :
           /\ cut[k][1] <= l /\ l <= cut[k][2]
           /\ \/ k = Len(cut)
              \/ ~ (/\ Overlap > 0
                    /\ text[cut[k][2]] - text[cut[k][1] - 1] + Special <= Overlap)
<1> DEFINE reach == {k \in 1..Len(cut) : l <= cut[k][2]}
           hold  == {k \in 1..Len(cut) : cut[k][1] <= l /\ l <= cut[k][2]}
<1>1. /\ Len(cut) \in Nat /\ Len(cut) >= 1 /\ cut[1][1] = 1 /\ cut[Len(cut)][2] = n
      /\ \A k \in 1..Len(cut) : cut[k][1] \in Nat /\ cut[k][2] \in Nat
      /\ \A k \in 2..Len(cut) :
           cut[k][1] <= cut[k - 1][2] + 1 /\ cut[k - 1][2] <= cut[k][2]
  BY DEF WellCut
<1>2. hold # {}
  <2>1. PICK i \in reach : \A k \in reach : i <= k
    <3>1. Len(cut) \in reach
      BY <1>1
    <3>2. reach \in SUBSET Nat /\ reach # {}
      BY <3>1
    <3> HIDE DEF reach
    <3> QED BY <3>2, LeastOf
  <2>2. i \in 1..Len(cut) /\ l <= cut[i][2] /\ l >= 1
    BY <2>1
  <2>3. CASE i = 1
    BY <1>1, <2>2, <2>3
  <2>4. CASE i # 1
    <3>1. i - 1 \in 1..Len(cut) /\ i - 1 \notin reach /\ i \in 2..Len(cut)
      BY <1>1, <2>1, <2>2, <2>4
    <3>2. ~ (l <= cut[i - 1][2])
      BY <3>1
    <3>3. cut[i][1] <= cut[i - 1][2] + 1
      BY <1>1, <3>1
    <3>4. cut[i][1] \in Nat /\ cut[i - 1][2] \in Nat
      BY <1>1, <2>2, <3>1
    <3>5. cut[i][1] <= l
      BY <3>2, <3>3, <3>4
    <3> QED BY <2>2, <3>5
  <2> QED BY <2>3, <2>4
<1>3. PICK k \in hold : \A i \in hold : i <= k
  <2>1. hold \in SUBSET (0..Len(cut)) /\ Len(cut) \in Nat
    BY <1>1
  <2> HIDE DEF hold
  <2> QED BY <1>2, <2>1, GreatestOf
<1>4. k \in 1..Len(cut) /\ cut[k][1] <= l /\ l <= cut[k][2]
  BY <1>3
<1>5. ASSUME k # Len(cut), Overlap > 0,
             text[cut[k][2]] - text[cut[k][1] - 1] + Special <= Overlap
      PROVE  FALSE
  <2>1. k + 1 \in 1..Len(cut) /\ k + 1 \in 2..Len(cut) /\ (k + 1) - 1 = k
    BY <1>1, <1>4, <1>5
  <2>2. cut[k + 1][1] = cut[k][1]
    BY <1>5, <2>1 DEF WellCut
  <2>3. cut[k][2] <= cut[k + 1][2] /\ cut[k][2] \in Nat /\ cut[k + 1][2] \in Nat
    BY <1>1, <1>4, <2>1
  <2>4. k + 1 \in hold
    BY <1>4, <2>1, <2>2, <2>3
  <2>5. k \in Nat
    BY <1>4
  <2> HIDE DEF hold
  <2> QED BY <1>3, <2>4, <2>5
<1> QED BY <1>4, <1>5

(* Tokens between two sentences of a body                                  *)
LEMMA UptoIs ==
  ASSUME NEW lines \in Filings, NEW body,
         body.from \in 1..Len(lines), body.to \in body.from..Len(lines),
         NEW i \in 0..SentencesIn(body), NEW j \in 0..SentencesIn(body), i <= j
  PROVE  Measure(InTokens(lines), body.from + i, body.from + j - 1)
           = Upto(lines, body)[j] - Upto(lines, body)[i]
<1> DEFINE n == SentencesIn(body)
           text == Upto(lines, body)
<1>0. /\ Len(lines) \in Nat /\ n \in Nat \ {0} /\ body.from + n - 1 = body.to
      /\ body.from \in 1..(Len(lines) + 1) /\ body.from <= body.from
  BY ChunkFilingAssumption DEF SentencesIn
<1>1. ASSUME NEW k \in 0..n
      PROVE  /\ body.from + k \in 1..(Len(lines) + 1) /\ body.from <= body.from + k
             /\ text[k] = Offset(InTokens(lines))[body.from + k] - Offset(InTokens(lines))[body.from]
  <2>1. /\ body.from + k \in 1..(Len(lines) + 1) /\ body.from <= body.from + k
        /\ body.from + k - 1 \in 0..Len(lines) /\ body.from <= (body.from + k - 1) + 1
        /\ (body.from + k - 1) + 1 = body.from + k
    BY <1>0
  <2>2. text[k] = Measure(InTokens(lines), body.from, body.from + k - 1)
    BY DEF Upto
  <2>3. text[k] = Offset(InTokens(lines))[(body.from + k - 1) + 1]
                    - Offset(InTokens(lines))[body.from]
    <3> HIDE DEF text
    <3> QED BY <2>2 DEF Measure
  <2> HIDE DEF text
  <2> QED BY <2>1, <2>3
<1>2. /\ Offset(InTokens(lines))[body.from + i] \in Nat /\ Offset(InTokens(lines))[body.from + j] \in Nat
      /\ Offset(InTokens(lines))[body.from] \in Nat
  BY <1>0, <1>1, OffsetsAscend, FilingMeasured
<1>3. (body.from + j - 1) + 1 = body.from + j
  BY <1>0
<1>4. Measure(InTokens(lines), body.from + i, body.from + j - 1)
        = Offset(InTokens(lines))[body.from + j] - Offset(InTokens(lines))[body.from + i]
  BY <1>3 DEF Measure
<1>5. /\ text[i] = Offset(InTokens(lines))[body.from + i] - Offset(InTokens(lines))[body.from]
      /\ text[j] = Offset(InTokens(lines))[body.from + j] - Offset(InTokens(lines))[body.from]
  BY <1>1
<1> HIDE DEF text
<1>6. Measure(InTokens(lines), body.from + i, body.from + j - 1) = text[j] - text[i]
  BY <1>2, <1>4, <1>5
<1> QED BY <1>6 DEF text

LEMMA FiledInvHolds == SpecFiling => [](FilingInv /\ FiledInv)
<1>1. InitFiling => FiledInv
  BY DEF InitFiling, Init, FiledInv
<1>2. SpecFiling => [](TypeOK /\ PackInv /\ Covers)
  BY FilingIsSplit, PackInvHolds, PTL
<1> QED BY <1>1, <1>2, FiledNext, FilingInvHolds, PTL DEF SpecFiling

LEMMA BodyFiled ==
  ASSUME FilingInv, FiledInv, DOMAIN split = usable, NEW body \in usable
  PROVE  FiledUnder(body.part, body.item, body.from, body.to)
<1> DEFINE n == SentencesIn(body)
           text == Upto(doc, body)
           cut == split[body]
           from == body.from
           own == {made \in AllMade : made.id[1] = body.part /\ made.id[2] = body.item}
<1>1. /\ doc \in Filings /\ body \in Usable(doc) /\ Len(doc) \in Nat
      /\ from \in 1..Len(doc) /\ body.to \in from..Len(doc)
  BY UsableBodies, ChunkFilingAssumption DEF FilingInv
<1>2. WellCut(cut, n, text)
  BY DEF FiledInv
<1>3. n \in Nat \ {0} /\ from + n - 1 = body.to /\ from \in Nat /\ MinChunk \in Nat
  BY <1>1, ChunkFilingAssumption DEF SentencesIn
<1>4. SUFFICES ASSUME NEW i \in from..body.to, ~ (Measure(doc, i, body.to) < MinChunk)
               PROVE  \E made \in own : /\ made.from <= i /\ i <= made.to
                                        /\ made \in Kept \/ ~ CarriedOn(made)
  BY DEF FiledUnder
<1>5. i - from + 1 \in 1..n /\ i \in Nat /\ i <= body.to
  BY <1>1, <1>3, <1>4
<1>6. PICK k \in 1..Len(cut) :
        /\ cut[k][1] <= i - from + 1 /\ i - from + 1 <= cut[k][2]
        /\ \/ k = Len(cut)
           \/ ~ (/\ Overlap > 0
                 /\ text[cut[k][2]] - text[cut[k][1] - 1] + Special <= Overlap)
  <2> HIDE DEF cut, text, n, from
  <2> QED BY <1>2, <1>3, <1>5, CutKept
<1>7. /\ cut[k][1] \in Nat /\ cut[k][2] \in Nat
      /\ 1 <= cut[k][1] /\ cut[k][1] <= cut[k][2] /\ cut[k][2] <= n
      /\ k = Len(cut) => cut[k][2] = n
  BY <1>2 DEF WellCut
<1> DEFINE made == Made(body, k)
           p == cut[k][1] - 1
           q == cut[k][2]
<1>8. /\ made.id = <<body.part, body.item, k>>
      /\ made.from = from + p /\ made.to = from + q - 1
  <2>1. /\ made.id = <<body.part, body.item, k>>
        /\ made.from = from + cut[k][1] - 1 /\ made.to = from + cut[k][2] - 1
    BY DEF Made
  <2>2. from + cut[k][1] - 1 = from + p
    <3> HIDE DEF cut, from
    <3> QED BY <1>3, <1>7
  <2> QED BY <2>1, <2>2
<1>9. made \in AllMade
  BY DEF AllMade
<1>10. made \in own
  <2>1. made.id[1] = body.part /\ made.id[2] = body.item
    BY <1>8
  <2> HIDE DEF made
  <2> QED BY <1>9, <2>1
<1>11. /\ p \in 0..n /\ q \in 0..n /\ p <= q
       /\ p <= i - from /\ i - from + 1 <= q
  <2> HIDE DEF cut, from
  <2> QED BY <1>3, <1>5, <1>6, <1>7
<1>12. made.from \in Nat /\ made.from <= i /\ i <= made.to
  <2> HIDE DEF made, p, q, from
  <2> QED BY <1>3, <1>5, <1>8, <1>11
<1>13. CASE k = Len(cut)
  <2>1. made.to = body.to
    BY <1>3, <1>7, <1>8, <1>13
  <2>2. Measure(doc, made.from, made.to) >= MinChunk
    <3> DEFINE at == Offset(doc)
    <3>1. /\ made.from \in 1..(Len(doc) + 1) /\ i \in 1..(Len(doc) + 1)
          /\ body.to + 1 \in 1..(Len(doc) + 1) /\ i <= body.to + 1
      <4>1. made.from >= 1
        <5> HIDE DEF made, p, from
        <5> QED BY <1>1, <1>8, <1>11
      <4> HIDE DEF made
      <4> QED BY <1>1, <1>5, <1>12, <4>1
    <3>2. /\ at[made.from] \in Nat /\ at[i] \in Nat /\ at[made.from] <= at[i]
      <4> HIDE DEF made
      <4> QED BY <1>1, <1>12, <3>1, OffsetsAscend, FilingMeasured
    <3>3. at[body.to + 1] \in Nat
      BY <1>1, <3>1, OffsetsAscend, FilingMeasured
    <3>4. ~ (at[body.to + 1] - at[i] < MinChunk)
      BY <1>4 DEF Measure
    <3>5. Measure(doc, made.from, made.to) = at[body.to + 1] - at[made.from]
      BY <2>1 DEF Measure
    <3> HIDE DEF at, made
    <3> QED BY <1>3, <3>2, <3>3, <3>4, <3>5
  <2>3. made \in Kept
    <3> HIDE DEF made
    <3> QED BY <1>9, <2>2 DEF Kept
  <2> HIDE DEF made, own
  <2> QED BY <1>10, <1>12, <2>3
<1>14. CASE k # Len(cut)
  <2>1. Measure(InTokens(doc), made.from, made.to) = text[q] - text[p]
    <3>1. Measure(InTokens(doc), from + p, from + q - 1) = text[q] - text[p]
      <4> HIDE DEF p, q
      <4> QED BY <1>1, <1>11, UptoIs
    <3> QED BY <1>8, <3>1
  <2>2. ~ (Overlap > 0 /\ text[q] - text[p] + Special <= Overlap)
    BY <1>6, <1>14
  <2>3. ~ CarriedOn(made)
    <3> HIDE DEF made, p, q, text
    <3> QED BY <2>1, <2>2 DEF CarriedOn
  <2> HIDE DEF made, own
  <2> QED BY <1>10, <1>12, <2>3
<1> QED BY <1>13, <1>14

(* Whatever sections are found, and wherever their texts are cut: each     *)
(* line of a section that is long enough is in a chunk under the section's *)
(* part and item, but for an end too short for a chunk, and for lines in a *)
(* text that is too short for a chunk and has more tokens than the overlap *)
(* carries into the next one.                                              *)
THEOREM BodiesStayFiled == SpecFiling => [](DOMAIN split = usable => BodiesFiled)
<1>1. FilingInv /\ FiledInv => (DOMAIN split = usable => BodiesFiled)
  BY BodyFiled DEF BodiesFiled
<1> QED BY <1>1, FiledInvHolds, PTL

(* The ids of the chunks of a filing, however many sections are named      *)
(* alike in its text and however many texts are left out as too short: of  *)
(* two headings of one name only one is kept, and left-out chunks keep     *)
(* their number.                                                           *)
THEOREM IdsStayUnique == SpecFiling => []IdsUnique
<1>1. FilingInv => IdsUnique
  <2> SUFFICES ASSUME FilingInv PROVE IdsUnique
    OBVIOUS
  <2>1. doc \in Filings /\ DOMAIN split \subseteq Usable(doc) /\ records \subseteq AllMade
    BY DEF FilingInv
  <2>2. ASSUME NEW a \in AllMade, NEW b \in AllMade, a.id = b.id PROVE a = b
    <3>1. PICK s \in DOMAIN split : \E k \in 1..Len(split[s]) : a = Made(s, k)
      BY DEF AllMade
    <3>2. PICK k \in 1..Len(split[s]) : a = Made(s, k)
      BY <3>1
    <3>3. PICK t \in DOMAIN split : \E m \in 1..Len(split[t]) : b = Made(t, m)
      BY DEF AllMade
    <3>4. PICK m \in 1..Len(split[t]) : b = Made(t, m)
      BY <3>3
    <3>5. s.part = t.part /\ s.item = t.item /\ k = m
      BY <2>2, <3>2, <3>4 DEF Made
    <3>6. s = t
      BY <2>1, <3>5, UsableBodies
    <3> QED BY <3>2, <3>4, <3>5, <3>6
  <2>3. IsFiniteSet(AllMade)
    <3>1. IsFiniteSet(DOMAIN split)
      BY <2>1, UsableBodies, FS_Subset
    <3> DEFINE of(body) == {Made(body, k) : k \in 1..Len(split[body])}
               sets == {of(body) : body \in DOMAIN split}
    <3>2. IsFiniteSet(sets)
      <4> DEFINE f == [body \in DOMAIN split |-> of(body)]
      <4>1. f \in Surjection(DOMAIN split, sets)
        BY DEF Surjection
      <4> HIDE DEF f, sets
      <4> QED BY <3>1, <4>1, FS_Surjection
    <3>3. ASSUME NEW body \in DOMAIN split PROVE IsFiniteSet(of(body))
      <4> DEFINE f == [k \in 1..Len(split[body]) |-> Made(body, k)]
      <4>1. f \in Surjection(1..Len(split[body]), of(body))
        BY DEF Surjection
      <4>2. IsFiniteSet(1..Len(split[body]))
        <5>1. split[body] \in Seq(Nat \X Nat)
          BY DEF FilingInv
        <5>2. Len(split[body]) \in Nat
          BY <5>1
        <5> QED BY <5>2, FS_Interval
      <4> HIDE DEF f, of
      <4> QED BY <4>1, <4>2, FS_Surjection
    <3>4. AllMade = UNION sets
      BY DEF AllMade
    <3>5. \A set \in sets : IsFiniteSet(set)
      BY <3>3
    <3> HIDE DEF sets, of
    <3> QED BY <3>2, <3>4, <3>5, FS_UNION
  <2>4. IsFiniteSet(records)
    BY <2>1, <2>3, FS_Subset
  <2> DEFINE ids == {a.id : a \in records}
             f == [a \in records |-> a.id]
  <2>5. \A a, b \in records : a.id = b.id => a = b
    BY <2>1, <2>2
  <2>6. f \in Bijection(records, ids)
    <3>1. f \in [records -> ids] /\ \A a, b \in records : f[a] = f[b] => a = b
      BY <2>5
    <3>2. f \in Surjection(records, ids)
      BY DEF Surjection
    <3> HIDE DEF f, ids
    <3>3. f \in Injection(records, ids)
      BY <3>1 DEF Injection, IsInjective
    <3> QED BY <3>2, <3>3 DEF Bijection
  <2>7. Cardinality(records) = Cardinality(ids)
    <3> HIDE DEF f, ids
    <3> QED BY <2>4, <2>6, FS_Bijection DEF ExistsBijection
  <2> QED BY <2>5, <2>7 DEF IdsUnique
<1> QED BY <1>1, FilingInvHolds, PTL

-----------------------------------------------------------------------------
(* In a regular filing the headings that are found are the real ones.      *)
LEMMA LinesIn ==
  ASSUME NEW lines \in Filings
  PROVE  /\ Len(lines) \in Nat
         /\ Real(lines) \in SUBSET (1..Len(lines))
         /\ Rows(lines) \in SUBSET (1..Len(lines))
         /\ Candidates(lines) \in SUBSET (1..Len(lines))
         /\ \A i \in 1..Len(lines) : i \in Nat /\ i \in 1..(Len(lines) + 1)
<1>1. Len(lines) \in Nat
  BY ChunkFilingAssumption
<1> QED BY <1>1 DEF Real, Rows, Candidates

LEMMA KindsOf ==
  ASSUME NEW lines \in Filings, Plain(lines)
  PROVE  /\ Candidates(lines) = Rows(lines) \cup Real(lines)
         /\ \A h \in Real(lines) : lines[h].item # None
BY DEF Plain, Candidates, Rows, Real

LEMMA ContinuesIs ==
  ASSUME NEW lines \in Filings, NEW C \in SUBSET (1..Len(lines)),
         NEW i \in C, NEW j \in C, Adjacent(C, i, j)
  PROVE  Continues(lines, C, j) <=>
           Offset(lines)[j] - Offset(lines)[i] <= MaxGap /\ lines[j].item > lines[i].item
<1> DEFINE before == {k \in C : k < j}
<1>0. \A k \in C : k \in Nat
  BY LinesIn
<1>1. i \in before /\ before \in SUBSET Nat
  BY <1>0 DEF Adjacent
<1>2. \A k \in before : k <= i
  BY <1>0 DEF Adjacent
<1>3. Max(before) = i
  <2> HIDE DEF before
  <2> QED BY <1>1, <1>2, MaxIs
<1>4. Continues(lines, C, j) <=>
        /\ before # {}
        /\ Offset(lines)[j] - Offset(lines)[Max(before)] <= MaxGap
        /\ lines[j].item > lines[Max(before)].item
  BY DEF Continues
<1> HIDE DEF before
<1> QED BY <1>1, <1>3, <1>4

(* A run is all that lies between its ends, and goes on from the first.    *)
LEMMA RunIs ==
  ASSUME NEW lines \in Filings, NEW C \in SUBSET (1..Len(lines)), NEW i \in C
  PROVE  \E a, b \in C :
           /\ a <= i /\ i <= b
           /\ RunOf(lines, C, i) = Between(C, a, b)
           /\ \A k \in Between(C, a, b) \ {a} : Continues(lines, C, k)
<1> DEFINE run == RunOf(lines, C, i)
<1>0. Len(lines) \in Nat /\ \A k \in C : k \in Nat /\ k \in 0..Len(lines)
  BY LinesIn
<1>1. run \subseteq C /\ i \in run
  BY <1>0 DEF RunOf
<1>2. \A j \in run, k \in C : (i < k /\ k <= j) \/ (j < k /\ k <= i) => Continues(lines, C, k)
  BY DEF RunOf
<1>3. PICK a \in run : \A k \in run : a <= k
  <2> HIDE DEF run
  <2>1. run \in SUBSET Nat /\ run # {}
    BY <1>0, <1>1
  <2> QED BY <2>1, LeastOf
<1>4. PICK b \in run : \A k \in run : k <= b
  <2> HIDE DEF run
  <2>1. run \in SUBSET (0..Len(lines)) /\ run # {}
    BY <1>0, <1>1
  <2> QED BY <1>0, <2>1, GreatestOf
<1>5. a \in C /\ b \in C /\ a \in Nat /\ b \in Nat /\ i \in Nat /\ a <= i /\ i <= b
  BY <1>0, <1>1, <1>3, <1>4
<1>6. ASSUME NEW k \in C, a < k, k <= b PROVE Continues(lines, C, k)
  <2>1. (i < k /\ k <= b) \/ (a < k /\ k <= i)
    BY <1>0, <1>5, <1>6
  <2> HIDE DEF run
  <2> QED BY <1>2, <1>3, <1>4, <2>1
<1>7. ASSUME NEW j \in C, a <= j, j <= b PROVE j \in run
  <2>1. ASSUME NEW k \in C, (i < k /\ k <= j) \/ (j < k /\ k <= i)
        PROVE  Continues(lines, C, k)
    <3>1. a < k /\ k <= b
      BY <1>0, <1>5, <1>7, <2>1
    <3> QED BY <1>6, <3>1
  <2> QED BY <2>1 DEF RunOf
<1>8. run = Between(C, a, b)
  <2> HIDE DEF run
  <2> QED BY <1>1, <1>3, <1>4, <1>7 DEF Between
<1>9. \A k \in Between(C, a, b) \ {a} : Continues(lines, C, k)
  <2>1. \A k \in Between(C, a, b) \ {a} : k \in C /\ a < k /\ k <= b
    BY <1>0, <1>5 DEF Between
  <2> QED BY <1>6, <2>1
<1> QED BY <1>5, <1>8, <1>9

(* No run reaches from the contents into the sections.                     *)
LEMMA StartsOver ==
  ASSUME NEW lines \in Filings, Regular(lines),
         NEW r \in Rows(lines), NEW h \in Real(lines)
  PROVE  \E f \in Real(lines) :
           r < f /\ f <= h /\ ~ Continues(lines, Candidates(lines), f)
<1>0. /\ Plain(lines) /\ ContentsInFront(lines)
      /\ Candidates(lines) = Rows(lines) \cup Real(lines)
  BY KindsOf DEF Regular
<1>1. PICK f \in Real(lines) : \A k \in Real(lines) : f <= k
  <2>1. Real(lines) \in SUBSET Nat /\ Real(lines) # {}
    BY LinesIn
  <2> QED BY <2>1, LeastOf
<1>2. PICK l \in Rows(lines) : \A k \in Rows(lines) : k <= l
  <2>1. Rows(lines) \in SUBSET (0..Len(lines)) /\ Rows(lines) # {} /\ Len(lines) \in Nat
    BY LinesIn
  <2> QED BY <2>1, GreatestOf
<1>3. l < f /\ r < f
  BY <1>0 DEF ContentsInFront
<1>4. Adjacent(Candidates(lines), l, f)
  BY <1>0, <1>1, <1>2, <1>3 DEF Adjacent
<1>5. ~ (lines[f].item > lines[l].item)
  BY <1>0, <1>4 DEF ContentsInFront
<1>6. ~ Continues(lines, Candidates(lines), f)
  <2>1. Candidates(lines) \in SUBSET (1..Len(lines))
    BY LinesIn
  <2>2. l \in Candidates(lines) /\ f \in Candidates(lines)
    BY <1>0
  <2> QED BY <1>4, <1>5, <2>1, <2>2, ContinuesIs
<1> QED BY <1>1, <1>3, <1>6

LEMMA RunsApart ==
  ASSUME NEW lines \in Filings, Regular(lines),
         NEW a \in Candidates(lines), NEW b \in Candidates(lines), a <= b,
         \A k \in Between(Candidates(lines), a, b) \ {a} :
           Continues(lines, Candidates(lines), k)
  PROVE  \/ /\ a \in Rows(lines) /\ b \in Rows(lines)
            /\ Between(Candidates(lines), a, b) = Between(Rows(lines), a, b)
         \/ /\ a \in Real(lines) /\ b \in Real(lines)
            /\ Between(Candidates(lines), a, b) = Between(Real(lines), a, b)
<1>0. /\ Candidates(lines) = Rows(lines) \cup Real(lines)
      /\ \A r \in Rows(lines), h \in Real(lines) : r < h
      /\ \A k \in Candidates(lines) : k \in Nat
  BY KindsOf, LinesIn DEF Regular, ContentsInFront
<1>1. ~ (a \in Rows(lines) /\ b \in Real(lines))
  <2> SUFFICES ASSUME a \in Rows(lines), b \in Real(lines) PROVE FALSE
    OBVIOUS
  <2>1. PICK f \in Real(lines) :
          a < f /\ f <= b /\ ~ Continues(lines, Candidates(lines), f)
    BY StartsOver
  <2>2. f \in Between(Candidates(lines), a, b) \ {a}
    BY <1>0, <2>1 DEF Between
  <2> QED BY <2>1, <2>2
<1>2. ~ (a \in Real(lines) /\ b \in Rows(lines))
  BY <1>0
<1>3. CASE a \in Rows(lines) /\ b \in Rows(lines)
  <2>1. \A k \in Real(lines) : ~ (k <= b)
    BY <1>0, <1>3
  <2> QED BY <1>0, <1>3, <2>1 DEF Between
<1>4. CASE a \in Real(lines) /\ b \in Real(lines)
  <2>1. \A k \in Rows(lines) : ~ (a <= k)
    BY <1>0, <1>4
  <2> QED BY <1>0, <1>4, <2>1 DEF Between
<1> QED BY <1>0, <1>1, <1>2, <1>3, <1>4

(* Sections are told from contents as they are longer,                     *)
LEMMA RealKept ==
  ASSUME NEW lines \in Filings, Regular(lines), NEW h \in Real(lines)
  PROVE  Cardinality(RunOf(lines, Candidates(lines), h)) < TocMin
<1> DEFINE C == Candidates(lines)
           R == Real(lines)
<1>0. /\ C = Rows(lines) \cup R /\ C \in SUBSET (1..Len(lines)) /\ h \in C
      /\ Len(lines) \in Nat /\ R \in SUBSET (1..Len(lines))
      /\ \A k \in C : k \in Nat
  BY KindsOf, LinesIn DEF Regular
<1>1. PICK a \in C, b \in C :
        /\ a <= h /\ h <= b /\ RunOf(lines, C, h) = Between(C, a, b)
        /\ \A k \in Between(C, a, b) \ {a} : Continues(lines, C, k)
  <2> HIDE DEF C
  <2> QED BY <1>0, RunIs
<1>2. a <= b
  BY <1>0, <1>1
<1>3. h \notin Rows(lines)
  BY <1>0 DEF Regular, ContentsInFront
<1>4. a \in R /\ b \in R /\ Between(C, a, b) = Between(R, a, b)
  <2>1. h \in Between(C, a, b)
    BY <1>0, <1>1 DEF Between
  <2>2. h \notin Between(Rows(lines), a, b)
    BY <1>3 DEF Between
  <2> QED BY <1>1, <1>2, <2>1, <2>2, RunsApart
<1>5. ASSUME NEW g \in Between(R, a, b) \ {b} PROVE Short(lines, g)
  <2> DEFINE later == {k \in R : k > g}
  <2>1. g \in R /\ g \in Nat /\ b \in Nat /\ a <= g /\ g < b /\ a \in Nat
    BY <1>0, <1>4 DEF Between
  <2>2. later \in SUBSET Nat /\ b \in later
    BY <1>0, <1>4, <2>1
  <2>3. PICK n : n = Min(later) /\ n \in later /\ \A k \in later : n <= k
    <3> HIDE DEF later
    <3> QED BY <2>2, LeastAfter
  <2>4. n \in R /\ n > g /\ n <= b /\ n \in Nat /\ n \in C /\ g \in C
    BY <1>0, <2>1, <2>2, <2>3
  <2>5. Adjacent(C, g, n)
    <3>1. \A k \in R : k <= g \/ n <= k
      BY <1>0, <2>1, <2>3
    <3>2. \A k \in Rows(lines) : k < g
      BY <2>1 DEF Regular, ContentsInFront
    <3>3. \A k \in Rows(lines) : k <= g
      BY <1>0, <2>1, <3>2
    <3> QED BY <1>0, <2>4, <3>1, <3>3 DEF Adjacent
  <2>6. n \in Between(C, a, b) \ {a}
    BY <2>1, <2>4 DEF Between
  <2>7. Offset(lines)[n] - Offset(lines)[g] <= MaxGap
    <3>1. Continues(lines, C, n)
      BY <1>1, <2>6
    <3> HIDE DEF C
    <3> QED BY <1>0, <2>4, <2>5, <3>1, ContinuesIs
  <2>8. EndOf(lines, g) = n - 1 /\ (n - 1) + 1 = n
    BY <2>2, <2>3, <2>4 DEF EndOf
  <2> QED BY <2>7, <2>8 DEF Short, Measure
<1>6. ~ (Cardinality(Between(R, a, b)) >= TocMin)
  BY <1>4, <1>5 DEF Regular, NoShortRun
<1>7. Cardinality(Between(R, a, b)) \in Nat
  <2>1. IsFiniteSet(1..Len(lines))
    BY <1>0, FS_Interval
  <2>2. Between(R, a, b) \in SUBSET (1..Len(lines))
    BY <1>0 DEF Between
  <2> HIDE DEF R
  <2>3. IsFiniteSet(Between(R, a, b))
    BY <2>1, <2>2, FS_Subset
  <2> QED BY <2>3, FS_CardinalityType
<1>8. Cardinality(RunOf(lines, C, h)) = Cardinality(Between(R, a, b))
  BY <1>1, <1>4
<1> HIDE DEF C, R
<1> QED BY <1>6, <1>7, <1>8, SectionsAssumption DEF C

(* and contents rows are found where they are a long list.                 *)
LEMMA RowsKept ==
  ASSUME NEW lines \in Filings, Regular(lines), NEW r \in Rows(lines)
  PROVE  Cardinality(RunOf(lines, Candidates(lines), r)) < TocMin <=> r \in Unlisted(lines)
<1> DEFINE C == Candidates(lines)
           S == Rows(lines)
           Lists(a, b) ==
             /\ r \in Between(S, a, b)
             /\ Cardinality(Between(S, a, b)) >= TocMin
             /\ \A i, j \in Between(S, a, b) :
                  Adjacent(S, i, j) => lines[j].item > lines[i].item
<1>0. /\ C = S \cup Real(lines) /\ C \in SUBSET (1..Len(lines)) /\ r \in C
      /\ Len(lines) \in Nat /\ S \in SUBSET (1..Len(lines))
      /\ \A k \in C : k \in Nat
      /\ \A s \in S, h \in Real(lines) : s < h
  BY KindsOf, LinesIn DEF Regular, ContentsInFront
<1>a. ASSUME NEW i \in S, NEW j \in S, Adjacent(S, i, j) PROVE Adjacent(C, i, j)
  <2>1. \A k \in Real(lines) : j <= k
    BY <1>0
  <2> QED BY <1>0, <1>a, <2>1 DEF Adjacent
<1>b. IsFiniteSet(RunOf(lines, C, r)) /\ Cardinality(RunOf(lines, C, r)) \in Nat
  <2>1. IsFiniteSet(1..Len(lines))
    BY <1>0, FS_Interval
  <2>2. RunOf(lines, C, r) \in SUBSET (1..Len(lines))
    BY <1>0 DEF RunOf
  <2> HIDE DEF C
  <2>3. IsFiniteSet(RunOf(lines, C, r))
    BY <2>1, <2>2, FS_Subset
  <2> QED BY <2>3, FS_CardinalityType
<1>c. r \in Unlisted(lines) <=> ~ \E a, b \in S : Lists(a, b)
  BY DEF Unlisted
<1>1. ASSUME NEW a \in S, NEW b \in S, Lists(a, b)
      PROVE  Cardinality(RunOf(lines, C, r)) >= TocMin
  <2>0. /\ a \in Nat /\ b \in Nat /\ r \in Nat /\ a <= r /\ r <= b
        /\ \A k \in Between(S, a, b) : k \in S /\ a <= k /\ k <= b
    BY <1>0, <1>1 DEF Between
  <2>1. ASSUME NEW k \in C, a < k, k <= b PROVE Continues(lines, C, k)
    <3>1. k \in S
      <4>1. \A h \in Real(lines) : b < h
        BY <1>0
      <4> QED BY <1>0, <2>0, <2>1, <4>1
    <3> DEFINE before == {x \in S : x < k}
    <3>2. before \in SUBSET (0..Len(lines)) /\ a \in before
      BY <1>0, <2>1
    <3>3. PICK p \in before : \A x \in before : x <= p
      <4> HIDE DEF before
      <4> QED BY <1>0, <3>2, GreatestOf
    <3>4. p \in S /\ p < k /\ a <= p /\ p \in Nat /\ k \in Nat /\ p <= b
      BY <1>0, <2>0, <2>1, <3>2, <3>3
    <3>5. Adjacent(S, p, k)
      BY <1>0, <3>3, <3>4 DEF Adjacent
    <3>6. p \in Between(S, a, b) /\ k \in Between(S, a, b)
      BY <2>0, <2>1, <3>1, <3>4 DEF Between
    <3>7. lines[k].item > lines[p].item
      BY <1>1, <3>5, <3>6
    <3>8. Offset(lines)[k] - Offset(lines)[p] <= MaxGap
      <4>1. Measure(lines, p, k - 1) <= MaxGap
        BY <3>1, <3>4, <3>5 DEF Regular, ContentsInFront
      <4>2. (k - 1) + 1 = k
        BY <3>4
      <4> QED BY <4>1, <4>2 DEF Measure
    <3>9. Adjacent(C, p, k) /\ p \in C /\ k \in C
      BY <1>0, <1>a, <3>1, <3>4, <3>5
    <3> HIDE DEF C, before, S
    <3> QED BY <1>0, <3>7, <3>8, <3>9, ContinuesIs
  <2>2. Between(S, a, b) \subseteq RunOf(lines, C, r)
    <3> SUFFICES ASSUME NEW j \in Between(S, a, b) PROVE j \in RunOf(lines, C, r)
      OBVIOUS
    <3>1. j \in S /\ a <= j /\ j <= b /\ j \in C /\ j \in Nat
      BY <1>0, <2>0
    <3>2. ASSUME NEW k \in C, (r < k /\ k <= j) \/ (j < k /\ k <= r)
          PROVE  Continues(lines, C, k)
      <4>1. a < k /\ k <= b
        BY <1>0, <2>0, <3>1, <3>2
      <4> QED BY <2>1, <4>1
    <3> QED BY <3>1, <3>2 DEF RunOf
  <2>3. Cardinality(Between(S, a, b)) <= Cardinality(RunOf(lines, C, r))
    BY <1>b, <2>2, FS_Subset
  <2>4. Cardinality(Between(S, a, b)) \in Nat
    BY <1>b, <2>2, FS_Subset, FS_CardinalityType
  <2>5. Cardinality(Between(S, a, b)) >= TocMin
    BY <1>1
  <2> HIDE DEF C, S
  <2> QED BY <1>b, <2>3, <2>4, <2>5, SectionsAssumption
<1>2. ASSUME Cardinality(RunOf(lines, C, r)) >= TocMin
      PROVE  \E a, b \in S : Lists(a, b)
  <2>1. PICK a \in C, b \in C :
          /\ a <= r /\ r <= b /\ RunOf(lines, C, r) = Between(C, a, b)
          /\ \A k \in Between(C, a, b) \ {a} : Continues(lines, C, k)
    <3> HIDE DEF C
    <3> QED BY <1>0, RunIs
  <2>2. a <= b /\ r \in Between(C, a, b)
    BY <1>0, <2>1 DEF Between
  <2>3. r \notin Real(lines)
    BY <1>0
  <2>4. a \in S /\ b \in S /\ Between(C, a, b) = Between(S, a, b)
    <3>1. r \notin Between(Real(lines), a, b)
      BY <2>3 DEF Between
    <3> QED BY <2>1, <2>2, <3>1, RunsApart
  <2>5. ASSUME NEW i \in Between(S, a, b), NEW j \in Between(S, a, b), Adjacent(S, i, j)
        PROVE  lines[j].item > lines[i].item
    <3>1. i \in S /\ j \in S /\ i \in C /\ j \in C /\ a <= i /\ i < j
      BY <1>0, <2>5 DEF Between, Adjacent
    <3>2. j # a
      BY <1>0, <2>4, <3>1
    <3>3. Continues(lines, C, j)
      BY <2>1, <2>4, <3>2
    <3>4. Adjacent(C, i, j)
      BY <1>a, <2>5, <3>1
    <3> HIDE DEF C, S
    <3> QED BY <1>0, <3>1, <3>3, <3>4, ContinuesIs
  <2>6. Lists(a, b)
    BY <1>2, <2>1, <2>2, <2>4, <2>5
  <2> HIDE DEF Lists
  <2> QED BY <2>4, <2>6
<1> DEFINE size == Cardinality(RunOf(lines, C, r))
<1>3. size >= TocMin <=> ~ (r \in Unlisted(lines))
  <2> HIDE DEF Lists, C, S
  <2> QED BY <1>1, <1>2, <1>c DEF C
<1>4. size \in Nat /\ TocMin \in Nat
  BY <1>b, SectionsAssumption
<1> HIDE DEF size
<1>5. size < TocMin <=> r \in Unlisted(lines)
  BY <1>3, <1>4
<1> QED BY <1>5 DEF size

LEMMA ContentsDropped ==
  ASSUME NEW lines \in Filings, Regular(lines)
  PROVE  DropContents(lines, Candidates(lines)) = Unlisted(lines) \cup Real(lines)
<1> DEFINE few == {i \in Candidates(lines) :
                     Cardinality(RunOf(lines, Candidates(lines), i)) < TocMin}
<1>1. /\ Candidates(lines) = Rows(lines) \cup Real(lines)
      /\ Real(lines) # {} /\ Unlisted(lines) \subseteq Rows(lines)
  BY KindsOf DEF Regular, Unlisted
<1>2. few = Unlisted(lines) \cup Real(lines)
  BY <1>1, RealKept, RowsKept
<1>3. DropContents(lines, Candidates(lines)) = IF few = {} THEN Candidates(lines) ELSE few
  BY DEF DropContents
<1> HIDE DEF few
<1> QED BY <1>1, <1>2, <1>3

LEMMA RealExtent ==
  ASSUME NEW lines \in Filings, Regular(lines), NEW h \in Real(lines)
  PROVE  /\ EndOf(lines, h) \in h..Len(lines)
         /\ Extent(lines, Unlisted(lines) \cup Real(lines), h)
              = Measure(lines, h, EndOf(lines, h))
<1> DEFINE S == Unlisted(lines) \cup Real(lines)
           after == {k \in S : k > h}
           later == {k \in Real(lines) : k > h}
<1>0. /\ Len(lines) \in Nat /\ h \in Nat /\ h \in 1..Len(lines)
      /\ Real(lines) \subseteq 1..Len(lines)
      /\ \A r \in Rows(lines) : r \in Nat /\ r < h
      /\ Unlisted(lines) \subseteq Rows(lines)
  BY LinesIn DEF Regular, ContentsInFront, Unlisted
<1>1. after = later
  BY <1>0
<1>2. Extent(lines, S, h) =
        Offset(lines)[IF after = {} THEN Len(lines) + 1 ELSE Min(after)] - Offset(lines)[h]
  BY DEF Extent
<1>3. EndOf(lines, h) = IF later = {} THEN Len(lines) ELSE Min(later) - 1
  BY DEF EndOf
<1>4. later \in SUBSET Nat /\ \A k \in later : k > h /\ k \in 1..Len(lines)
  BY <1>0
<1> HIDE DEF S, after, later
<1>5. CASE later = {}
  BY <1>0, <1>1, <1>2, <1>3, <1>5 DEF Measure, S
<1>6. CASE later # {}
  <2>1. Min(later) \in later
    BY <1>4, <1>6, LeastAfter
  <2>2. Min(later) > h /\ Min(later) \in 1..Len(lines)
    BY <1>4, <2>1
  <2>3. (Min(later) - 1) + 1 = Min(later) /\ Min(later) - 1 \in h..Len(lines)
    BY <1>0, <2>2
  <2> QED BY <1>1, <1>2, <1>3, <1>6, <2>3 DEF Measure, S
<1> QED BY <1>5, <1>6

(* Where contents are left, the section is the larger.                     *)
LEMMA UndersizedDropped ==
  ASSUME NEW lines \in Filings, Regular(lines)
  PROVE  DropUndersized(lines, Unlisted(lines) \cup Real(lines)) = Real(lines)
<1> DEFINE S == Unlisted(lines) \cup Real(lines)
<1>0. /\ S \in SUBSET (1..Len(lines)) /\ MinSection \in Nat
      /\ \A i \in S : i \in Nat /\ Extent(lines, S, i) \in Int
      /\ Unlisted(lines) \subseteq Rows(lines)
      /\ \A r \in Rows(lines), h \in Real(lines) : r < h
  <2>1. Unlisted(lines) \subseteq Rows(lines)
    BY DEF Unlisted
  <2>2. S \in SUBSET (1..Len(lines)) /\ \A i \in S : i \in Nat
    BY <2>1, LinesIn
  <2> HIDE DEF S
  <2>3. \A i \in S : Extent(lines, S, i) \in Int
    BY <2>2, ExtentType
  <2> QED BY <2>1, <2>2, <2>3, SectionsAssumption DEF Regular, ContentsInFront
<1>1. ASSUME NEW g \in Real(lines), NEW h \in Real(lines),
             lines[g].item = lines[h].item, PartAt(lines, g) = PartAt(lines, h)
      PROVE  g = h
  BY <1>1 DEF Regular, Plain
<1>2. ASSUME NEW r \in Unlisted(lines)
      PROVE  /\ Extent(lines, S, r) < MinSection
             /\ \E h \in Real(lines) : /\ lines[h].item = lines[r].item
                                       /\ PartAt(lines, h) = PartAt(lines, r)
                                       /\ Extent(lines, S, h) >= MinSection
  <2>1. PICK h \in Real(lines) : /\ lines[h].item = lines[r].item
                                 /\ PartAt(lines, h) = PartAt(lines, r)
                                 /\ Measure(lines, h, EndOf(lines, h)) >= MinSection
    BY DEF Regular, ContentsTellApart
  <2>2. Extent(lines, S, h) >= MinSection
    BY <2>1, RealExtent
  <2>3. Extent(lines, S, r) < MinSection
    BY DEF Regular, ContentsTellApart
  <2> QED BY <2>1, <2>2, <2>3
<1>3. ASSUME NEW h \in Real(lines) PROVE h \in DropUndersized(lines, S)
  <2>1. h \in SameSection(lines, S, h)
    BY DEF SameSection
  <2>2. CASE SameSection(lines, S, h) = {h}
    BY <2>2 DEF DropUndersized
  <2>3. CASE SameSection(lines, S, h) # {h}
    <3>1. ASSUME NEW j \in SameSection(lines, S, h) \ {h}
          PROVE  Extent(lines, S, h) >= MinSection /\ Extent(lines, S, j) < MinSection
      <4>1. /\ j \in S /\ lines[j].item = lines[h].item
            /\ PartAt(lines, j) = PartAt(lines, h)
        BY DEF SameSection
      <4>2. j \in Unlisted(lines)
        BY <1>1, <4>1
      <4>3. PICK g \in Real(lines) : /\ lines[g].item = lines[j].item
                                     /\ PartAt(lines, g) = PartAt(lines, j)
                                     /\ Extent(lines, S, g) >= MinSection
        BY <1>2, <4>2
      <4>4. g = h
        BY <1>1, <4>1, <4>3
      <4> QED BY <1>2, <4>2, <4>3, <4>4
    <3>2. PICK j : j \in SameSection(lines, S, h) \ {h}
      BY <2>1, <2>3
    <3>3. \A j2 \in SameSection(lines, S, h) \ {h} : Extent(lines, S, j2) < Extent(lines, S, h)
      <4>1. ASSUME NEW j2 \in SameSection(lines, S, h) \ {h}
            PROVE  Extent(lines, S, j2) < Extent(lines, S, h)
        <5>1. j2 \in S /\ h \in S
          BY DEF SameSection
        <5>2. Extent(lines, S, j2) \in Int /\ Extent(lines, S, h) \in Int
          BY <1>0, <5>1
        <5>3. Extent(lines, S, h) >= MinSection /\ Extent(lines, S, j2) < MinSection
          BY <3>1
        <5> HIDE DEF S
        <5> QED BY <1>0, <5>2, <5>3
      <4> QED BY <4>1
    <3>4. Extent(lines, S, h) >= MinSection /\ h \in S
      BY <3>1, <3>2
    <3> HIDE DEF S
    <3> QED BY <3>3, <3>4 DEF DropUndersized
  <2> QED BY <2>2, <2>3
<1>4. ASSUME NEW r \in Unlisted(lines) PROVE r \notin DropUndersized(lines, S)
  <2>1. PICK h \in Real(lines) : /\ lines[h].item = lines[r].item
                                 /\ PartAt(lines, h) = PartAt(lines, r)
    BY <1>2
  <2>2. h \in SameSection(lines, S, r) /\ h # r
    <3>1. h \in SameSection(lines, S, r)
      BY <2>1 DEF SameSection
    <3>2. r < h /\ r \in Nat /\ h \in Nat
      BY <1>0
    <3> QED BY <3>1, <3>2
  <2>3. Extent(lines, S, r) < MinSection /\ Extent(lines, S, r) \in Int
    BY <1>0, <1>2
  <2>4. ~ (Extent(lines, S, r) >= MinSection)
    <3> DEFINE e == Extent(lines, S, r)
    <3>1. e < MinSection /\ e \in Int
      BY <2>3
    <3> HIDE DEF e
    <3>2. ~ (e >= MinSection)
      BY <1>0, <3>1
    <3> QED BY <3>2 DEF e
  <2> HIDE DEF S
  <2> QED BY <2>2, <2>4 DEF DropUndersized
<1>5. DropUndersized(lines, S) \subseteq S
  BY DEF DropUndersized
<1> QED BY <1>3, <1>4, <1>5

LEMMA HeadingsFound ==
  ASSUME NEW lines \in Filings, Regular(lines)
  PROVE  Headings(lines) = Real(lines)
BY ContentsDropped, UndersizedDropped DEF Headings

(* The body of a section, and that a heading alone is not one.             *)
LEMMA BodyOfReal ==
  ASSUME NEW lines \in Filings, Regular(lines), NEW h \in Real(lines), NEW body,
         body = StripHeading(lines, SectionAt(lines, h))
  PROVE  /\ lines[h].of = <<body.part, body.item>>
         /\ body.to = EndOf(lines, h)
         /\ body.from = IF h < EndOf(lines, h) THEN h + 1 ELSE h
         /\ h = EndOf(lines, h) => Measure(lines, body.from, body.to) < MinChunk
<1>0. /\ Headings(lines) = Real(lines) /\ Real(lines) # {} /\ lines[h].item # None
      /\ lines[h].of = <<PartAt(lines, h), lines[h].item>> /\ lines[h].size < MinChunk
      /\ h \in 1..Len(lines) /\ Len(lines) \in Nat /\ EndOf(lines, h) \in h..Len(lines)
  BY HeadingsFound, KindsOf, LinesIn, RealExtent DEF Regular, Plain
<1>1. SectionAt(lines, h) = [part |-> PartAt(lines, h), item |-> lines[h].item,
                             from |-> h, to |-> EndOf(lines, h)]
  BY <1>0 DEF SectionAt, EndOf
<1>2. body = IF h < EndOf(lines, h)
             THEN [part |-> PartAt(lines, h), item |-> lines[h].item,
                   from |-> h + 1, to |-> EndOf(lines, h)]
             ELSE [part |-> PartAt(lines, h), item |-> lines[h].item,
                   from |-> h, to |-> EndOf(lines, h)]
  BY <1>0, <1>1 DEF StripHeading
<1>3. /\ body.part = PartAt(lines, h) /\ body.item = lines[h].item
      /\ body.to = EndOf(lines, h) /\ body.from = IF h < EndOf(lines, h) THEN h + 1 ELSE h
  BY <1>2
<1>4. Measure(lines, h, h) = lines[h].size
  <2>1. /\ h + 1 \in 2..(Len(lines) + 1) /\ (h + 1) - 1 = h /\ h \in 1..(Len(lines) + 1)
        /\ h + 1 \in 1..(Len(lines) + 1) /\ h <= h + 1
    BY <1>0
  <2>2. Offset(lines)[h + 1] = Offset(lines)[h] + lines[h].size
    <3>1. \A i \in 2..(Len(lines) + 1) :
            Offset(lines)[i] = Offset(lines)[i - 1] + lines[i - 1].size
      BY OffsetsDefined, FilingMeasured DEF OffsetsUpto
    <3>2. Offset(lines)[h + 1] = Offset(lines)[(h + 1) - 1] + lines[(h + 1) - 1].size
      BY <2>1, <3>1
    <3> QED BY <2>1, <3>2
  <2>3. Offset(lines)[h] \in Nat /\ lines[h].size \in Nat
    BY <1>0, <2>1, OffsetsAscend, FilingMeasured, ChunkFilingAssumption
  <2> QED BY <2>2, <2>3 DEF Measure
<1>5. h = EndOf(lines, h) => body.from = h /\ body.to = h
  BY <1>0, <1>3
<1> QED BY <1>0, <1>3, <1>4, <1>5

(* The starts of sections of a regular filing                              *)
LEMMA BodiesOfReal ==
  ASSUME NEW lines \in Filings, Regular(lines), NEW body \in Usable(lines)
  PROVE  \E h \in Real(lines) :
           /\ lines[h].of = <<body.part, body.item>>
           /\ body.from = h + 1 /\ body.to = EndOf(lines, h)
<1>1. Starts(lines) = Real(lines)
  BY HeadingsFound DEF Starts, Regular
<1>2. PICK h \in Real(lines) : body = StripHeading(lines, SectionAt(lines, h))
  BY <1>1, SectionsListed DEF Usable
<1>3. /\ lines[h].of = <<body.part, body.item>> /\ body.to = EndOf(lines, h)
      /\ body.from = IF h < EndOf(lines, h) THEN h + 1 ELSE h
      /\ h = EndOf(lines, h) => Measure(lines, body.from, body.to) < MinChunk
  BY <1>2, BodyOfReal
<1>4. Measure(lines, body.from, body.to) \in Nat
  <2>1. body.from \in 1..Len(lines) /\ body.to \in body.from..Len(lines)
    BY UsableBodies
  <2>2. /\ body.from \in 1..(Len(lines) + 1) /\ body.to \in 0..Len(lines)
        /\ body.from <= body.to + 1
    BY <2>1, LinesIn
  <2> QED BY <2>2, MeasureType, FilingMeasured
<1>5. Measure(lines, body.from, body.to) >= MinChunk
  BY DEF Usable
<1>6. h # EndOf(lines, h)
  BY <1>3, <1>4, <1>5, ChunkFilingAssumption
<1>7. h < EndOf(lines, h)
  <2>1. EndOf(lines, h) \in h..Len(lines) /\ h \in Nat /\ Len(lines) \in Nat
    BY RealExtent, LinesIn
  <2> QED BY <1>6, <2>1
<1> QED BY <1>3, <1>7

LEMMA SectionFiled ==
  ASSUME FilingInv, FiledInv, DOMAIN split = usable, Regular(doc),
         NEW h \in Real(doc), Measure(doc, h + 1, EndOf(doc, h)) >= MinChunk
  PROVE  FiledUnder(doc[h].of[1], doc[h].of[2], h + 1, EndOf(doc, h))
<1> DEFINE body == StripHeading(doc, SectionAt(doc, h))
<1>0. /\ doc \in Filings /\ usable = Usable(doc)
      /\ EndOf(doc, h) \in h..Len(doc) /\ h \in 1..Len(doc) /\ Len(doc) \in Nat
  BY RealExtent, LinesIn DEF FilingInv
<1>1. h < EndOf(doc, h)
  <2> SUFFICES ASSUME h = EndOf(doc, h) PROVE FALSE
    BY <1>0
  <2>1. Measure(doc, h + 1, h) = Offset(doc)[h + 1] - Offset(doc)[h + 1]
    BY DEF Measure
  <2>2. Offset(doc)[h + 1] \in Nat
    <3>1. h + 1 \in 1..(Len(doc) + 1) /\ h + 1 <= h + 1
      BY <1>0
    <3> QED BY <1>0, <3>1, OffsetsAscend, FilingMeasured
  <2> QED BY <2>1, <2>2, ChunkFilingAssumption
<1>2. /\ doc[h].of = <<body.part, body.item>>
      /\ body.to = EndOf(doc, h) /\ body.from = h + 1
  <2> HIDE DEF body
  <2> QED BY <1>0, <1>1, BodyOfReal DEF body
<1>3. body \in usable
  <2>1. Starts(doc) = Real(doc)
    BY <1>0, HeadingsFound DEF Starts, Regular
  <2>2. SectionAt(doc, h) \in SectionsOf(doc)
    BY <1>0, <2>1, SectionsListed
  <2> QED BY <1>0, <1>2, <2>2 DEF Usable
<1> HIDE DEF body
<1>4. FiledUnder(body.part, body.item, body.from, body.to)
  BY <1>3, BodyFiled
<1>5. doc[h].of[1] = body.part /\ doc[h].of[2] = body.item
  BY <1>2
<1> QED BY <1>2, <1>4, <1>5

(* The same of the real sections of a regular filing: _build_chunks leaves *)
(* out no line of theirs but in an end too short for a chunk or in a short *)
(* text of more tokens than the overlap.                                   *)
THEOREM NothingIsSkipped == SpecFiling => []NothingSkipped
<1>1. FilingInv /\ FiledInv => NothingSkipped
  BY BodyFiled, SectionFiled DEF NothingSkipped, BodiesFiled, SectionsFiled
<1> QED BY <1>1, FiledInvHolds, PTL

(* Every chunk of a regular filing is a piece of the section that its id   *)
(* and metadata name: no heading is taken from the contents, none is       *)
(* missed, and no chunk reaches over the end of its section.               *)
THEOREM ItemsStayRight == SpecFiling => []RightItem
<1>1. ASSUME FilingInv, FiledInv, Regular(doc), NEW made \in records
      PROVE  \E h \in Real(doc) : /\ h < made.from /\ made.to <= EndOf(doc, h)
                                  /\ doc[h].of = <<made.id[1], made.id[2]>>
  <2>0. /\ doc \in Filings /\ usable = Usable(doc) /\ DOMAIN split \subseteq usable
        /\ records \subseteq AllMade
    BY <1>1 DEF FilingInv
  <2>1. PICK body \in DOMAIN split : \E k \in 1..Len(split[body]) : made = Made(body, k)
    BY <2>0 DEF AllMade
  <2>2. PICK k \in 1..Len(split[body]) : made = Made(body, k)
    BY <2>1
  <2>3. PICK h \in Real(doc) : /\ doc[h].of = <<body.part, body.item>>
                               /\ body.from = h + 1 /\ body.to = EndOf(doc, h)
    BY <1>1, <2>0, BodiesOfReal
  <2> DEFINE a == split[body][k][1]
             b == split[body][k][2]
  <2>4. a \in Nat /\ b \in Nat /\ 1 <= a /\ b <= SentencesIn(body)
    <3>1. WellCut(split[body], SentencesIn(body), Upto(doc, body))
      BY <1>1 DEF FiledInv
    <3> QED BY <3>1 DEF WellCut
  <2>5. made.from = body.from + a - 1 /\ made.to = body.from + b - 1
    BY <2>2 DEF Made
  <2>6. made.id[1] = body.part /\ made.id[2] = body.item
    BY <2>2 DEF Made
  <2>7. h \in Nat /\ body.to \in Nat /\ body.from \in Nat
    <3>1. body.from \in 1..Len(doc) /\ body.to \in body.from..Len(doc) /\ h \in Nat
      BY <2>0, UsableBodies, LinesIn
    <3> QED BY <2>0, <3>1, LinesIn
  <2> HIDE DEF a, b
  <2>8. h < made.from /\ made.to <= EndOf(doc, h)
    BY <2>3, <2>4, <2>5, <2>7 DEF SentencesIn
  <2> QED BY <2>3, <2>6, <2>8
<1>2. FilingInv /\ FiledInv => RightItem
  BY <1>1 DEF RightItem
<1> QED BY <1>2, FiledInvHolds, PTL
=============================================================================
