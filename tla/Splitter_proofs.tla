--------------------------- MODULE Splitter_proofs ---------------------------
(***************************************************************************)
(* What holds of packing for every text, budget, overlap, size of special  *)
(* tokens and choice of breakpoints.                                       *)
(***************************************************************************)
EXTENDS Splitter, TLAPS

-----------------------------------------------------------------------------
(* Multiples of the special tokens.                                        *)
LEMMA Multiples ==
  ASSUME NEW k \in Nat, NEW s \in Nat
  PROVE  /\ k * s \in Nat
         /\ (k + 1) * s = k * s + s
         /\ 0 * s = 0
         /\ k >= 1 => k * s >= s
<1>1. k * s \in Nat /\ (k + 1) * s = k * s + s /\ 0 * s = 0
  OBVIOUS
<1>2. ASSUME k >= 1 PROVE k * s >= s
  <2>1. k - 1 \in Nat
    BY <1>2
  <2>2. (k - 1) * s \in Nat
    BY <2>1
  <2>3. k * s = (k - 1) * s + s
    OBVIOUS
  <2> QED BY <2>2, <2>3
<1> QED BY <1>1, <1>2

(* Texts never get shorter, so that all sizes are natural numbers, and the *)
(* sum of sizes is an upper bound of the joined count.                     *)
LEMMA SumBoundsCount ==
  ASSUME TypeOK, StageInv, NEW a \in 1..(length + 1), NEW b \in 0..length, a <= b + 1
  PROVE  /\ Count(a, b) \in Nat /\ SumOfSizes(a, b) \in Nat
         /\ a <= b => Count(a, b) <= SumOfSizes(a, b)
         /\ a = b + 1 => SumOfSizes(a, b) = 0
<1> DEFINE k == b + 1 - a
<1>1. k \in Nat
  BY DEF TypeOK
<1>2. a - 1 \in 0..length /\ upto[b] \in Nat /\ upto[a - 1] \in Nat /\ Special \in Nat
  BY SplitterAssumption DEF TypeOK
<1>3. upto[b] - upto[a - 1] \in Nat
  BY <1>2 DEF StageInv
<1>4. k * Special \in Nat /\ (k >= 1 => k * Special >= Special) /\ 0 * Special = 0
  BY <1>1, <1>2, Multiples
<1>5. SumOfSizes(a, b) = (upto[b] - upto[a - 1]) + k * Special
  BY DEF SumOfSizes
<1>6. Count(a, b) = (upto[b] - upto[a - 1]) + Special
  BY DEF Count
<1>7. a <= b => k >= 1
  BY DEF TypeOK
<1>8. a = b + 1 => k = 0 /\ upto[b] - upto[a - 1] = 0
  BY <1>2 DEF TypeOK
<1> HIDE DEF k
<1> QED BY <1>2, <1>3, <1>4, <1>5, <1>6, <1>7, <1>8

(* One sentence more adds its size.                                        *)
LEMMA SumGrows ==
  ASSUME TypeOK, NEW a \in 1..(length + 1), NEW b \in 0..length,
         a <= b + 1, b + 1 \in 0..length
  PROVE  SumOfSizes(a, b + 1) = SumOfSizes(a, b) + Size(b + 1)
<1> DEFINE k == b + 1 - a
<1>1. k \in Nat /\ Special \in Nat
  BY SplitterAssumption DEF TypeOK
<1>2. (k + 1) * Special = k * Special + Special /\ k * Special \in Nat
  BY <1>1, Multiples
<1>3. upto[b] \in Nat /\ upto[b + 1] \in Nat /\ upto[a - 1] \in Nat
  BY DEF TypeOK
<1>4. SumOfSizes(a, b) = upto[b] - upto[a - 1] + k * Special
  BY DEF SumOfSizes
<1>5. b + 1 + 1 - a = k + 1
  BY DEF TypeOK
<1>6. SumOfSizes(a, b + 1) = upto[b + 1] - upto[a - 1] + (k + 1) * Special
  BY <1>5 DEF SumOfSizes
<1>7. Size(b + 1) = upto[b + 1] - upto[b] + Special
  BY DEF Size
<1> HIDE DEF k
<1> QED BY <1>1, <1>2, <1>3, <1>4, <1>6, <1>7

(* What is carried is an end of the chunk, or nothing; it is one sentence  *)
(* or fits into the overlap.                                               *)
LEMMA Carried ==
  ASSUME TypeOK, StageInv, Nonempty, NEW k \in CarryStarts(first, index - 1)
  PROVE  /\ k \in 1..(length + 1) /\ first <= k /\ k <= index
         /\ k < index => k = index - 1 \/ Count(k, index - 1) <= Target
         /\ SumOfSizes(k, index - 1) \in Nat
<1>1. k \in 1..(length + 1) /\ first <= k /\ k <= index /\ index - 1 \in 0..length
  BY DEF TypeOK, Nonempty, CarryStarts
<1>2. /\ Count(k, index - 1) \in Nat /\ SumOfSizes(k, index - 1) \in Nat
      /\ k <= index - 1 => Count(k, index - 1) <= SumOfSizes(k, index - 1)
  <2>1. k <= (index - 1) + 1
    BY <1>1 DEF TypeOK
  <2> QED BY <1>1, <2>1, SumBoundsCount
<1>3. k < index => Fits(k, index - 1)
  BY <1>1 DEF CarryStarts, TypeOK, Nonempty
<1>4. Overlap \in Nat /\ Target \in Nat /\ Overlap < Target
  BY SplitterAssumption
<1>5. k < index => k = index - 1 \/ Count(k, index - 1) <= Target
  BY <1>1, <1>2, <1>3, <1>4 DEF Fits, TypeOK
<1> QED BY <1>1, <1>2, <1>5

-----------------------------------------------------------------------------
(* Before the first text everything holds.                                 *)
LEMMA InitHolds == Init => TypeOK /\ PackInv
<1> SUFFICES ASSUME Init PROVE TypeOK /\ PackInv
  OBVIOUS
<1>1. TypeOK
  BY DEF Init, TypeOK
<1>2. 0 * Special = 0
  BY SplitterAssumption, Multiples
<1>3. StageInv
  BY <1>2 DEF Init, StageInv, SumOfSizes
<1>4. BudgetInv /\ AdjoinInv /\ AdvanceInv /\ CarryInv
  BY DEF Init, BudgetInv, AdjoinInv, AdvanceInv, CarryInv, InText, Nonempty
<1> QED BY <1>1, <1>3, <1>4 DEF PackInv

(* Closing keeps the types: the next chunk starts within the text.         *)
LEMMA CloseTypes ==
  ASSUME TypeOK, StageInv, Nonempty, Close
  PROVE  /\ length' \in Nat /\ upto' \in [0..length' -> Nat]
         /\ breakpoints' \subseteq 1..length'
         /\ index' = index /\ index' \in 1..(length' + 1) /\ first' \in 1..index'
         /\ first <= first'
         /\ bound' \in Nat /\ bound' = SumOfSizes(first, index - 1)'
         /\ chunks' \in Seq(Nat \X Nat)
<1>1. first' \in 1..(length + 1) /\ first <= first' /\ first' <= index
  BY Carried DEF Close
<1>2. bound' \in Nat
  BY Carried DEF Close
<1>3. first \in Nat /\ index - 1 \in Nat
  BY DEF TypeOK, Nonempty
<1>4. chunks' \in Seq(Nat \X Nat)
  BY <1>3 DEF Close, TypeOK
<1>5. bound' = SumOfSizes(first, index - 1)'
  BY DEF Close, SumOfSizes
<1> QED BY <1>1, <1>2, <1>4, <1>5 DEF TypeOK, Close

(* Every step keeps the types and the sum.                                 *)
LEMMA StageNext ==
  TypeOK /\ StageInv /\ [Next]_pack => TypeOK' /\ StageInv'
<1> SUFFICES ASSUME TypeOK, StageInv, [Next]_pack PROVE TypeOK' /\ StageInv'
  OBVIOUS
<1>1. CASE CloseFull
  <2>1. Nonempty /\ Close
    BY <1>1 DEF CloseFull, Full
  <2>2. TypeOK'
    BY <1>1, <2>1, CloseTypes DEF TypeOK, CloseFull
  <2>3. StageInv'
    BY <1>1, <2>1, CloseTypes DEF TypeOK, StageInv, CloseFull, Close, Nonempty, SumOfSizes
  <2> QED BY <2>2, <2>3
<1>2. CASE KeepOpen
  BY <1>2 DEF TypeOK, StageInv, KeepOpen, Nonempty, SumOfSizes
<1>3. CASE Take
  <2>1. index \in 1..length /\ index - 1 \in 0..length /\ first \in 1..(length + 1)
        /\ first <= (index - 1) + 1 /\ (index - 1) + 1 = index
    BY <1>3 DEF Take, StageInv, TypeOK
  <2>2. SumOfSizes(first, index) = SumOfSizes(first, index - 1) + Size(index)
    <3>1. (index - 1) + 1 \in 0..length
      BY <2>1
    <3> QED BY <2>1, <3>1, SumGrows
  <2>3. SumOfSizes(first, index) \in Nat
    BY <2>1, SumBoundsCount
  <2>4. bound' = SumOfSizes(first, index)
    BY <1>3, <2>2 DEF Take, StageInv
  <2>5. TypeOK'
    BY <1>3, <2>1, <2>3, <2>4 DEF Take, TypeOK
  <2>6. bound' = SumOfSizes(first, index - 1)'
    <3>1. index' - 1 = index
      BY <1>3, <2>1 DEF Take
    <3>2. SumOfSizes(first, index - 1)' = SumOfSizes(first, index)
      <4>1. first' = first /\ upto' = upto
        BY <1>3 DEF Take
      <4> QED BY <3>1, <4>1 DEF SumOfSizes
    <3> QED BY <2>4, <3>2
  <2>7. StageInv'
    BY <1>3, <2>1, <2>6 DEF Take, StageInv, TypeOK, Nonempty
  <2> QED BY <2>5, <2>7
<1>4. CASE CloseAtBreak
  <2>1. Nonempty /\ Close
    BY <1>4 DEF CloseAtBreak, StageInv
  <2>2. TypeOK'
    BY <1>4, <2>1, CloseTypes DEF TypeOK, CloseAtBreak
  <2>3. StageInv'
    BY <1>4, <2>1, CloseTypes DEF TypeOK, StageInv, CloseAtBreak, Close, Nonempty, SumOfSizes
  <2> QED BY <2>2, <2>3
<1>5. CASE GoOn
  BY <1>5 DEF TypeOK, StageInv, GoOn, Nonempty, SumOfSizes
<1>6. CASE Finish
  <2>1. chunks' \in Seq(Nat \X Nat)
    <3>1. chunks \in Seq(Nat \X Nat) /\ first \in Nat /\ index - 1 \in Nat
      BY DEF TypeOK
    <3>2. chunks' = IF Nonempty THEN Append(chunks, <<first, index - 1>>) ELSE chunks
      BY <1>6 DEF Finish
    <3>3. <<first, index - 1>> \in Nat \X Nat
      BY <3>1
    <3>4. Append(chunks, <<first, index - 1>>) \in Seq(Nat \X Nat)
      BY <3>1, <3>3
    <3> QED BY <3>1, <3>2, <3>4
  <2> QED BY <1>6, <2>1 DEF TypeOK, StageInv, Finish, Nonempty, SumOfSizes
<1>7. ASSUME NEW n \in Nat, NEW text \in [0..n -> Nat], IsText(n, text), Start(n, text)
      PROVE  TypeOK' /\ StageInv'
  <2>1. breakpoints' \subseteq 1..n
    BY <1>7 DEF Start
  <2>2. 0 * Special = 0 /\ text[0] \in Nat
    BY SplitterAssumption, Multiples
  <2>3. TypeOK'
    BY <1>7, <2>1 DEF Start, TypeOK
  <2>4. bound' = SumOfSizes(first, index - 1)'
    BY <1>7, <2>2 DEF Start, SumOfSizes
  <2>5. StageInv'
    BY <1>7, <2>4 DEF Start, StageInv, IsText
  <2> QED BY <2>3, <2>5
<1>8. CASE UNCHANGED pack
  BY <1>8 DEF pack, TypeOK, StageInv, Nonempty, SumOfSizes
<1> QED BY <1>1, <1>2, <1>3, <1>4, <1>5, <1>6, <1>7, <1>8 DEF Next, Packing

-----------------------------------------------------------------------------
(* The bound the code tests first never hides a chunk to be closed.        *)
LEMMA StageImpliesShortcut == TypeOK /\ StageInv => ShortcutSound
<1> SUFFICES ASSUME TypeOK, StageInv PROVE ShortcutSound
  OBVIOUS
<1>1. ASSUME stage = "sentence", index <= length, Nonempty, Count(first, index) > Target
      PROVE  Full
  <2>1. index \in 0..length /\ index - 1 \in 0..length /\ (index - 1) + 1 = index
        /\ first \in 1..(length + 1) /\ first <= index /\ first <= (index - 1) + 1
    BY <1>1 DEF TypeOK, Nonempty
  <2>2. Count(first, index) \in Nat /\ Count(first, index) <= SumOfSizes(first, index)
        /\ SumOfSizes(first, index) \in Nat
    BY <2>1, SumBoundsCount
  <2>3. SumOfSizes(first, index) = bound + Size(index)
    <3>1. (index - 1) + 1 \in 0..length
      BY <2>1
    <3> QED BY <2>1, <3>1, SumGrows DEF StageInv
  <2> QED BY <1>1, <2>2, <2>3, SplitterAssumption DEF Full
<1>2. ASSUME stage = "break", index - 1 \in breakpoints,
             Count(first, index - 1) >= HalfBudget
      PROVE  AtBreak
  <2>1. index - 1 \in 0..length /\ first \in 1..(length + 1) /\ first <= index - 1
    BY <1>2 DEF TypeOK, StageInv, Nonempty
  <2>2. Count(first, index - 1) \in Nat
        /\ Count(first, index - 1) <= bound /\ bound \in Nat
    BY <2>1, SumBoundsCount DEF StageInv
  <2>3. HalfBudget \in Nat
    BY SplitterAssumption DEF HalfBudget
  <2> QED BY <1>2, <2>2, <2>3 DEF AtBreak
<1> QED BY <1>1, <1>2 DEF ShortcutSound

(* Closed chunks are never touched again.                                  *)
LEMMA Appended ==
  ASSUME NEW s \in Seq(Nat \X Nat), NEW a \in Nat, NEW b \in Nat, NEW t,
         t = Append(s, <<a, b>>)
  PROVE  /\ t # <<>> /\ Len(s) \in Nat /\ Len(t) = Len(s) + 1
         /\ t[Len(t)] = <<a, b>> /\ t[Len(t)][1] = a /\ t[Len(t)][2] = b
         /\ \A i \in 1..Len(s) : t[i] = s[i]
         /\ s # <<>> => Len(s) >= 1
<1>1. t # <<>> /\ Len(s) \in Nat /\ Len(t) = Len(s) + 1
  OBVIOUS
<1>2. t[Len(t)] = <<a, b>>
  BY <1>1
<1>3. \A i \in 1..Len(s) : t[i] = s[i]
  OBVIOUS
<1>4. s # <<>> => Len(s) >= 1
  OBVIOUS
<1> QED BY <1>1, <1>2, <1>3, <1>4

(* A chunk that may be closed as it is is no new excess, ...               *)
LEMMA ClosingExcused ==
  ASSUME TypeOK, Nonempty, Excused(first, index - 1), OverBudgetOnlyByCarry,
         chunks' = Append(chunks, <<first, index - 1>>), upto' = upto
  PROVE  /\ OverBudgetOnlyByCarry'
         /\ chunks' # <<>> /\ chunks'[Len(chunks')][2] = index - 1
<1>1. chunks \in Seq(Nat \X Nat) /\ first \in Nat /\ index - 1 \in Nat
  BY DEF TypeOK, Nonempty
<1>2. /\ chunks' # <<>> /\ Len(chunks) \in Nat /\ Len(chunks') = Len(chunks) + 1
      /\ chunks'[Len(chunks')][1] = first /\ chunks'[Len(chunks')][2] = index - 1
      /\ \A i \in 1..Len(chunks) : chunks'[i] = chunks[i]
      /\ chunks # <<>> => Len(chunks) >= 1
  BY <1>1, Appended
<1>3. \A a, b : Count(a, b)' = Count(a, b)
  BY DEF Count
<1>4. ASSUME NEW i \in 1..Len(chunks'),
             Count(chunks'[i][1], chunks'[i][2]) > Target
      PROVE  \/ chunks'[i][1] = chunks'[i][2]
             \/ i > 1 /\ chunks'[i - 1][2] = chunks'[i][2] - 1
  <2>1. CASE i <= Len(chunks)
    <3>1. i \in 1..Len(chunks) /\ chunks'[i] = chunks[i]
      BY <1>2, <2>1
    <3>2. i > 1 => i - 1 \in 1..Len(chunks) /\ chunks'[i - 1] = chunks[i - 1]
      BY <1>2, <2>1
    <3> QED BY <1>4, <3>1, <3>2 DEF OverBudgetOnlyByCarry
  <2>2. CASE i = Len(chunks')
    <3>1. chunks'[i][1] = first /\ chunks'[i][2] = index - 1
      BY <1>2, <2>2
    <3>2. \/ first = index - 1
          \/ chunks # <<>> /\ Closed[2] = (index - 1) - 1
      <4>1. Count(first, index - 1) > Target
        BY <1>4, <3>1
      <4>2. upto[index - 1] \in Nat /\ upto[first - 1] \in Nat
        BY DEF TypeOK, Nonempty
      <4>3. Count(first, index - 1) \in Int /\ Target \in Nat
        BY <4>2, SplitterAssumption DEF Count
      <4>4. ~ (Count(first, index - 1) <= Target)
        BY <4>1, <4>3
      <4> QED BY <4>4 DEF Excused
    <3>3. chunks # <<>> => i > 1 /\ i - 1 = Len(chunks) /\ chunks'[i - 1] = Closed
      BY <1>2, <2>2 DEF Closed
    <3>4. chunks # <<>> => chunks'[i - 1][2] = Closed[2]
      BY <3>3
    <3> QED BY <3>1, <3>2, <3>3, <3>4
  <2> QED BY <1>2, <2>1, <2>2
<1>5. OverBudgetOnlyByCarry'
  BY <1>3, <1>4 DEF OverBudgetOnlyByCarry, Count
<1> QED BY <1>2, <1>5

(* ... and what is carried from it may be closed at once.                  *)
LEMMA CarryingExcused ==
  ASSUME TypeOK, StageInv, Nonempty, Close
  PROVE  (first < index => Excused(first, index - 1))'
<1>1. first' < index => first' = index - 1 \/ Count(first', index - 1) <= Target
  BY Carried DEF Close
<1>2. Count(first, index - 1)' = Count(first', index - 1)
  BY DEF Close, Count
<1> QED BY <1>1, <1>2 DEF Excused, Close

(* Every step leaves the chunk at work, and all that are closed, excused.  *)
LEMMA BudgetNext ==
  TypeOK /\ StageInv /\ BudgetInv /\ OverBudgetOnlyByCarry /\ [Next]_pack
    => BudgetInv' /\ OverBudgetOnlyByCarry'
<1> SUFFICES ASSUME TypeOK, StageInv, BudgetInv, OverBudgetOnlyByCarry, [Next]_pack
             PROVE  BudgetInv' /\ OverBudgetOnlyByCarry'
  OBVIOUS
<1>1. CASE CloseFull
  <2>1. Nonempty /\ Close /\ Excused(first, index - 1)
    BY <1>1 DEF CloseFull, Full, BudgetInv
  <2>2. OverBudgetOnlyByCarry' /\ chunks' # <<>> /\ chunks'[Len(chunks')][2] = index - 1
    BY <2>1, ClosingExcused DEF Close
  <2>3. Excused(first, index)'
    BY <2>1, <2>2 DEF Excused, Closed, Close
  <2> QED BY <1>1, <2>2, <2>3 DEF BudgetInv, CloseFull
<1>2. CASE KeepOpen
  <2>1. Excused(first, index)
    <3>1. CASE first = index
      BY <3>1 DEF Excused
    <3>2. CASE first # index
      <4>1. Nonempty /\ index \in 0..length /\ first \in 1..(length + 1) /\ first <= index
        BY <1>2, <3>2 DEF KeepOpen, Nonempty, TypeOK
      <4>2. Count(first, index) \in Nat
        BY <4>1, SumBoundsCount
      <4>3. ~ (Count(first, index) > Target)
        BY <1>2, <4>1, StageImpliesShortcut DEF KeepOpen, ShortcutSound
      <4> QED BY <4>2, <4>3, SplitterAssumption DEF Excused
    <3> QED BY <3>1, <3>2
  <2> QED BY <1>2, <2>1 DEF BudgetInv, KeepOpen, Excused, Closed, Count, OverBudgetOnlyByCarry
<1>3. CASE Take
  <2>1. Excused(first, index) /\ index' - 1 = index
    BY <1>3 DEF BudgetInv, Take, TypeOK
  <2>2. Excused(first, index - 1)'
    BY <1>3, <2>1 DEF Take, Excused, Closed, Count
  <2> QED BY <1>3, <2>2 DEF BudgetInv, Take, OverBudgetOnlyByCarry, Count
<1>4. CASE CloseAtBreak
  <2>1. Nonempty /\ Close /\ Excused(first, index - 1)
    BY <1>4 DEF CloseAtBreak, StageInv, BudgetInv
  <2>2. OverBudgetOnlyByCarry'
    BY <2>1, ClosingExcused DEF Close
  <2>3. (first < index => Excused(first, index - 1))'
    BY <2>1, CarryingExcused
  <2> QED BY <1>4, <2>2, <2>3 DEF BudgetInv, CloseAtBreak, Nonempty
<1>5. CASE GoOn
  BY <1>5 DEF GoOn, BudgetInv, Excused, Closed, Count, OverBudgetOnlyByCarry
<1>6. CASE Finish
  <2>1. CASE Nonempty
    <3>1. Excused(first, index - 1)
      BY <1>6, <2>1 DEF Finish, BudgetInv
    <3> QED BY <1>6, <2>1, <3>1, ClosingExcused DEF Finish, BudgetInv
  <2>2. CASE ~ Nonempty
    BY <1>6, <2>2 DEF Finish, BudgetInv, OverBudgetOnlyByCarry, Count
  <2> QED BY <2>1, <2>2
<1>7. ASSUME NEW n \in Nat, NEW text \in [0..n -> Nat], Start(n, text)
      PROVE  BudgetInv' /\ OverBudgetOnlyByCarry'
  BY <1>7 DEF Start, BudgetInv, Nonempty, OverBudgetOnlyByCarry
<1>8. CASE UNCHANGED pack
  BY <1>8 DEF pack, BudgetInv, Nonempty, Excused, Closed, Count, OverBudgetOnlyByCarry
<1> QED BY <1>1, <1>2, <1>3, <1>4, <1>5, <1>6, <1>7, <1>8 DEF Next, Packing

-----------------------------------------------------------------------------
(* A chunk that adjoins the one before keeps the order, ...                *)
LEMMA ClosingInOrder ==
  ASSUME TypeOK, Nonempty, AdjoinInv, stage # "done", InOrder,
         chunks' = Append(chunks, <<first, index - 1>>)
  PROVE  /\ InOrder'
         /\ chunks' # <<>>
         /\ chunks'[Len(chunks')][1] = first /\ chunks'[Len(chunks')][2] = index - 1
<1>1. chunks \in Seq(Nat \X Nat) /\ first \in Nat /\ index - 1 \in Nat
      /\ index \in Nat /\ first <= index - 1
  BY DEF TypeOK, Nonempty
<1>2. /\ chunks' # <<>> /\ Len(chunks) \in Nat /\ Len(chunks') = Len(chunks) + 1
      /\ chunks'[Len(chunks')][1] = first /\ chunks'[Len(chunks')][2] = index - 1
      /\ \A i \in 1..Len(chunks) : chunks'[i] = chunks[i]
      /\ chunks # <<>> => Len(chunks) >= 1
  BY <1>1, Appended
<1>3. ASSUME NEW i \in 1..Len(chunks')
      PROVE  /\ chunks'[i][1] <= chunks'[i][2]
             /\ i = 1 => chunks'[i][1] = 1
             /\ i > 1 => /\ chunks'[i - 1][1] <= chunks'[i][1]
                         /\ chunks'[i][1] <= chunks'[i - 1][2] + 1
                         /\ chunks'[i - 1][2] <= chunks'[i][2]
  <2>1. CASE i <= Len(chunks)
    <3>1. i \in 1..Len(chunks) /\ chunks'[i] = chunks[i]
      BY <1>2, <2>1
    <3>2. i > 1 => i - 1 \in 1..Len(chunks) /\ chunks'[i - 1] = chunks[i - 1]
      BY <1>2, <2>1
    <3> QED BY <3>1, <3>2 DEF InOrder
  <2>2. CASE i = Len(chunks')
    <3>1. chunks'[i][1] = first /\ chunks'[i][2] = index - 1
      BY <1>2, <2>2
    <3>2. CASE chunks = <<>>
      <4>1. i = 1 /\ first = 1
        BY <1>2, <2>2, <3>2 DEF AdjoinInv
      <4> QED BY <1>1, <3>1, <4>1
    <3>3. CASE chunks # <<>>
      <4>1. i > 1 /\ i - 1 = Len(chunks) /\ chunks'[i - 1] = Closed
        BY <1>2, <2>2, <3>3 DEF Closed
      <4>2. chunks'[i - 1][1] = Closed[1] /\ chunks'[i - 1][2] = Closed[2]
        BY <4>1
      <4>3. Closed[1] <= first /\ first <= Closed[2] + 1 /\ Closed[2] <= index - 1
        BY <3>3 DEF AdjoinInv
      <4> QED BY <1>1, <3>1, <4>1, <4>2, <4>3
    <3> QED BY <3>2, <3>3
  <2> QED BY <1>2, <2>1, <2>2
<1> QED BY <1>2, <1>3 DEF InOrder

(* ... and what is carried from it adjoins it.                             *)
LEMMA CarryingAdjoins ==
  ASSUME TypeOK, StageInv, Nonempty, AdjoinInv, stage # "done", InOrder, Close
  PROVE  /\ InOrder' /\ AdjoinInv'
         /\ chunks' # <<>> /\ chunks'[Len(chunks')][2] = index - 1
<1>1. InOrder' /\ chunks' # <<>>
      /\ chunks'[Len(chunks')][1] = first /\ chunks'[Len(chunks')][2] = index - 1
  BY ClosingInOrder DEF Close
<1>2. first <= first' /\ first' <= index /\ index' = index /\ index \in Nat
  BY CloseTypes, Carried DEF Close, TypeOK
<1>3. Closed'[1] = first /\ Closed'[2] = index - 1
  BY <1>1 DEF Closed
<1> QED BY <1>1, <1>2, <1>3 DEF AdjoinInv

(* Every step keeps the order, and the last one completes the text.        *)
LEMMA AdjoinNext ==
  TypeOK /\ StageInv /\ AdjoinInv /\ InOrder /\ Complete /\ [Next]_pack
    => AdjoinInv' /\ InOrder' /\ Complete'
<1> SUFFICES ASSUME TypeOK, StageInv, AdjoinInv, InOrder, Complete, [Next]_pack
             PROVE  AdjoinInv' /\ InOrder' /\ Complete'
  OBVIOUS
<1>1. CASE CloseFull
  <2>1. Nonempty /\ Close /\ stage # "done"
    BY <1>1 DEF CloseFull, Full
  <2> QED BY <1>1, <2>1, CarryingAdjoins DEF CloseFull, Complete
<1>2. CASE KeepOpen
  BY <1>2 DEF KeepOpen, AdjoinInv, InOrder, Complete, Closed
<1>3. CASE Take
  <2>1. index' - 1 = index /\ index \in Nat /\ chunks \in Seq(Nat \X Nat)
    BY <1>3 DEF Take, TypeOK
  <2>2. chunks # <<>> => Closed[2] \in Nat
    BY <2>1 DEF Closed
  <2> QED BY <1>3, <2>1, <2>2 DEF Take, AdjoinInv, InOrder, Complete, Closed
<1>4. CASE CloseAtBreak
  <2>1. Nonempty /\ Close /\ stage # "done"
    BY <1>4 DEF CloseAtBreak, StageInv
  <2> QED BY <1>4, <2>1, CarryingAdjoins DEF CloseAtBreak, Complete
<1>5. CASE GoOn
  BY <1>5 DEF GoOn, AdjoinInv, InOrder, Complete, Closed
<1>6. CASE Finish
  <2>1. index = length + 1 /\ length \in Nat /\ first \in 1..index
    BY <1>6 DEF Finish, TypeOK
  <2>2. CASE Nonempty
    <3>1. InOrder' /\ chunks' # <<>> /\ chunks'[Len(chunks')][2] = index - 1
      BY <1>6, <2>2, ClosingInOrder DEF Finish
    <3> QED BY <1>6, <2>1, <3>1 DEF Finish, Complete, AdjoinInv
  <2>3. CASE ~ Nonempty
    <3>1. first = length + 1
      BY <2>1, <2>3 DEF Nonempty
    <3>2. length > 0 => chunks # <<>>
      BY <1>6, <2>1, <3>1 DEF Finish, AdjoinInv
    <3>3. chunks # <<>> => Closed[2] = length
      <4>1. chunks # <<>> => Closed[2] \in Nat
        BY DEF Closed, TypeOK
      <4> QED BY <1>6, <2>1, <3>1, <4>1 DEF Finish, AdjoinInv
    <3> QED BY <1>6, <2>3, <3>2, <3>3 DEF Finish, Complete, AdjoinInv, InOrder, Closed
  <2> QED BY <2>2, <2>3
<1>7. ASSUME NEW n \in Nat, NEW text \in [0..n -> Nat], Start(n, text)
      PROVE  AdjoinInv' /\ InOrder' /\ Complete'
  BY <1>7 DEF Start, AdjoinInv, InOrder, Complete
<1>8. CASE UNCHANGED pack
  BY <1>8 DEF pack, AdjoinInv, InOrder, Complete, Closed
<1> QED BY <1>1, <1>2, <1>3, <1>4, <1>5, <1>6, <1>7, <1>8 DEF Next, Packing

-----------------------------------------------------------------------------
(* A chunk with the end of the one before is closed only behind a break.   *)
LEMMA ClosingAdvances ==
  ASSUME TypeOK, Nonempty, Advances, breakpoints' = breakpoints,
         chunks' = Append(chunks, <<first, index - 1>>),
         chunks # <<>> /\ Closed[2] = index - 1 =>
           /\ index - 1 \in breakpoints
           /\ Len(chunks) > 1 => chunks[Len(chunks) - 1][2] < index - 1
  PROVE  /\ Advances'
         /\ chunks' # <<>> /\ chunks'[Len(chunks')][2] = index - 1
         /\ Len(chunks') > 1 => chunks # <<>> /\ chunks'[Len(chunks') - 1] = Closed
<1>1. chunks \in Seq(Nat \X Nat) /\ first \in Nat /\ index - 1 \in Nat
  BY DEF TypeOK, Nonempty
<1>2. /\ chunks' # <<>> /\ Len(chunks) \in Nat /\ Len(chunks') = Len(chunks) + 1
      /\ chunks'[Len(chunks')][1] = first /\ chunks'[Len(chunks')][2] = index - 1
      /\ \A i \in 1..Len(chunks) : chunks'[i] = chunks[i]
      /\ chunks # <<>> => Len(chunks) >= 1
  BY <1>1, Appended
<1>3. Len(chunks') > 1 => chunks # <<>> /\ chunks'[Len(chunks') - 1] = Closed
  <2>1. chunks = <<>> => Len(chunks) = 0
    OBVIOUS
  <2> QED BY <1>2, <2>1 DEF Closed
<1>4. ASSUME NEW i \in 2..Len(chunks'), chunks'[i][2] = chunks'[i - 1][2]
      PROVE  /\ chunks'[i][2] \in breakpoints
             /\ i > 2 => chunks'[i - 2][2] < chunks'[i][2]
  <2>1. CASE i <= Len(chunks)
    <3>1. i \in 2..Len(chunks) /\ i \in 1..Len(chunks) /\ i - 1 \in 1..Len(chunks)
          /\ (i > 2 => i - 2 \in 1..Len(chunks))
      BY <1>2, <2>1
    <3>2. chunks'[i] = chunks[i] /\ chunks'[i - 1] = chunks[i - 1]
          /\ (i > 2 => chunks'[i - 2] = chunks[i - 2])
      BY <1>2, <3>1
    <3> QED BY <1>4, <3>1, <3>2 DEF Advances
  <2>2. CASE i = Len(chunks')
    <3>1. chunks'[i][2] = index - 1 /\ i - 1 = Len(chunks) /\ i - 2 = Len(chunks) - 1
      BY <1>2, <2>2
    <3>2. chunks # <<>> /\ chunks'[i - 1] = Closed
      BY <1>2, <1>3, <2>2
    <3>3. Closed[2] = index - 1
      BY <1>4, <3>1, <3>2
    <3>4. i > 2 => Len(chunks) > 1 /\ chunks'[i - 2] = chunks[Len(chunks) - 1]
      BY <1>2, <3>1
    <3> QED BY <3>1, <3>2, <3>3, <3>4
  <2> QED BY <1>2, <2>1, <2>2
<1> QED BY <1>2, <1>3, <1>4 DEF Advances

(* Every step keeps the chunks advancing.                                  *)
LEMMA AdvanceNext ==
  TypeOK /\ StageInv /\ AdjoinInv /\ AdvanceInv /\ Advances /\ [Next]_pack
    => AdvanceInv' /\ Advances'
<1> SUFFICES ASSUME TypeOK, StageInv, AdjoinInv, AdvanceInv, Advances, [Next]_pack
             PROVE  AdvanceInv' /\ Advances'
  OBVIOUS
<1>1. CASE CloseFull
  <2>1. Nonempty /\ Close
    BY <1>1 DEF CloseFull, Full
  <2>2. Advances'
    BY <1>1, <2>1, ClosingAdvances DEF CloseFull, Close, AdvanceInv
  <2> QED BY <1>1, <2>2 DEF CloseFull, AdvanceInv
<1>2. CASE KeepOpen
  BY <1>2 DEF KeepOpen, AdvanceInv, Advances
<1>3. CASE Take
  <2>1. index' - 1 = index /\ index \in Nat
    BY <1>3 DEF Take, TypeOK
  <2>2. chunks # <<>> => Closed[2] \in Nat
    BY DEF Closed, TypeOK
  <2>3. chunks # <<>> => Closed[2] < index
    BY <1>3, <2>1, <2>2 DEF Take, AdjoinInv
  <2> QED BY <1>3, <2>1, <2>3 DEF Take, AdvanceInv, Advances, Closed
<1>4. CASE CloseAtBreak
  <2>1. Nonempty /\ Close /\ index - 1 \in breakpoints
    BY <1>4 DEF CloseAtBreak, AtBreak, StageInv
  <2>2. chunks # <<>> => Closed[2] \in Nat /\ Closed[2] < index - 1 /\ index \in Nat
    BY <1>4 DEF CloseAtBreak, AdvanceInv, Closed, TypeOK
  <2>3. ~ (chunks # <<>> /\ Closed[2] = index - 1)
    BY <2>2
  <2>4. /\ Advances' /\ chunks' # <<>> /\ chunks'[Len(chunks')][2] = index - 1
        /\ Len(chunks') > 1 => chunks # <<>> /\ chunks'[Len(chunks') - 1] = Closed
    BY <2>1, <2>3, ClosingAdvances DEF Close
  <2> QED BY <1>4, <2>1, <2>2, <2>4 DEF CloseAtBreak, Close, AdvanceInv
<1>5. CASE GoOn
  <2>1. chunks # <<>> => Closed[2] < index - 1 /\ Closed[2] \in Nat /\ index \in Nat
    BY <1>5 DEF GoOn, AdvanceInv, Closed, TypeOK
  <2> QED BY <1>5, <2>1 DEF GoOn, AdvanceInv, Advances, Closed
<1>6. CASE Finish
  <2>1. CASE Nonempty
    BY <1>6, <2>1, ClosingAdvances DEF Finish, AdvanceInv
  <2>2. CASE ~ Nonempty
    BY <1>6, <2>2 DEF Finish, AdvanceInv, Advances
  <2> QED BY <2>1, <2>2
<1>7. ASSUME NEW n \in Nat, NEW text \in [0..n -> Nat], Start(n, text)
      PROVE  AdvanceInv' /\ Advances'
  BY <1>7 DEF Start, AdvanceInv, Advances
<1>8. CASE UNCHANGED pack
  BY <1>8 DEF pack, AdvanceInv, Advances, Closed
<1> QED BY <1>1, <1>2, <1>3, <1>4, <1>5, <1>6, <1>7, <1>8 DEF Next, Packing

-----------------------------------------------------------------------------
(* What fits into the overlap is carried whole.                            *)
LEMMA SmallCarried ==
  ASSUME TypeOK, StageInv, Nonempty, Overlap > 0, Count(first, index - 1) <= Overlap,
         NEW k \in CarryStarts(first, index - 1)
  PROVE  k = first
<1>1. /\ index - 1 \in 0..length /\ first \in 1..(length + 1) /\ first <= index - 1
      /\ Special \in Nat /\ Overlap \in Nat
  BY SplitterAssumption DEF TypeOK, Nonempty
<1>2. /\ k \in first..(index - 1)
      /\ k = first \/ ~ Fits(k - 1, index - 1)
  BY <1>1, SplitterAssumption DEF CarryStarts
<1> SUFFICES ASSUME k # first PROVE FALSE
  OBVIOUS
<1>3. /\ k - 2 \in 0..length /\ first - 1 \in 0..length /\ first - 1 <= k - 2
      /\ (k - 1) - 1 = k - 2
  BY <1>1, <1>2 DEF TypeOK
<1>4. upto[first - 1] <= upto[k - 2] /\ upto[first - 1] \in Nat /\ upto[k - 2] \in Nat
      /\ upto[index - 1] \in Nat
  BY <1>1, <1>3 DEF StageInv, TypeOK
<1>5. Count(k - 1, index - 1) <= Count(first, index - 1)
  BY <1>1, <1>3, <1>4 DEF Count
<1>6. Count(k - 1, index - 1) \in Int /\ Count(first, index - 1) \in Int
  BY <1>1, <1>3, <1>4 DEF Count
<1>7. Count(k - 1, index - 1) <= Overlap
  BY <1>1, <1>5, <1>6
<1> QED BY <1>2, <1>7 DEF Fits

LEMMA ClosingCarries ==
  ASSUME TypeOK, Nonempty, stage # "done", CarryInv,
         chunks' = Append(chunks, <<first, index - 1>>), upto' = upto, length' = length
  PROVE  /\ InText'
         /\ (\A i \in 2..Len(chunks) : Small(chunks[i - 1]) => chunks[i][1] = chunks[i - 1][1])'
         /\ chunks' # <<>> /\ Closed'[1] = first /\ Closed'[2] = index - 1
<1>1. /\ chunks \in Seq(Nat \X Nat) /\ first \in Nat /\ index - 1 \in Nat
      /\ 1 <= first /\ first <= index - 1 /\ index - 1 <= length
  BY DEF TypeOK, Nonempty
<1>2. /\ chunks' # <<>> /\ Len(chunks) \in Nat /\ Len(chunks') = Len(chunks) + 1
      /\ chunks'[Len(chunks')][1] = first /\ chunks'[Len(chunks')][2] = index - 1
      /\ \A i \in 1..Len(chunks) : chunks'[i] = chunks[i]
      /\ chunks # <<>> => Len(chunks) >= 1
  BY <1>1, Appended
<1>3. InText'
  <2> SUFFICES ASSUME NEW i \in 1..Len(chunks')
               PROVE  /\ 1 <= chunks'[i][1] /\ chunks'[i][1] <= chunks'[i][2]
                      /\ chunks'[i][2] <= length'
    BY DEF InText
  <2>1. CASE i \in 1..Len(chunks)
    BY <1>2, <2>1 DEF CarryInv, InText
  <2>2. CASE i = Len(chunks')
    BY <1>1, <1>2, <2>2
  <2> QED BY <1>2, <2>1, <2>2
<1>4. ASSUME NEW i \in 2..Len(chunks'), Small(chunks[i - 1])'
      PROVE  chunks'[i][1] = chunks'[i - 1][1]
  <2>1. Small(chunks'[i - 1])
    BY <1>4 DEF Small, Count
  <2>2. i - 1 \in 1..Len(chunks) /\ chunks'[i - 1] = chunks[i - 1]
    BY <1>2
  <2>3. CASE i \in 1..Len(chunks)
    <3>1. i \in 2..Len(chunks) /\ chunks'[i] = chunks[i]
      BY <1>2, <2>3
    <3> QED BY <2>1, <2>2, <3>1 DEF CarryInv
  <2>4. CASE i = Len(chunks')
    <3>1. i - 1 = Len(chunks) /\ chunks # <<>>
      <4>1. i - 1 = Len(chunks) /\ Len(chunks) >= 1
        BY <1>2, <2>4
      <4> QED BY <4>1
    <3>2. Small(Closed) /\ chunks'[i - 1] = Closed
      BY <2>1, <2>2, <3>1 DEF Closed
    <3> QED BY <1>2, <2>4, <3>1, <3>2 DEF CarryInv
  <2> QED BY <1>2, <2>3, <2>4
<1> QED BY <1>2, <1>3, <1>4 DEF Closed

LEMMA CarryNext ==
  TypeOK /\ StageInv /\ CarryInv /\ [Next]_pack => CarryInv'
<1> SUFFICES ASSUME TypeOK, StageInv, CarryInv, [Next]_pack PROVE CarryInv'
  OBVIOUS
<1>1. ASSUME Nonempty, Close, stage # "done" PROVE CarryInv'
  <2>1. /\ InText'
        /\ (\A i \in 2..Len(chunks) : Small(chunks[i - 1]) => chunks[i][1] = chunks[i - 1][1])'
        /\ chunks' # <<>> /\ Closed'[1] = first /\ Closed'[2] = index - 1
    BY <1>1, ClosingCarries DEF Close
  <2>2. ASSUME Small(Closed)' PROVE first' = first
    <3>1. Overlap > 0 /\ Count(first, index - 1) <= Overlap
      BY <1>1, <2>1, <2>2 DEF Small, Count, Close
    <3> QED BY <1>1, <3>1, SmallCarried DEF Close
  <2> QED BY <2>1, <2>2 DEF CarryInv
<1>2. CASE CloseFull
  BY <1>1, <1>2 DEF CloseFull, Full
<1>3. CASE KeepOpen
  BY <1>3 DEF KeepOpen, CarryInv, InText, Small, Closed, Count
<1>4. CASE Take
  BY <1>4 DEF Take, CarryInv, InText, Small, Closed, Count
<1>5. CASE CloseAtBreak
  BY <1>1, <1>5 DEF CloseAtBreak, StageInv
<1>6. CASE GoOn
  BY <1>6 DEF GoOn, CarryInv, InText, Small, Closed, Count
<1>7. CASE Finish
  <2>1. CASE Nonempty
    BY <1>7, <2>1, ClosingCarries DEF Finish, CarryInv
  <2>2. CASE ~ Nonempty
    BY <1>7, <2>2 DEF Finish, CarryInv, InText, Small, Closed, Count
  <2> QED BY <2>1, <2>2
<1>8. ASSUME NEW n \in Nat, NEW text \in [0..n -> Nat], Start(n, text)
      PROVE  CarryInv'
  BY <1>8 DEF Start, CarryInv, InText
<1>9. CASE UNCHANGED pack
  BY <1>9 DEF pack, CarryInv, InText, Small, Closed, Count
<1> QED BY <1>2, <1>3, <1>4, <1>5, <1>6, <1>7, <1>8, <1>9 DEF Next, Packing

-----------------------------------------------------------------------------
(* Everything together holds in every reachable state.                     *)
LEMMA PackInvHolds == Spec => [](TypeOK /\ PackInv /\ BudgetKept /\ Covers)
<1>1. Init => TypeOK /\ PackInv /\ BudgetKept /\ Covers
  <2> SUFFICES ASSUME Init PROVE BudgetKept /\ Covers
    BY InitHolds
  <2>1. ShortcutSound
    BY InitHolds, StageImpliesShortcut DEF PackInv
  <2>2. OverBudgetOnlyByCarry /\ InOrder /\ Complete /\ Advances
    BY DEF Init, OverBudgetOnlyByCarry, InOrder, Complete, Advances
  <2> QED BY <2>1, <2>2 DEF BudgetKept, Covers
<1>2. TypeOK /\ PackInv /\ BudgetKept /\ Covers /\ [Next]_pack
        => (TypeOK /\ PackInv /\ BudgetKept /\ Covers)'
  <2> SUFFICES ASSUME TypeOK, PackInv, BudgetKept, Covers, [Next]_pack
               PROVE  (TypeOK /\ PackInv /\ BudgetKept /\ Covers)'
    OBVIOUS
  <2>1. TypeOK' /\ StageInv'
    BY StageNext DEF PackInv
  <2>2. BudgetInv' /\ OverBudgetOnlyByCarry'
    BY BudgetNext DEF PackInv, BudgetKept
  <2>3. AdjoinInv' /\ InOrder' /\ Complete'
    BY AdjoinNext DEF PackInv, Covers
  <2>4. AdvanceInv' /\ Advances'
    BY AdvanceNext DEF PackInv, Covers
  <2>5. (TypeOK /\ StageInv => ShortcutSound)'
    BY StageImpliesShortcut, PTL
  <2>6. CarryInv'
    BY CarryNext DEF PackInv
  <2> QED BY <2>1, <2>2, <2>3, <2>4, <2>5, <2>6 DEF PackInv, BudgetKept, Covers
<1> QED BY <1>1, <1>2, PTL DEF Spec

(* The loop of _pack never leaves the text it works on.                    *)
THEOREM TypeCorrect == Spec => []TypeOK
BY PackInvHolds, PTL

(* The budget: for every text, target, overlap and tokenizer that adds a   *)
(* constant number of special tokens, testing the running total first      *)
(* changes no decision, and a chunk is over the budget only if it is one   *)
(* sentence or one sentence behind nothing but carried ones.               *)
THEOREM BudgetAlwaysKept == Spec => []BudgetKept
BY PackInvHolds, PTL

(* Coverage: no text loses a sentence or has its sentences out of order,   *)
(* and no chunk is repeated more than once, however much is carried and    *)
(* wherever the topic shifts.                                              *)
THEOREM TextAlwaysCovered == Spec => []Covers
BY PackInvHolds, PTL
=============================================================================
