------------------------- MODULE IndexStore_proofs -------------------------
(***************************************************************************)
(* Proofs about IndexStore for every set of filings, batch size, choice of *)
(* crash points and number of batches.                                     *)
(***************************************************************************)
EXTENDS IndexStore, FiniteSetTheorems, FunctionTheorems, TLAPS

(* The writer names its saves and the reader its files in turn.            *)
LEMMA ListOfType ==
  ASSUME NEW S \in SUBSET Filings
  PROVE  /\ ListOf[S] \in FilingList
         /\ Listed(ListOf[S]) \subseteq S
         /\ NoRepeats(ListOf[S])
  BY StoreAssumption DEF NoRepeats

LEMMA PendingType ==
  ASSUME TypeOK
  PROVE  /\ NextBatch \subseteq Pending /\ NextBatch \in SUBSET Filings
         /\ Pending \subseteq ingested
         /\ \A f \in Pending : f \notin Indexed
  BY DEF TypeOK, Pending, NextBatch

(* What is loadable is of the right type, and so are its filings.          *)
LEMMA LoadableType ==
  ASSUME TypeOK, Loadable
  PROVE  /\ jsonFile = "settings"
         /\ faissFile \in FilingList /\ metaFile \in Store
         /\ metaFile.ids \in FilingList /\ metaFile.layout \in FilingList
         /\ Indexed = Listed(metaFile.ids)
<1>1. jsonFile \notin {NoFile, TornFile} /\ faissFile \notin {NoFile, TornFile}
      /\ metaFile \notin {NoFile, TornFile}
  BY DEF Loadable, Readable
<1>2. jsonFile = "settings" /\ faissFile \in FilingList /\ metaFile \in Store
  BY <1>1 DEF TypeOK, File
<1> QED BY <1>1, <1>2 DEF Store, Indexed

(* Texts that are all readable make a list of filings.                     *)
LEMMA TextsType ==
  ASSUME NEW st \in Store, textFile \in FilingList \cup {NoFile},
         Wrong \notin Listed(Texts(st))
  PROVE  /\ Texts(st) \in FilingList
         /\ Len(Texts(st)) = Len(st.ids)
<1>1. st.ids \in Seq(Filings) /\ st.layout \in Seq(Filings)
  BY DEF Store, FilingList
<1>2. \A i \in 1..Len(st.ids) : Texts(st)[i] \in Filings
  <2> TAKE i \in 1..Len(st.ids)
  <2>1. Texts(st)[i] = IF i > Len(st.layout) THEN st.ids[i] ELSE TextAt(st, i)
    BY DEF Texts
  <2>2. Texts(st)[i] # Wrong
    <3>1. Len(Texts(st)) = Len(st.ids)
      BY <1>1 DEF Texts
    <3> QED BY <3>1 DEF Listed
  <2>3. CASE i > Len(st.layout)
    BY <1>1, <2>1, <2>3
  <2>4. CASE ~ (i > Len(st.layout))
    <3>1. textFile # NoFile /\ i <= Len(textFile) /\ Texts(st)[i] = textFile[i]
      BY <2>1, <2>2, <2>4 DEF TextAt
    <3>2. textFile \in Seq(Filings)
      BY <3>1 DEF FilingList
    <3> QED BY <1>1, <3>1, <3>2
  <2> QED BY <2>3, <2>4
<1>3. Texts(st) = [i \in 1..Len(st.ids) |-> Texts(st)[i]]
  BY DEF Texts
<1>4. Len(st.ids) \in Nat
  BY <1>1
<1> HIDE DEF Texts
<1> QED BY <1>2, <1>3, <1>4 DEF FilingList

LEMMA TextsInOrderType ==
  ASSUME NEW st \in Store, textFile \in FilingList
  PROVE  /\ TextsInOrder(st) \in FilingList
         /\ Len(TextsInOrder(st)) =
              IF Len(st.layout) <= Len(textFile) THEN Len(st.layout) ELSE Len(textFile)
         /\ \A i \in 1..Len(TextsInOrder(st)) : TextsInOrder(st)[i] = textFile[i]
<1> DEFINE n == IF Len(st.layout) <= Len(textFile) THEN Len(st.layout) ELSE Len(textFile)
<1>1. n \in Nat /\ n <= Len(textFile) /\ textFile \in Seq(Filings)
  BY DEF Store, FilingList
<1>2. {k \in 1..Len(st.layout) : k <= Len(textFile)} = 1..n
  BY <1>1 DEF Store, FilingList
<1>3. TextsInOrder(st) = [i \in 1..n |-> textFile[i]]
  BY <1>2 DEF TextsInOrder
<1>4. \A i \in 1..n : textFile[i] \in Filings
  BY <1>1
<1> HIDE DEF n
<1>5. TextsInOrder(st) \in Seq(Filings) /\ Len(TextsInOrder(st)) = n
  BY <1>1, <1>3, <1>4
<1> QED BY <1>3, <1>5 DEF FilingList, n

-----------------------------------------------------------------------------
LEMMA TypeInit == Init => TypeOK /\ TextInv
<1> SUFFICES ASSUME Init PROVE TypeOK /\ TextInv
  OBVIOUS
<1>1. <<>> \in FilingList /\ EmptyStore \in Store
  BY DEF FilingList, EmptyStore, Store
<1>2. NoFile \notin Store
  BY SentinelAssumption
<1> QED BY <1>1, <1>2 DEF Init, TypeOK, TextInv, Saves, File

LEMMA TypeNext == TypeOK /\ TextInv /\ [Next]_vars => TypeOK' /\ TextInv'
<1> SUFFICES ASSUME TypeOK, TextInv, [Next]_vars PROVE TypeOK' /\ TextInv'
  OBVIOUS
<1>e. <<>> \in FilingList /\ EmptyStore \in Store
  BY DEF FilingList, EmptyStore, Store
<1>n. NoFile \notin Store /\ TornFile \notin Store /\ NoFile \notin FilingList
      /\ TornFile \notin FilingList
  BY SentinelAssumption
<1> USE DEF TypeOK, TextInv, Saves, disk, writer, reader
<1>1. ASSUME NEW got \in SUBSET Filings, IngestWave(got) PROVE TypeOK' /\ TextInv'
  BY <1>1 DEF IngestWave
<1>2. CASE StartBatch
  <2> DEFINE new == ListOf[NextBatch]
  <2>1. new \in FilingList
    BY ListOfType, PendingType
  <2>2. vecs' \in FilingList /\ store' \in Store
    <3>1. CASE Indexed # {}
      <4>1. Loadable
        BY <1>2, <3>1 DEF StartBatch, Indexed
      <4>2. vecs' = faissFile \o new /\ store' = [metaFile EXCEPT !.ids = @ \o new]
        BY <1>2, <3>1 DEF StartBatch
      <4>3. faissFile \in Seq(Filings) /\ metaFile \in Store /\ metaFile.ids \in Seq(Filings)
        BY <4>1, LoadableType DEF FilingList
      <4>4. metaFile.ids \o new \in Seq(Filings) /\ faissFile \o new \in Seq(Filings)
        BY <2>1, <4>3 DEF FilingList
      <4>5. [metaFile EXCEPT !.ids = @ \o new] \in Store
        BY <4>3, <4>4 DEF Store, FilingList
      <4> QED BY <4>2, <4>4, <4>5 DEF FilingList
    <3>2. CASE Indexed = {}
      <4>1. vecs' = <<>> \o new /\ store' = [EmptyStore EXCEPT !.ids = new]
        BY <1>2, <3>2 DEF StartBatch
      <4>2. <<>> \o new \in FilingList
        BY <2>1 DEF FilingList
      <4> QED BY <2>1, <4>1, <4>2, <1>e DEF Store, EmptyStore
    <3> QED BY <3>1, <3>2
  <2> QED BY <1>2, <2>2 DEF StartBatch
<1>3. ASSUME NEW filings \in FullBuilds, StartFullBuild(filings) PROVE TypeOK' /\ TextInv'
  <2>1. ListOf[filings] \in FilingList
    BY <1>3, ListOfType, StoreAssumption DEF StartFullBuild
  <2>2. store' \in Store
    BY <1>3, <2>1, <1>e DEF StartFullBuild, Store, EmptyStore
  <2> QED BY <1>3, <2>1, <2>2 DEF StartFullBuild
<1>4. CASE StartReindex
  <2>1. faissFile \in FilingList /\ metaFile \in Store
    BY <1>4, LoadableType DEF StartReindex
  <2> QED BY <1>4, <2>1 DEF StartReindex
<1>5. CASE SaveFaiss
  BY <1>5 DEF SaveFaiss, File
<1>6. CASE SaveText
  <2>1. Texts(store) \in FilingList
    BY <1>6, TextsType DEF SaveText
  <2>2. store' \in Store
    BY <1>6, <2>1 DEF SaveText, Store
  <2>3. textFile' \in FilingList /\ textFile' # NoFile
    BY <1>6, <2>1, <1>n DEF SaveText
  <2> QED BY <1>6, <2>2, <2>3 DEF SaveText
<1>7. CASE SaveMeta
  BY <1>7 DEF SaveMeta
<1>8. CASE SaveJson
  BY <1>8 DEF SaveJson
<1>9. CASE SavePostings
  <2>1. store.layout \in FilingList
    BY DEF Store
  <2> QED BY <1>9, <1>e, <2>1 DEF SavePostings, WriterForgets, File
<1>10. CASE SaveTextRaises
  BY <1>10, <1>e DEF SaveTextRaises, WriterForgets
<1>11. CASE WriterDies
  BY <1>11, <1>e DEF WriterDies, WriterForgets
<1>12. CASE WriterDiesWriting
  BY <1>12, <1>e, <1>n DEF WriterDiesWriting, WriterForgets, File
<1>13. CASE ReadJson
  BY <1>13 DEF ReadJson
<1>14. CASE ReadFaiss
  BY <1>14 DEF ReadFaiss, Readable, File
<1>15. CASE ReadMeta
  BY <1>15 DEF ReadMeta, Readable
<1>16. CASE ReadPostings
  BY <1>16 DEF ReadPostings, Readable, File
<1>17. CASE RebuildPostings
  <2>1. textFile \in FilingList /\ rStore \in Store
    BY <1>17 DEF RebuildPostings
  <2> QED BY <1>17, <2>1, TextsInOrderType DEF RebuildPostings
<1>18. CASE ReaderStops
  BY <1>18, <1>e DEF ReaderStops
<1>19. CASE UNCHANGED vars
  BY <1>19 DEF vars
<1> QED
  BY <1>1, <1>2, <1>3, <1>4, <1>5, <1>6, <1>7, <1>8, <1>9, <1>10, <1>11, <1>12,
     <1>13, <1>14, <1>15, <1>16, <1>17, <1>18, <1>19
  DEF Next, Ingest, Save, Load

LEMMA TypeHolds == Spec => [](TypeOK /\ TextInv)
BY TypeInit, TypeNext, PTL DEF Spec

(* Types: the files, the writer and the reader keep their types whatever   *)
(* commands run and die; in particular the text file is never torn, and    *)
(* whoever holds metadata finds one.                                       *)
THEOREM TypeCorrect == Spec => []TypeOK
BY TypeHolds, PTL

-----------------------------------------------------------------------------
(* No filing is repeated.                                                  *)
LEMMA JoinedOnce ==
  ASSUME NEW s \in FilingList, NEW t \in FilingList,
         NoRepeats(s), NoRepeats(t), Listed(s) \cap Listed(t) = {}
  PROVE  NoRepeats(s \o t)
<1>1. s \in Seq(Filings) /\ t \in Seq(Filings)
  BY DEF FilingList
<1>2. /\ \A i \in 1..Len(s) : (s \o t)[i] = s[i] /\ s[i] \in Listed(s)
      /\ \A i \in 1..Len(s \o t) : ~ (i <= Len(s)) =>
           /\ i - Len(s) \in 1..Len(t)
           /\ (s \o t)[i] = t[i - Len(s)] /\ t[i - Len(s)] \in Listed(t)
  BY <1>1 DEF Listed
<1> SUFFICES ASSUME NEW i \in 1..Len(s \o t), NEW j \in 1..Len(s \o t),
                    (s \o t)[i] = (s \o t)[j]
             PROVE  i = j
  BY DEF NoRepeats
<1>3. Len(s) \in Nat /\ i \in Nat /\ j \in Nat
  BY <1>1
<1>4. CASE i <= Len(s) /\ j <= Len(s)
  BY <1>2, <1>3, <1>4 DEF NoRepeats
<1>5. CASE ~ (i <= Len(s)) /\ ~ (j <= Len(s))
  <2>1. i - Len(s) = j - Len(s)
    BY <1>2, <1>5 DEF NoRepeats
  <2> QED BY <1>3, <2>1
<1>6. CASE i <= Len(s) /\ ~ (j <= Len(s))
  BY <1>2, <1>3, <1>6
<1>7. CASE ~ (i <= Len(s)) /\ j <= Len(s)
  BY <1>2, <1>3, <1>7
<1> QED BY <1>4, <1>5, <1>6, <1>7

(* sorted(pending)[:n] takes n of the pending filings at most: among the   *)
(* first n, each has a rank of its own.                                    *)
LEMMA BatchIsSmall ==
  ASSUME TypeOK
  PROVE  IsFiniteSet(NextBatch) /\ Cardinality(NextBatch) <= BatchSize
<1> DEFINE Below(f) == {g \in Pending : Rank[g] < Rank[f]}
           place == [f \in NextBatch |-> Cardinality(Below(f))]
<1>1. Pending \in SUBSET Filings /\ NextBatch \subseteq Pending
  BY PendingType DEF TypeOK
<1>2. \A f \in NextBatch : IsFiniteSet(Below(f)) /\ Cardinality(Below(f)) \in Nat
  <2> TAKE f \in NextBatch
  <2>1. Below(f) \in SUBSET Filings
    BY <1>1
  <2> QED BY <2>1, StoreAssumption, FS_Subset, FS_CardinalityType
<1>3. \A f, h \in NextBatch :
        Rank[f] < Rank[h] => Cardinality(Below(f)) < Cardinality(Below(h))
  <2> TAKE f, h \in NextBatch
  <2> HAVE Rank[f] < Rank[h]
  <2>1. Rank[f] \in Nat /\ Rank[h] \in Nat /\ \A g \in Pending : Rank[g] \in Nat
    BY <1>1, StoreAssumption
  <2>2. Below(f) \in SUBSET Below(h) /\ f \in Below(h) /\ f \notin Below(f)
    BY <1>1, <2>1
  <2>3. Below(f) # Below(h)
    BY <2>2
  <2> HIDE DEF Below
  <2>4. Cardinality(Below(f)) <= Cardinality(Below(h))
        /\ (Cardinality(Below(h)) = Cardinality(Below(f)) => Below(h) = Below(f))
    BY <1>2, <2>2, FS_Subset
  <2> QED BY <1>2, <2>3, <2>4
<1>4. place \in [NextBatch -> 0..(BatchSize - 1)]
  <2>1. \A f \in NextBatch : Cardinality(Below(f)) < BatchSize
    BY DEF NextBatch
  <2> HIDE DEF Below
  <2> QED BY <1>2, <2>1, StoreAssumption
<1>5. place \in Injection(NextBatch, 0..(BatchSize - 1))
  <2> SUFFICES ASSUME NEW f \in NextBatch, NEW h \in NextBatch, place[f] = place[h]
               PROVE  f = h
    BY <1>4, Fun_IsInj
  <2>1. place[f] = Cardinality(Below(f)) /\ place[h] = Cardinality(Below(h))
    OBVIOUS
  <2>2. f \in Filings /\ h \in Filings /\ Rank[f] \in Nat /\ Rank[h] \in Nat
    BY <1>1, StoreAssumption
  <2> HIDE DEF Below, place
  <2>3. /\ Cardinality(Below(f)) = Cardinality(Below(h))
        /\ Cardinality(Below(f)) \in Nat /\ Cardinality(Below(h)) \in Nat
    BY <1>2, <2>1
  <2>4. ~ (Rank[f] < Rank[h]) /\ ~ (Rank[h] < Rank[f])
    BY <1>3, <2>3
  <2> QED BY <2>2, <2>4, StoreAssumption
<1>6. IsFiniteSet(0..(BatchSize - 1)) /\ Cardinality(0..(BatchSize - 1)) = BatchSize
  BY FS_Interval, StoreAssumption
<1> HIDE DEF place
<1> QED BY <1>5, <1>6, FS_Injection

(* A list without repetitions is no longer than the set it is drawn from.  *)
LEMMA ListIsSmall ==
  ASSUME NEW S, IsFiniteSet(S), NEW s \in Seq(S), NoRepeats(s)
  PROVE  Len(s) <= Cardinality(S)
<1> DEFINE at == [i \in 1..Len(s) |-> s[i]]
<1>1. Len(s) \in Nat /\ at \in [1..Len(s) -> S]
  OBVIOUS
<1>2. \A i, j \in 1..Len(s) : at[i] = at[j] => i = j
  BY DEF NoRepeats
<1> HIDE DEF at
<1>3. at \in Injection(1..Len(s), S)
  BY <1>1, <1>2, Fun_IsInj
<1>4. Cardinality(1..Len(s)) = Len(s)
  <2>1. 1 \in Int /\ Len(s) \in Int
    BY <1>1
  <2>2. Cardinality(1..Len(s)) = IF 1 > Len(s) THEN 0 ELSE Len(s) - 1 + 1
    BY <2>1, FS_Interval
  <2> QED BY <1>1, <2>2
<1> QED BY <1>3, <1>4, FS_Injection

(* What a batch adds: some pending filings, each once, behind those held.  *)
LEMMA BatchStarts ==
  ASSUME TypeOK, StartBatch
  PROVE  \E new \in FilingList :
           /\ new # <<>> /\ NoRepeats(new) /\ Len(new) <= BatchSize
           /\ Listed(new) \subseteq ingested
           /\ Listed(new) \cap Indexed = {}
           /\ HeldIds \in FilingList /\ Listed(HeldIds) = Indexed
           /\ store'.ids = HeldIds \o new
           /\ store'.layout = IF jsonFile = NoFile \/ HeldIds = <<>>
                              THEN <<>> ELSE metaFile.layout
           /\ vecs' = (IF jsonFile = NoFile \/ HeldIds = <<>>
                       THEN <<>> ELSE faissFile) \o new
<1> DEFINE new == ListOf[NextBatch]
<1>1. new \in FilingList /\ Listed(new) \subseteq NextBatch /\ NoRepeats(new)
  BY ListOfType, PendingType
<1>2. new # <<>>
  BY DEF StartBatch
<1>3. Listed(new) \subseteq ingested /\ Listed(new) \cap Indexed = {}
  BY <1>1, PendingType
<1>4. Len(new) <= BatchSize
  <2>1. new \in Seq(NextBatch)
    BY <1>1 DEF FilingList, Listed
  <2>2. Len(new) <= Cardinality(NextBatch) /\ Cardinality(NextBatch) \in Nat
    BY <1>1, <2>1, ListIsSmall, BatchIsSmall, FS_CardinalityType
  <2>3. Len(new) \in Nat /\ BatchSize \in Nat
    BY <2>1, StoreAssumption
  <2> HIDE DEF new
  <2> QED BY <2>2, <2>3, BatchIsSmall
<1>5. HeldIds \in FilingList /\ Listed(HeldIds) = Indexed
      /\ (HeldIds = <<>> <=> Indexed = {})
  <2>1. CASE jsonFile = NoFile
    BY <2>1 DEF HeldIds, Indexed, FilingList, Listed
  <2>2. CASE jsonFile # NoFile
    <3>1. Loadable
      BY <2>2 DEF StartBatch
    <3>2. HeldIds = metaFile.ids /\ metaFile.ids \in Seq(Filings)
          /\ Indexed = Listed(metaFile.ids)
      BY <2>2, <3>1, LoadableType DEF HeldIds, FilingList
    <3>3. metaFile.ids # <<>> => 1 \in 1..Len(metaFile.ids)
      BY <3>2
    <3> QED BY <3>2, <3>3 DEF FilingList, Listed
  <2> QED BY <2>1, <2>2
<1>6. /\ vecs' = (IF Indexed # {} THEN faissFile ELSE <<>>) \o new
      /\ store' = (IF Indexed # {} THEN [metaFile EXCEPT !.ids = @ \o new]
                   ELSE [EmptyStore EXCEPT !.ids = new])
  BY DEF StartBatch
<1> HIDE DEF new
<1>7. CASE Indexed # {}
  <2>1. jsonFile # NoFile
    BY <1>7 DEF Indexed
  <2>2. metaFile \in Store /\ HeldIds = metaFile.ids
    BY <2>1, LoadableType DEF StartBatch, HeldIds
  <2>3. store'.ids = metaFile.ids \o new /\ store'.layout = metaFile.layout
    BY <1>6, <1>7, <2>2 DEF Store
  <2> QED BY <1>1, <1>2, <1>3, <1>4, <1>5, <1>6, <1>7, <2>1, <2>2, <2>3
<1>8. CASE Indexed = {}
  <2>1. store'.ids = new /\ store'.layout = <<>> /\ vecs' = <<>> \o new
    BY <1>6, <1>8 DEF EmptyStore
  <2>2. <<>> \o new = new
    BY <1>1 DEF FilingList
  <2> QED BY <1>1, <1>2, <1>3, <1>4, <1>5, <1>8, <2>1, <2>2
<1> QED BY <1>7, <1>8

LEMMA OnceInit == Init => OnceInv
BY SentinelAssumption DEF Init, OnceInv, EmptyStore, NoRepeats

LEMMA OnceNext == TypeOK /\ OnceInv /\ [Next]_vars => OnceInv'
<1> SUFFICES ASSUME TypeOK, OnceInv, [Next]_vars PROVE OnceInv'
  OBVIOUS
<1>n. NoRepeats(<<>>) /\ NoRepeats(EmptyStore.ids) /\ TornFile \notin Store
  BY SentinelAssumption DEF NoRepeats, EmptyStore
<1> USE DEF OnceInv, disk, writer, reader
<1>1. CASE StartBatch
  <2>1. PICK new \in FilingList :
          /\ NoRepeats(new) /\ Listed(new) \cap Indexed = {}
          /\ HeldIds \in FilingList /\ Listed(HeldIds) = Indexed
          /\ store'.ids = HeldIds \o new
    BY <1>1, BatchStarts
  <2>2. NoRepeats(HeldIds)
    <3>1. CASE jsonFile = NoFile
      BY <1>n, <3>1 DEF HeldIds
    <3>2. CASE jsonFile # NoFile
      BY <1>1, <3>2, LoadableType DEF HeldIds, StartBatch
    <3> QED BY <3>1, <3>2
  <2> QED BY <1>1, <2>1, <2>2, JoinedOnce DEF StartBatch
<1>2. ASSUME NEW filings \in FullBuilds, StartFullBuild(filings) PROVE OnceInv'
  <2>1. NoRepeats(ListOf[filings])
    BY <1>2, ListOfType, StoreAssumption DEF StartFullBuild
  <2> QED BY <1>2, <2>1 DEF StartFullBuild, EmptyStore
<1>3. CASE StartReindex
  BY <1>3, LoadableType DEF StartReindex
<1>4. CASE SaveText
  BY <1>4 DEF SaveText, TypeOK, Store
<1>5. CASE SaveMeta
  BY <1>5 DEF SaveMeta
<1>6. CASE SaveFaiss \/ SaveJson \/ SavePostings
  BY <1>6, <1>n DEF SaveFaiss, SaveJson, SavePostings, WriterForgets
<1>7. CASE SaveTextRaises \/ WriterDies
  BY <1>7, <1>n DEF SaveTextRaises, WriterDies, WriterForgets
<1>8. CASE WriterDiesWriting
  BY <1>8, <1>n DEF WriterDiesWriting, WriterForgets
<1>9. CASE Ingest \/ Load \/ ReaderStops \/ UNCHANGED vars
  BY <1>9 DEF Ingest, IngestWave, Load, ReadJson, ReadFaiss, ReadMeta, ReadPostings,
     RebuildPostings, ReaderStops, vars
<1> QED
  BY <1>1, <1>2, <1>3, <1>4, <1>5, <1>6, <1>7, <1>8, <1>9 DEF Next, Save

(* "The index is the thing that must not be double-counted": whatever      *)
(* batches, rebuilds and reindexing are interrupted and repeated, loads    *)
(* find no filing twice.                                                   *)
THEOREM EachIndexedOnce == Spec => []IndexedOnce
<1>1. TypeOK /\ OnceInv => IndexedOnce
  BY DEF TypeOK, OnceInv, IndexedOnce, Readable, NoRepeats
<1> QED BY <1>1, OnceInit, OnceNext, TypeHolds, PTL DEF Spec

-----------------------------------------------------------------------------
(* While a save is under way.                                              *)
LEMMA PrefixTransitive ==
  ASSUME NEW s \in FilingList, NEW t \in FilingList, NEW u \in FilingList,
         Prefix(s, t), Prefix(t, u)
  PROVE  Prefix(s, u)
<1>1. s \in Seq(Filings) /\ t \in Seq(Filings) /\ u \in Seq(Filings)
  BY DEF FilingList
<1>2. Len(s) \in Nat /\ Len(t) \in Nat /\ Len(u) \in Nat
  BY <1>1
<1> QED BY <1>2 DEF Prefix

LEMMA PrefixSame ==
  ASSUME NEW s \in FilingList
  PROVE  Prefix(s, s)
<1>1. Len(s) \in Nat
  BY DEF FilingList
<1> QED BY <1>1 DEF Prefix

LEMMA PrefixJoined ==
  ASSUME NEW s \in FilingList, NEW t \in FilingList
  PROVE  /\ s \o t \in FilingList /\ Prefix(s, s \o t)
         /\ Len(s \o t) = Len(s) + Len(t)
         /\ Listed(s \o t) \subseteq Listed(s) \cup Listed(t)
<1>1. s \in Seq(Filings) /\ t \in Seq(Filings)
  BY DEF FilingList
<1>2. /\ s \o t \in Seq(Filings) /\ Len(s \o t) = Len(s) + Len(t)
      /\ Len(s) \in Nat /\ Len(t) \in Nat
      /\ \A i \in 1..Len(s) : (s \o t)[i] = s[i]
      /\ \A i \in 1..Len(s \o t) : ~ (i <= Len(s)) =>
           i - Len(s) \in 1..Len(t) /\ (s \o t)[i] = t[i - Len(s)]
  BY <1>1
<1>3. \A i \in 1..Len(s \o t) : i <= Len(s) => i \in 1..Len(s)
  BY <1>2
<1> QED BY <1>2, <1>3 DEF FilingList, Prefix, Listed

(* Equally long beginnings of one list are equal.                          *)
LEMMA PrefixesEqual ==
  ASSUME NEW s \in FilingList, NEW t \in FilingList, NEW u,
         Prefix(s, u), Prefix(t, u), Len(s) = Len(t)
  PROVE  s = t
<1>1. s \in Seq(Filings) /\ t \in Seq(Filings)
  BY DEF FilingList
<1>2. \A i \in 1..Len(s) : s[i] = t[i]
  BY DEF Prefix
<1> QED BY <1>1, <1>2

(* A backed store reads the texts of its chunks.                           *)
LEMMA BackedReads ==
  ASSUME TypeOK, NEW st \in Store, Backed(st)
  PROVE  \A i \in 1..Len(st.ids) : TextAt(st, i) = st.ids[i]
<1> TAKE i \in 1..Len(st.ids)
<1>1. textFile \in Seq(Filings) /\ st.ids \in Seq(Filings) /\ st.layout = st.ids
  BY DEF TypeOK, Backed, Store, FilingList
<1>2. Len(st.ids) <= Len(textFile) /\ \A j \in 1..Len(st.ids) : st.ids[j] = textFile[j]
  BY DEF Backed, Prefix
<1>3. i <= Len(textFile) /\ \A j \in 1..(i - 1) : textFile[j] = st.layout[j]
  BY <1>1, <1>2
<1> QED BY <1>2, <1>3 DEF TextAt, Backed

(* What save writes is the text of every chunk, and nothing that cannot be *)
(* decoded.                                                                *)
LEMMA TextsAreIds ==
  ASSUME TypeOK, WriterInv, wpc = "text"
  PROVE  /\ Texts(store) = store.ids
         /\ Wrong \notin Listed(Texts(store))
<1>1. store.ids \in Seq(Filings) /\ store.layout \in Seq(Filings)
  BY DEF TypeOK, Store, FilingList
<1>2. \A i \in 1..Len(store.ids) : Texts(store)[i] = store.ids[i]
  <2> TAKE i \in 1..Len(store.ids)
  <2>1. Texts(store)[i] = IF i > Len(store.layout) THEN store.ids[i] ELSE TextAt(store, i)
    BY DEF Texts
  <2>2. CASE ~ (i > Len(store.layout))
    <3>1. i \in 1..Len(store.layout) /\ store.layout # <<>> /\ Len(store.layout) \in Nat
      BY <1>1, <2>2
    <3>2. /\ textFile # NoFile /\ Len(store.layout) <= Len(textFile)
          /\ \A j \in 1..Len(store.layout) :
               store.layout[j] = textFile[j] /\ store.layout[j] = store.ids[j]
      BY <3>1 DEF WriterInv, Prefix
    <3>3. textFile \in Seq(Filings)
      BY <3>2 DEF TypeOK, FilingList
    <3>4. i <= Len(textFile) /\ \A j \in 1..(i - 1) : textFile[j] = store.layout[j]
      <4>1. Len(textFile) \in Nat
        BY <3>3
      <4>2. i <= Len(textFile) /\ 1..(i - 1) \subseteq 1..Len(store.layout)
        BY <3>1, <3>2, <4>1
      <4> QED BY <3>2, <4>2, Zenon
    <3>5. TextAt(store, i) = textFile[i]
      BY <3>2, <3>4 DEF TextAt
    <3> QED BY <2>1, <2>2, <3>1, <3>2, <3>5
  <2> QED BY <2>1, <2>2
<1>3. Texts(store) = [i \in 1..Len(store.ids) |-> Texts(store)[i]]
  BY DEF Texts
<1>4. store.ids = [i \in 1..Len(store.ids) |-> store.ids[i]]
  BY <1>1
<1> HIDE DEF Texts
<1>5. Texts(store) = store.ids
  BY <1>2, <1>3, <1>4
<1> QED BY <1>1, <1>5, SentinelAssumption DEF Listed

(* If every load finds a backed store, so does the writer, and saves it    *)
(* step by step.                                                           *)
LEMMA WriterNext ==
  ASSUME TypeOK, WriterInv, [Next]_vars,
         wpc = "idle" /\ Loadable => Backed(metaFile)
  PROVE  WriterInv'
<1> USE DEF WriterInv, disk, writer, reader
<1>e. <<>> \in FilingList /\ \A s \in FilingList : Prefix(<<>>, s)
  BY DEF FilingList, Prefix
<1>1. CASE StartBatch
  <2>1. PICK new \in FilingList :
          /\ HeldIds \in FilingList
          /\ store'.ids = HeldIds \o new
          /\ store'.layout = IF jsonFile = NoFile \/ HeldIds = <<>>
                             THEN <<>> ELSE metaFile.layout
    BY <1>1, BatchStarts
  <2>2. HeldIds \o new \in FilingList /\ Prefix(HeldIds, HeldIds \o new)
    BY <2>1, PrefixJoined
  <2>3. CASE jsonFile = NoFile \/ HeldIds = <<>>
    BY <1>1, <1>e, <2>1, <2>2, <2>3 DEF StartBatch
  <2>4. CASE ~ (jsonFile = NoFile \/ HeldIds = <<>>)
    <3>1. wpc = "idle" /\ Loadable
      BY <1>1, <2>4 DEF StartBatch
    <3>2. store'.layout = HeldIds /\ textFile # NoFile /\ Prefix(HeldIds, textFile)
      BY <2>1, <2>4, <3>1 DEF Backed, HeldIds
    <3> QED BY <1>1, <2>1, <2>2, <3>2 DEF StartBatch
  <2> QED BY <2>3, <2>4
<1>2. ASSUME NEW filings \in FullBuilds, StartFullBuild(filings) PROVE WriterInv'
  <2>1. ListOf[filings] \in FilingList
    BY <1>2, ListOfType, StoreAssumption DEF StartFullBuild
  <2> QED BY <1>2, <1>e, <2>1 DEF StartFullBuild, EmptyStore
<1>3. CASE StartReindex
  <2>1. Backed(metaFile) /\ metaFile.ids \in FilingList
    BY <1>3, LoadableType DEF StartReindex
  <2> QED BY <1>3, <2>1, PrefixSame DEF StartReindex, Backed
<1>4. CASE SaveFaiss
  BY <1>4 DEF SaveFaiss
<1>5. CASE SaveText
  <2>1. Texts(store) = store.ids
    BY <1>5, TextsAreIds DEF SaveText
  <2>2. store'.ids = store.ids /\ store'.layout = store.ids
    BY <1>5, <2>1 DEF SaveText, TypeOK, Store
  <2> QED BY <1>5, <2>1, <2>2 DEF SaveText
<1>6. CASE SaveMeta
  BY <1>6 DEF SaveMeta
<1>7. CASE SaveJson
  BY <1>7 DEF SaveJson
<1>8. CASE SavePostings \/ SaveTextRaises \/ WriterDies \/ WriterDiesWriting
  BY <1>8 DEF SavePostings, SaveTextRaises, WriterDies, WriterDiesWriting, WriterForgets
<1>9. CASE Ingest \/ Load \/ ReaderStops \/ UNCHANGED vars
  BY <1>9 DEF Ingest, IngestWave, Load, ReadJson, ReadFaiss, ReadMeta, ReadPostings,
     RebuildPostings, ReaderStops, vars
<1> QED
  BY <1>1, <1>2, <1>3, <1>4, <1>5, <1>6, <1>7, <1>8, <1>9 DEF Next, Save

(* The files and the reader: what a save replaces was a beginning of what  *)
(* it puts there.                                                          *)
LEMMA DiskNext ==
  ASSUME TypeOK, WriterInv, DiskInv, BatchInv, [Next]_vars
  PROVE  DiskInv'
<1> USE DEF DiskInv, disk, writer, reader
<1>n. NoFile \notin Store /\ TornFile \notin Store /\ NoFile \notin FilingList
      /\ TornFile \notin FilingList /\ NoFile # TornFile
      /\ NoFile # "settings" /\ TornFile # "settings"
  BY SentinelAssumption
<1>s. /\ store.ids \in FilingList /\ store.layout \in FilingList
      /\ rStore.ids \in FilingList
      /\ metaFile \in Store => metaFile.ids \in FilingList
  BY DEF TypeOK, Store
<1>1. CASE Ingest \/ StartBatch \/ StartReindex \/ UNCHANGED vars
           \/ \E filings \in FullBuilds : StartFullBuild(filings)
  BY <1>1 DEF Ingest, IngestWave, StartBatch, StartReindex, StartFullBuild, vars,
     Backed, Newest
<1>2. CASE SaveFaiss \/ SaveTextRaises \/ WriterDies
  BY <1>2 DEF SaveFaiss, SaveTextRaises, WriterDies, Backed, Newest
<1>3. CASE SaveText
  <2>1. textFile' = store.ids /\ textFile' # NoFile
    BY <1>3, <1>n, <1>s, TextsAreIds DEF SaveText
  <2>2. ASSUME jsonFile # NoFile
        PROVE  /\ metaFile \in Store /\ Prefix(metaFile.ids, store.ids)
               /\ \A s \in FilingList : Newest(s) => Newest(s)'
    <3>1. metaFile \in Store /\ metaFile.ids \in FilingList /\ HeldIds = metaFile.ids
      BY <1>3, <2>2, LoadableType DEF BatchInv, SaveText, HeldIds
    <3>2. Prefix(metaFile.ids, store.ids)
      BY <1>3, <3>1 DEF BatchInv, SaveText
    <3> QED BY <1>3, <1>s, <2>1, <3>1, <3>2, PrefixTransitive DEF Newest, SaveText
  <2>3. UNCHANGED <<jsonFile, metaFile, postFile, rpc, rStore>>
    BY <1>3 DEF SaveText
  <2>4. jsonFile # NoFile /\ metaFile \in Store => Backed(metaFile)'
    BY <2>1, <2>2, <2>3 DEF Backed
  <2>5. postFile \in FilingList => Newest(postFile)'
    <3> SUFFICES ASSUME postFile \in FilingList PROVE Newest(postFile)'
      OBVIOUS
    <3>1. jsonFile # NoFile /\ Newest(postFile)
      OBVIOUS
    <3> QED BY <2>2, <2>3, <3>1 DEF Newest
  <2>6. rpc \in {"postings", "serving"} => Backed(rStore)' /\ Newest(rStore.ids)'
    <3> SUFFICES ASSUME rpc \in {"postings", "serving"}
                 PROVE  Backed(rStore)' /\ Newest(rStore.ids)'
      OBVIOUS
    <3>1. jsonFile # NoFile /\ Backed(rStore) /\ Newest(rStore.ids)
      OBVIOUS
    <3>2. Newest(rStore.ids)'
      BY <1>s, <2>2, <2>3, <3>1 DEF Newest
    <3> QED BY <2>1, <2>3, <3>1, <3>2 DEF Backed, Newest
  <2> QED BY <2>1, <2>3, <2>4, <2>5, <2>6
<1>4. CASE SaveMeta
  <2>1. /\ metaFile' = store /\ textFile' = textFile /\ textFile # NoFile
        /\ store.layout = store.ids /\ textFile = store.ids
    BY <1>4, <1>n, <1>s DEF SaveMeta, WriterInv
  <2>2. Backed(metaFile)'
    BY <1>s, <2>1, PrefixSame DEF Backed
  <2>3. \A s \in FilingList : Newest(s) => Newest(s)'
    BY <2>1 DEF Newest
  <2> QED BY <1>4, <1>s, <2>1, <2>2, <2>3 DEF SaveMeta, Backed
<1>5. CASE SaveJson
  <2>1. metaFile = store /\ store.layout = store.ids /\ textFile = store.ids
    BY <1>5 DEF SaveJson, WriterInv
  <2>2. Backed(metaFile)'
    BY <1>5, <1>n, <1>s, <2>1, PrefixSame DEF Backed, SaveJson
  <2> QED BY <1>5, <1>n, <2>2 DEF SaveJson, Backed, Newest
<1>6. CASE SavePostings
  <2>1. /\ metaFile = store /\ store.layout = store.ids /\ textFile = store.ids
        /\ jsonFile = "settings" /\ postFile' = store.ids
    BY <1>6 DEF SavePostings, WriterInv
  <2>2. textFile' # NoFile /\ Newest(postFile)'
    BY <1>6, <1>n, <1>s, <2>1, PrefixSame DEF Newest, SavePostings
  <2> QED BY <1>6, <1>n, <2>1, <2>2 DEF SavePostings, Backed, Newest
<1>7. CASE WriterDiesWriting
  <2>1. postFile' = postFile \/ postFile' \notin FilingList
    BY <1>7, <1>n DEF WriterDiesWriting
  <2>2. metaFile' = metaFile \/ metaFile' \notin Store
    BY <1>7, <1>n DEF WriterDiesWriting
  <2>3. jsonFile' = NoFile => jsonFile = NoFile /\ postFile' \notin FilingList
    BY <1>7, <1>n, <2>1 DEF WriterDiesWriting
  <2>4. jsonFile' # NoFile /\ metaFile' \in Store => Backed(metaFile)'
    <3>1. CASE wpc = "json"
      <4>1. metaFile = store /\ store.layout = store.ids /\ textFile = store.ids
        BY <3>1 DEF WriterInv
      <4> QED BY <1>7, <1>n, <1>s, <3>1, <4>1, PrefixSame DEF Backed, WriterDiesWriting
    <3>2. CASE wpc # "json"
      BY <1>7, <2>2, <3>2 DEF WriterDiesWriting, Backed
    <3> QED BY <3>1, <3>2
  <2>5. textFile' = textFile /\ rpc' = rpc /\ rStore' = rStore
    BY <1>7 DEF WriterDiesWriting
  <2> QED BY <2>1, <2>2, <2>3, <2>4, <2>5 DEF Backed, Newest
<1>8. CASE ReadMeta
  <2>1. jsonFile # NoFile /\ metaFile \in Store /\ rStore' = metaFile
    BY <1>8 DEF ReadMeta, Readable, TypeOK
  <2>2. Backed(metaFile) /\ Newest(metaFile.ids)
    BY <1>s, <2>1, PrefixSame DEF Newest, Backed
  <2> QED BY <1>8, <2>1, <2>2 DEF ReadMeta, Backed, Newest
<1>9. CASE ReadJson \/ ReadFaiss \/ ReadPostings \/ RebuildPostings \/ ReaderStops
  BY <1>9 DEF ReadJson, ReadFaiss, ReadPostings, RebuildPostings, ReaderStops,
     Readable, Backed, Newest
<1> QED
  BY <1>1, <1>2, <1>3, <1>4, <1>5, <1>6, <1>7, <1>8, <1>9 DEF Next, Save, Load

(* A command adds a batch at most, and only behind what a load would find. *)
LEMMA BatchNext ==
  ASSUME TypeOK, WriterInv, BatchInv, [Next]_vars,
         \A filings \in FullBuilds : ~ StartFullBuild(filings)
  PROVE  BatchInv'
<1> USE DEF BatchInv, disk, writer, reader
<1>n. NoFile \notin Store /\ TornFile \notin Store /\ NoFile \notin FilingList
      /\ TornFile \notin FilingList /\ NoFile # "settings" /\ TornFile # "settings"
  BY SentinelAssumption
<1>s. store.ids \in FilingList /\ Len(store.ids) \in Nat /\ BatchSize \in Nat
  BY StoreAssumption DEF TypeOK, Store, FilingList
<1>1. CASE StartBatch
  <2>1. PICK new \in FilingList :
          /\ new # <<>> /\ Len(new) <= BatchSize /\ Listed(new) \subseteq ingested
          /\ HeldIds \in FilingList
          /\ store'.ids = HeldIds \o new
    BY <1>1, BatchStarts
  <2>2. /\ Prefix(HeldIds, HeldIds \o new)
        /\ Len(HeldIds \o new) = Len(HeldIds) + Len(new)
        /\ Listed(HeldIds \o new) \subseteq Listed(HeldIds) \cup Listed(new)
    BY <2>1, PrefixJoined
  <2>3. HeldIds \in Seq(Filings) /\ new \in Seq(Filings)
    BY <2>1 DEF FilingList
  <2>4. HeldIds \o new # <<>>
    BY <2>1, <2>3
  <2>5. Len(HeldIds \o new) <= Len(HeldIds) + BatchSize
    BY <1>s, <2>1, <2>2, <2>3
  <2>6. HeldIds' = HeldIds /\ ingested' = ingested /\ wpc' = "faiss"
        /\ (jsonFile # NoFile => Loadable) /\ (Loadable' = Loadable) /\ jsonFile' = jsonFile
    BY <1>1 DEF StartBatch, HeldIds, Loadable, Readable
  <2> QED BY <2>1, <2>2, <2>4, <2>5, <2>6
<1>2. CASE StartReindex
  <2>1. /\ jsonFile = "settings" /\ metaFile.ids \in FilingList
        /\ store' = metaFile /\ HeldIds = metaFile.ids
    BY <1>2, <1>n, LoadableType DEF StartReindex, HeldIds
  <2>2. Len(metaFile.ids) \in Nat
    BY <2>1 DEF FilingList
  <2>3. HeldIds' = HeldIds /\ Loadable'
    BY <1>2 DEF StartReindex, HeldIds, Loadable, Readable
  <2> QED BY <1>2, <1>n, <1>s, <2>1, <2>2, <2>3, PrefixSame DEF StartReindex
<1>3. CASE SaveFaiss
  <2>1. HeldIds' = HeldIds /\ faissFile' \in FilingList /\ store' = store
        /\ ingested' = ingested /\ jsonFile' = jsonFile
    BY <1>3 DEF SaveFaiss, HeldIds, TypeOK
  <2>2. jsonFile # NoFile => Loadable'
    BY <1>3, <1>n, <2>1 DEF SaveFaiss, Loadable, Readable
  <2> QED BY <1>3, <2>1, <2>2 DEF SaveFaiss
<1>4. CASE SaveText
  <2>1. HeldIds' = HeldIds /\ faissFile' = faissFile /\ store'.ids = store.ids
        /\ ingested' = ingested /\ jsonFile' = jsonFile /\ (Loadable' = Loadable)
    BY <1>4 DEF SaveText, HeldIds, TypeOK, Store, Loadable, Readable
  <2> QED BY <1>4, <2>1 DEF SaveText
<1>5. CASE SaveMeta
  <2>1. /\ metaFile' = store /\ store' = store /\ jsonFile' = jsonFile
        /\ faissFile' = faissFile /\ faissFile \in FilingList /\ ingested' = ingested
    BY <1>5 DEF SaveMeta
  <2>2. jsonFile # NoFile => Loadable' /\ HeldIds' = store.ids
    BY <1>5, <1>n, <2>1 DEF SaveMeta, Loadable, Readable, TypeOK, HeldIds
  <2>3. jsonFile = NoFile => HeldIds' = HeldIds
    BY <2>1 DEF HeldIds
  <2>4. CASE jsonFile = NoFile
    BY <1>5, <2>1, <2>3, <2>4 DEF SaveMeta
  <2>5. CASE jsonFile # NoFile
    BY <1>5, <1>s, <2>1, <2>2, <2>5, PrefixSame DEF SaveMeta
  <2> QED BY <2>4, <2>5
<1>6. CASE SaveJson
  <2>1. /\ metaFile' = store /\ store' = store /\ jsonFile' = "settings"
        /\ faissFile' = faissFile /\ faissFile \in FilingList /\ ingested' = ingested
    BY <1>6 DEF SaveJson, WriterInv
  <2>2. Loadable' /\ HeldIds' = store.ids
    BY <1>n, <2>1 DEF Loadable, Readable, TypeOK, HeldIds
  <2> QED BY <1>n, <1>s, <2>1, <2>2, PrefixSame
<1>7. CASE SavePostings \/ SaveTextRaises \/ WriterDies \/ WriterDiesWriting
  BY <1>7 DEF SavePostings, SaveTextRaises, WriterDies, WriterDiesWriting, WriterForgets
<1>8. CASE Ingest
  BY <1>8 DEF Ingest, IngestWave
<1>9. CASE Load \/ ReaderStops \/ UNCHANGED vars
  BY <1>9 DEF Load, ReadJson, ReadFaiss, ReadMeta, ReadPostings, RebuildPostings,
     ReaderStops, vars, HeldIds, Loadable, Readable
<1> QED
  BY <1>1, <1>2, <1>3, <1>4, <1>5, <1>6, <1>7, <1>8, <1>9 DEF Next, Save

LEMMA GrowthInit == Init => GrowthInv
BY SentinelAssumption DEF Init, GrowthInv, WriterInv, DiskInv, BatchInv

LEMMA GrowthNext ==
  ASSUME TypeOK, GrowthInv, [Next]_vars,
         \A filings \in FullBuilds : ~ StartFullBuild(filings)
  PROVE  GrowthInv'
<1>1. wpc = "idle" /\ Loadable => Backed(metaFile)
  BY LoadableType, SentinelAssumption DEF GrowthInv, DiskInv
<1> QED BY <1>1, WriterNext, DiskNext, BatchNext DEF GrowthInv

(* Once scripts/index.py has been run, that stays so; until then no full   *)
(* build is begun.                                                         *)
LEMMA RebuiltStays ==
  ASSUME TypeOK, [Next]_vars, ~ rebuilt'
  PROVE  ~ rebuilt /\ \A filings \in FullBuilds : ~ StartFullBuild(filings)
<1>1. ASSUME NEW filings \in FullBuilds, StartFullBuild(filings) PROVE FALSE
  BY <1>1 DEF StartFullBuild
<1>2. rebuilt' = rebuilt
  BY <1>1 DEF Next, Ingest, IngestWave, StartBatch, StartReindex, Save, SaveFaiss,
     SaveText, SaveMeta, SaveJson, SavePostings, SaveTextRaises, WriterDies,
     WriterDiesWriting, WriterForgets, Load, ReadJson, ReadFaiss, ReadMeta,
     ReadPostings, RebuildPostings, ReaderStops, vars, writer
<1> QED BY <1>1, <1>2

LEMMA GrownNext == TypeOK /\ Grown /\ [Next]_vars => Grown'
<1> SUFFICES ASSUME TypeOK, Grown, [Next]_vars, ~ rebuilt' PROVE GrowthInv'
  BY DEF Grown
<1>1. ~ rebuilt /\ \A filings \in FullBuilds : ~ StartFullBuild(filings)
  BY RebuiltStays
<1> QED BY <1>1, GrowthNext DEF Grown

LEMMA GrowthHolds == Spec => [](TypeOK /\ TextInv /\ Grown)
<1>1. Init => Grown
  BY GrowthInit DEF Grown
<1> QED BY <1>1, GrownNext, TypeHolds, PTL DEF Spec

(* While an index is only grown, the text behind a chunk id that was       *)
(* loaded is that chunk's text, whatever save a load overlaps and wherever *)
(* the writer died before.                                                 *)
THEOREM TextsStayBacked == Spec => []TextBacked
<1>1. TypeOK /\ Grown => TextBacked
  BY BackedReads DEF TypeOK, Grown, GrowthInv, DiskInv, TextBacked
<1> QED BY <1>1, GrowthHolds, PTL

LEMMA PostingsNext ==
  ASSUME TypeOK, TextInv, Grown, RightPostings, [Next]_vars
  PROVE  RightPostings'
<1> SUFFICES ASSUME ~ rebuilt' PROVE rpc' = "serving" => rPost' = rStore'.ids
  BY DEF RightPostings
<1>g. GrowthInv /\ (rpc = "serving" => rPost = rStore.ids)
  BY RebuiltStays DEF Grown, RightPostings
<1> USE DEF disk, writer, reader
<1>1. CASE ReadPostings
  <2>1. /\ postFile \in FilingList /\ Len(postFile) = Len(rStore.ids)
        /\ rPost' = postFile /\ rStore' = rStore
    BY <1>1 DEF ReadPostings, Readable, TypeOK, File
  <2>2. Prefix(postFile, textFile) /\ Prefix(rStore.ids, textFile)
        /\ rStore.ids \in FilingList
    BY <1>g, <1>1, <2>1 DEF ReadPostings, GrowthInv, DiskInv, Newest, TypeOK, Store
  <2>3. postFile = rStore.ids
    BY <2>1, <2>2, PrefixesEqual
  <2> QED BY <2>1, <2>3
<1>2. CASE RebuildPostings
  <2>1. /\ rPost' = TextsInOrder(rStore) /\ rStore' = rStore /\ rStore \in Store
        /\ textFile \in FilingList /\ Backed(rStore) /\ rStore.ids \in FilingList
    BY <1>g, <1>2 DEF RebuildPostings, TypeOK, TextInv, GrowthInv, DiskInv, Store
  <2>2. /\ TextsInOrder(rStore) \in FilingList
        /\ Len(TextsInOrder(rStore)) = Len(rStore.ids)
        /\ \A i \in 1..Len(TextsInOrder(rStore)) : TextsInOrder(rStore)[i] = textFile[i]
    BY <2>1, TextsInOrderType DEF Backed, Prefix
  <2>3. Len(rStore.ids) <= Len(textFile)
        /\ \A i \in 1..Len(rStore.ids) : rStore.ids[i] = textFile[i]
    BY <2>1 DEF Backed, Prefix
  <2>4. TextsInOrder(rStore) \in Seq(Filings) /\ rStore.ids \in Seq(Filings)
    BY <2>1, <2>2 DEF FilingList
  <2> HIDE DEF TextsInOrder
  <2>5. TextsInOrder(rStore) = rStore.ids
    BY <2>2, <2>3, <2>4
  <2> QED BY <2>1, <2>5
<1>3. CASE ReadJson \/ ReadFaiss \/ ReadMeta \/ ReaderStops \/ UNCHANGED vars
  BY <1>g, <1>3 DEF ReadJson, ReadFaiss, ReadMeta, ReaderStops, vars
<1>4. CASE UNCHANGED reader
  BY <1>g, <1>4
<1>5. [Next]_vars => UNCHANGED reader \/ Load \/ ReaderStops
  BY DEF Next, Ingest, IngestWave, StartBatch, StartFullBuild, StartReindex, Save,
     SaveFaiss, SaveText, SaveMeta, SaveJson, SavePostings, SaveTextRaises,
     WriterDies, WriterDiesWriting, vars
<1> QED BY <1>1, <1>2, <1>3, <1>4, <1>5 DEF Load

(* "The row index is the chunk id": while an index is only grown, the term *)
(* statistics a process serves with are those of its own chunks, read or   *)
(* rebuilt, whatever save the load overlaps: postings of the right length  *)
(* are the right postings.                                                 *)
THEOREM PostingsStayRight == Spec => []RightPostings
<1>1. Init => RightPostings
  BY DEF Init, RightPostings
<1>2. TypeOK /\ TextInv /\ Grown /\ RightPostings /\ [Next]_vars => RightPostings'
  BY PostingsNext
<1> QED BY <1>1, <1>2, GrowthHolds, PTL DEF Spec

-----------------------------------------------------------------------------
(* The promise.  A save that lengthens what a load would find extends the  *)
(* index by new filings.                                                   *)
LEMMA LongerExtends ==
  ASSUME NEW s \in FilingList, NEW t \in FilingList,
         Held = s, Held' = t, ingested' = ingested,
         ~ rebuilt /\ ~ Broken, ~ rebuilt' /\ ~ Broken',
         Prefix(s, t), Len(t) <= Len(s) + BatchSize,
         Listed(t) \subseteq ingested \cup Listed(s), NoRepeats(t)
  PROVE  Promised!Extend \/ Held' = Held
<1>1. s \in Seq(Filings) /\ t \in Seq(Filings) /\ BatchSize \in Nat
  BY StoreAssumption DEF FilingList
<1>2. /\ Len(s) \in Nat /\ Len(t) \in Nat /\ Len(s) <= Len(t)
      /\ \A i \in 1..Len(s) : s[i] = t[i]
  BY <1>1 DEF Prefix
<1>3. CASE Len(s) = Len(t)
  BY <1>1, <1>2, <1>3
<1>4. CASE Len(s) # Len(t)
  <2>2. Len(t) \in (Len(s) + 1)..(Len(s) + BatchSize)
    BY <1>1, <1>2, <1>4
  <2>3. SubSeq(t, 1, Len(s)) = s
    <3>1. SubSeq(t, 1, Len(s)) \in Seq(Filings) /\ Len(SubSeq(t, 1, Len(s))) = Len(s)
          /\ \A i \in 1..Len(s) : SubSeq(t, 1, Len(s))[i] = t[i]
      BY <1>1, <1>2
    <3> QED BY <1>1, <1>2, <3>1
  <2>4. ASSUME NEW i \in (Len(s) + 1)..Len(t)
        PROVE  t[i] \in ingested /\ \A j \in 1..(i - 1) : t[j] # t[i]
    <3>1. i \in 1..Len(t) /\ ~ (i <= Len(s)) /\ \A j \in 1..(i - 1) : j \in 1..Len(t) /\ j # i
      BY <1>2
    <3>2. \A j \in 1..Len(t) : t[j] = t[i] => j = i
      BY <3>1 DEF NoRepeats
    <3>3. t[i] \notin Listed(s)
      <4> SUFFICES ASSUME NEW j \in 1..Len(s), t[i] = s[j] PROVE FALSE
        BY DEF Listed
      <4>1. j \in 1..Len(t) /\ t[j] = t[i] /\ j <= Len(s)
        BY <1>2
      <4> QED BY <3>1, <3>2, <4>1
    <3>4. t[i] \in Listed(t)
      BY <3>1 DEF Listed
    <3> QED BY <3>1, <3>2, <3>3, <3>4
  <2>5. UNCHANGED <<ingested, rebuilt \/ Broken>>
    OBVIOUS
  <2> QED BY <2>2, <2>3, <2>4, <2>5 DEF Promised!Extend
<1> QED BY <1>3, <1>4

(* A torn index stays torn until a full build replaces it: no batch starts *)
(* on it.                                                                  *)
LEMMA BrokenStays ==
  ASSUME TypeOK, Grown, [Next]_vars, ~ rebuilt', Broken
  PROVE  Broken'
<1>1. ~ rebuilt /\ \A filings \in FullBuilds : ~ StartFullBuild(filings)
  BY RebuiltStays
<1>2. jsonFile # NoFile /\ ~ Loadable
  BY DEF Broken, Loadable, Readable
<1>3. wpc = "idle"
  BY <1>1, <1>2 DEF Grown, GrowthInv, BatchInv
<1>4. wpc \notin CrashAt /\ wpc \notin TornFiles
  BY <1>3, StoreAssumption DEF Saves
<1>5. UNCHANGED disk
  BY <1>1, <1>3, <1>4 DEF Next, Ingest, IngestWave, StartBatch, StartReindex, Save,
     SaveFaiss, SaveText, SaveMeta, SaveJson, SavePostings, SaveTextRaises,
     WriterDies, WriterDiesWriting, Load, ReadJson, ReadFaiss, ReadMeta,
     ReadPostings, RebuildPostings, ReaderStops, vars
<1> QED BY <1>5 DEF disk, Broken

LEMMA StepPromised ==
  ASSUME TypeOK, OnceInv, Grown, [Next]_vars
  PROVE  Promised!Next \/ UNCHANGED <<ingested, Held, rebuilt \/ Broken>>
<1>o. CASE rebuilt' \/ Broken'
  BY <1>o DEF Promised!Next, Promised!Leave
<1> SUFFICES ASSUME ~ rebuilt', ~ Broken'
             PROVE  Promised!Next \/ UNCHANGED <<ingested, Held>>
  <2> SUFFICES ASSUME ~ rebuilt', ~ Broken' PROVE UNCHANGED (rebuilt \/ Broken)
    BY <1>o
  <2>1. ~ rebuilt
    BY RebuiltStays
  <2>2. ~ Broken
    BY BrokenStays
  <2> QED BY <2>1, <2>2
<1>g. /\ ~ rebuilt /\ ~ Broken /\ WriterInv /\ BatchInv
      /\ \A filings \in FullBuilds : ~ StartFullBuild(filings)
  <2>1. ~ rebuilt /\ \A filings \in FullBuilds : ~ StartFullBuild(filings)
    BY RebuiltStays
  <2>2. ~ Broken
    BY BrokenStays
  <2> QED BY <2>1, <2>2 DEF Grown, GrowthInv
<1> USE DEF disk, writer, reader
<1>n. NoFile \notin Store /\ TornFile \notin Store /\ NoFile \notin FilingList
      /\ TornFile \notin FilingList /\ NoFile # "settings" /\ TornFile # "settings"
      /\ NoFile # TornFile
  BY SentinelAssumption
<1>s. store.ids \in FilingList
  BY DEF TypeOK, Store
<1>h. jsonFile = NoFile => ~ Loadable /\ Held = <<>>
  BY DEF Held, Loadable, Readable
<1>1. CASE Ingest
  <2>1. ingested \subseteq ingested' /\ Held' = Held
    BY <1>1 DEF Ingest, IngestWave, Held, Loadable, Readable
  <2>2. UNCHANGED (rebuilt \/ Broken)
    BY <1>g
  <2> QED BY <2>1, <2>2 DEF Promised!Next, Promised!Learn
<1>2. CASE StartBatch \/ StartReindex \/ UNCHANGED vars \/ ReaderStops
           \/ SaveTextRaises \/ WriterDies
  BY <1>2 DEF StartBatch, StartReindex, vars, ReaderStops,
     SaveTextRaises, WriterDies, Held, Loadable, Readable
<1>3. CASE SaveText \/ SavePostings \/ Load
  BY <1>3 DEF SaveText, SavePostings, Load, ReadJson, ReadFaiss, ReadMeta,
     ReadPostings, RebuildPostings, Held, Loadable, Readable
<1>4. CASE SaveFaiss
  <2>1. faissFile' \in FilingList /\ ingested' = ingested /\ metaFile' = metaFile
        /\ jsonFile' = jsonFile
    BY <1>4 DEF SaveFaiss, TypeOK
  <2>2. jsonFile # NoFile => Loadable
    BY <1>4, <1>g DEF SaveFaiss, BatchInv
  <2> QED BY <1>n, <2>1, <2>2 DEF Held, Loadable, Readable
<1>5. CASE SaveMeta
  <2>1. /\ metaFile' = store /\ jsonFile' = jsonFile /\ ingested' = ingested
        /\ faissFile' = faissFile
    BY <1>5 DEF SaveMeta
  <2>2. CASE jsonFile = NoFile
    BY <2>1, <2>2 DEF Held, Loadable, Readable
  <2>3. CASE jsonFile # NoFile
    <3>1. Loadable /\ HeldIds = metaFile.ids /\ metaFile.ids \in FilingList
      BY <1>5, <1>g, <2>3, LoadableType DEF SaveMeta, BatchInv, HeldIds
    <3>2. Held = metaFile.ids /\ Held' = store.ids
      BY <1>n, <2>1, <2>3, <3>1 DEF Held, Loadable, Readable, TypeOK
    <3>3. /\ Prefix(metaFile.ids, store.ids)
          /\ Len(store.ids) <= Len(metaFile.ids) + BatchSize
          /\ Listed(store.ids) \subseteq ingested \cup Listed(metaFile.ids)
          /\ NoRepeats(store.ids)
      BY <1>5, <1>g, <3>1 DEF SaveMeta, BatchInv, OnceInv
    <3>4. Promised!Extend \/ Held' = Held
      BY <1>s, <1>g, <2>1, <3>1, <3>2, <3>3, LongerExtends
    <3> QED BY <2>1, <3>4 DEF Promised!Next
  <2> QED BY <2>2, <2>3
<1>6. CASE SaveJson
  <2>1. /\ metaFile = store /\ metaFile' = store /\ jsonFile' = "settings"
        /\ ingested' = ingested /\ faissFile' = faissFile /\ faissFile \in FilingList
    BY <1>6, <1>g DEF SaveJson, WriterInv, BatchInv
  <2>2. Held' = store.ids
    BY <1>n, <2>1 DEF Held, Loadable, Readable, TypeOK
  <2>3. CASE jsonFile = NoFile
    <3>1. Held = <<>> /\ HeldIds = <<>> /\ <<>> \in FilingList
      BY <1>h, <2>3 DEF HeldIds, FilingList
    <3>2. /\ Prefix(<<>>, store.ids)
          /\ Len(store.ids) <= Len(<<>>) + BatchSize
          /\ Listed(store.ids) \subseteq ingested \cup Listed(<<>>)
          /\ NoRepeats(store.ids)
      BY <1>6, <1>g, <3>1 DEF SaveJson, BatchInv, OnceInv
    <3>3. Promised!Extend \/ Held' = Held
      BY <1>s, <1>g, <2>1, <2>2, <3>1, <3>2, LongerExtends
    <3> QED BY <2>1, <3>3 DEF Promised!Next
  <2>4. CASE jsonFile # NoFile
    <3>1. Loadable
      BY <1>6, <1>g, <2>4 DEF SaveJson, BatchInv
    <3> QED BY <2>1, <2>2, <3>1 DEF Held
  <2> QED BY <2>3, <2>4
<1>7. CASE WriterDiesWriting
  <2>1. ingested' = ingested
    BY <1>7 DEF WriterDiesWriting
  <2>2. CASE wpc = "postings"
    BY <1>7, <2>1, <2>2 DEF WriterDiesWriting, Held, Loadable, Readable
  <2>3. CASE jsonFile = NoFile /\ wpc # "json"
    <3>1. jsonFile' = NoFile
      BY <1>7, <2>3 DEF WriterDiesWriting
    <3> QED BY <2>1, <2>3, <3>1 DEF Held, Loadable, Readable
  <2>4. CASE wpc = "json" \/ (jsonFile # NoFile /\ wpc \in {"faiss", "meta"})
    BY <1>7, <1>n, <2>4 DEF WriterDiesWriting, Broken
  <2>5. wpc \in {"faiss", "meta", "json", "postings"}
    BY <1>7, StoreAssumption DEF WriterDiesWriting, Saves
  <2> QED BY <2>2, <2>3, <2>4, <2>5
<1> QED
  BY <1>g, <1>1, <1>2, <1>3, <1>4, <1>5, <1>6, <1>7 DEF Next, Save

(* The saves of an index implement the corpus scale.py promises, whatever  *)
(* batch is interrupted where and repeated: it grows by at most a batch of *)
(* known filings that were not in it, behind those that were, and nothing  *)
(* is ever taken out, until a full build replaces the index or a death     *)
(* tears one of the files it is loaded from.                               *)
THEOREM GrowthKeepsPromise == Spec => GrowsAsPromised
<1>1. Spec => []OnceInv
  BY OnceInit, OnceNext, TypeHolds, PTL DEF Spec
<1>2. Init => Promised!Init
  BY DEF Init, Promised!Init, Held, Broken, Loadable, Readable
<1>3. TypeOK /\ OnceInv /\ Grown /\ [Next]_vars
        => [Promised!Next]_<<ingested, Held, rebuilt \/ Broken>>
  BY StepPromised
<1> QED BY <1>1, <1>2, <1>3, GrowthHolds, PTL DEF Spec, GrowsAsPromised, Promised!Spec

(* Where deaths tear none of the files an index is loaded from, an index   *)
(* that is only grown is never lost: scale.py's "leaves the index          *)
(* untouched" is then true of what a load finds in the metadata.           *)
NothingTorn == TornFile \notin {jsonFile, faissFile, metaFile}

THEOREM NothingIsTorn ==
  ASSUME TornFiles \subseteq {"postings"}
  PROVE  Spec => []NothingTorn
<1>n. TornFile \notin Store /\ TornFile \notin FilingList /\ TornFile # "settings"
      /\ NoFile # TornFile
  BY SentinelAssumption
<1>1. Init => NothingTorn
  BY <1>n DEF Init, NothingTorn
<1>2. ASSUME TypeOK, NothingTorn, [Next]_vars PROVE NothingTorn'
  <2> USE DEF NothingTorn, disk
  <2>1. CASE SaveFaiss \/ SaveMeta \/ SaveJson
    BY <1>2, <1>n, <2>1 DEF SaveFaiss, SaveMeta, SaveJson, TypeOK
  <2>2. CASE WriterDiesWriting
    <3>1. wpc = "postings"
      BY <2>2 DEF WriterDiesWriting
    <3> QED BY <1>2, <2>2, <3>1 DEF WriterDiesWriting
  <2>3. CASE ~ (SaveFaiss \/ SaveMeta \/ SaveJson \/ WriterDiesWriting)
    <3>1. UNCHANGED <<jsonFile, faissFile, metaFile>>
      BY <1>2, <2>3 DEF Next, Ingest, IngestWave, StartBatch, StartFullBuild,
         StartReindex, Save, SaveText, SavePostings, SaveTextRaises, WriterDies,
         Load, ReadJson, ReadFaiss, ReadMeta, ReadPostings, RebuildPostings,
         ReaderStops, vars
    <3> QED BY <1>2, <3>1
  <2> QED BY <2>1, <2>2, <2>3
<1>3. TypeOK /\ NothingTorn /\ [Next]_vars => NothingTorn'
  BY <1>2
<1> QED BY <1>1, <1>3, TypeHolds, PTL DEF Spec

-----------------------------------------------------------------------------
(* Deaths that leave the files as they were or all of them new.            *)
CleanDeaths ==
  CrashAt \cap {"text", "meta"} = {} /\ TornFiles \subseteq {"postings"}

LEMMA CleanInit == Init => WriterInv /\ CleanInv
BY SentinelAssumption DEF Init, WriterInv, CleanInv, EmptyStore

LEMMA CleanBacks ==
  ASSUME TypeOK, CleanInv, wpc \in {"idle", "faiss"}, jsonFile # NoFile
  PROVE  Loadable /\ Backed(metaFile)
<1>1. /\ jsonFile = "settings" /\ faissFile \in FilingList /\ metaFile \in Store
      /\ textFile = metaFile.ids /\ metaFile.layout = metaFile.ids
      /\ metaFile.ids \in FilingList
  BY DEF TypeOK, CleanInv, Store
<1> QED BY <1>1, PrefixSame, SentinelAssumption DEF Loadable, Readable, Backed

LEMMA CleanNext ==
  ASSUME CleanDeaths, TypeOK, WriterInv, CleanInv, [Next]_vars
  PROVE  CleanInv'
<1> USE DEF CleanInv, disk, writer, reader
<1>n. NoFile \notin Store /\ TornFile \notin Store /\ NoFile \notin FilingList
      /\ TornFile \notin FilingList /\ NoFile # "settings" /\ TornFile # "settings"
      /\ NoFile # TornFile
  BY SentinelAssumption
<1>s. store \in Store /\ store.ids \in FilingList /\ vecs \in FilingList
  BY DEF TypeOK, Store
<1>1. CASE StartBatch
  <2>1. PICK new \in FilingList :
          /\ store'.ids = HeldIds \o new
          /\ vecs' = (IF jsonFile = NoFile \/ HeldIds = <<>>
                      THEN <<>> ELSE faissFile) \o new
    BY <1>1, BatchStarts
  <2>2. vecs' = HeldIds \o new
    <3>1. CASE jsonFile = NoFile \/ HeldIds = <<>>
      BY <2>1, <3>1 DEF HeldIds
    <3>2. CASE ~ (jsonFile = NoFile \/ HeldIds = <<>>)
      BY <1>1, <2>1, <3>2 DEF HeldIds, StartBatch
    <3> QED BY <3>1, <3>2
  <2> QED BY <1>1, <2>1, <2>2 DEF StartBatch
<1>2. ASSUME NEW filings \in FullBuilds, StartFullBuild(filings) PROVE CleanInv'
  BY <1>2 DEF StartFullBuild, EmptyStore
<1>3. CASE StartReindex
  <2>1. jsonFile # NoFile
    BY <1>3 DEF StartReindex, Loadable, Readable
  <2> QED BY <1>3, <2>1 DEF StartReindex
<1>4. CASE SaveFaiss
  BY <1>4 DEF SaveFaiss
<1>5. CASE SaveText
  <2>1. store'.ids = store.ids
    BY <1>5 DEF SaveText, TypeOK, Store
  <2> QED BY <1>5, <2>1 DEF SaveText
<1>6. CASE SaveMeta
  BY <1>6 DEF SaveMeta
<1>7. CASE SaveJson
  BY <1>7, <1>n DEF SaveJson
<1>8. CASE SavePostings
  <2>1. /\ metaFile = store /\ store.layout = store.ids /\ textFile = store.ids
        /\ vecs = store.ids /\ faissFile = vecs
    BY <1>8 DEF SavePostings, WriterInv
  <2> QED BY <1>8, <1>s, <2>1 DEF SavePostings, WriterForgets
<1>9. CASE SaveTextRaises
  BY <1>9, TextsAreIds DEF SaveTextRaises
<1>10. CASE WriterDies
  <2>1. wpc \in {"faiss", "json", "postings"}
    BY <1>10, StoreAssumption DEF WriterDies, CleanDeaths, Saves
  <2>2. wpc # "faiss" =>
          /\ metaFile = store /\ store.layout = store.ids /\ textFile = store.ids
          /\ vecs = store.ids /\ faissFile = vecs
    BY <2>1 DEF WriterInv
  <2> QED BY <1>10, <1>s, <2>1, <2>2 DEF WriterDies, WriterForgets
<1>11. CASE WriterDiesWriting
  <2>1. wpc = "postings"
    BY <1>11 DEF WriterDiesWriting, CleanDeaths
  <2>2. /\ metaFile = store /\ store.layout = store.ids /\ textFile = store.ids
        /\ vecs = store.ids /\ faissFile = vecs
    BY <2>1 DEF WriterInv
  <2> QED BY <1>11, <1>s, <2>1, <2>2 DEF WriterDiesWriting, WriterForgets
<1>12. CASE Ingest \/ Load \/ ReaderStops \/ UNCHANGED vars
  BY <1>12 DEF Ingest, IngestWave, Load, ReadJson, ReadFaiss, ReadMeta, ReadPostings,
     RebuildPostings, ReaderStops, vars
<1> QED
  BY <1>1, <1>2, <1>3, <1>4, <1>5, <1>6, <1>7, <1>8, <1>9, <1>10, <1>11, <1>12
  DEF Next, Save

LEMMA CleanHolds ==
  ASSUME CleanDeaths
  PROVE  Spec => [](TypeOK /\ WriterInv /\ CleanInv)
<1>1. ASSUME TypeOK, WriterInv, CleanInv, [Next]_vars PROVE WriterInv' /\ CleanInv'
  <2>1. wpc = "idle" /\ Loadable => Backed(metaFile)
    BY <1>1, CleanBacks DEF Loadable, Readable
  <2> QED BY <1>1, <2>1, WriterNext, CleanNext
<1>2. TypeOK /\ WriterInv /\ CleanInv /\ [Next]_vars => WriterInv' /\ CleanInv'
  BY <1>1
<1> QED BY <1>2, CleanInit, TypeHolds, PTL DEF Spec

LEMMA LoadedNext ==
  ASSUME LoadWhileSaving = FALSE, TypeOK, GrowthInv, CleanInv, LoadedInv,
         CleanDeaths, [Next]_vars,
         \A filings \in FullBuilds : ~ StartFullBuild(filings)
  PROVE  LoadedInv'
<1> USE DEF LoadedInv, disk, writer, reader
<1>1. CASE ReadFaiss
  <2>1. wpc = "idle" /\ rpc = "faiss" /\ rVecs' = faissFile /\ metaFile' = metaFile
    BY <1>1 DEF ReadFaiss, MayLoad
  <2>2. jsonFile # NoFile
    BY <2>1 DEF GrowthInv, DiskInv
  <2>3. metaFile \in Store /\ faissFile = metaFile.ids /\ metaFile.ids \in FilingList
    BY <2>1, <2>2 DEF CleanInv, Store
  <2> QED BY <1>1, <2>1, <2>3, PrefixSame DEF ReadFaiss
<1>2. CASE SaveMeta
  <2>1. store \in Store /\ store.ids \in FilingList /\ rVecs \in FilingList
        /\ metaFile' = store
    BY <1>2 DEF SaveMeta, TypeOK, Store
  <2>2. ASSUME rpc = "meta" PROVE Prefix(rVecs, store.ids)
    <3>1. /\ jsonFile # NoFile /\ metaFile \in Store /\ Prefix(rVecs, metaFile.ids)
          /\ metaFile.ids \in FilingList
      BY <2>2 DEF GrowthInv, DiskInv, Store
    <3>2. Prefix(metaFile.ids, store.ids)
      BY <1>2, <3>1 DEF SaveMeta, GrowthInv, BatchInv, HeldIds
    <3> QED BY <2>1, <3>1, <3>2, PrefixTransitive
  <2> QED BY <1>2, <2>1, <2>2 DEF SaveMeta
<1>3. CASE ReadMeta
  BY <1>3 DEF ReadMeta
<1>4. CASE ReadJson \/ ReadPostings \/ RebuildPostings \/ ReaderStops
  BY <1>4 DEF ReadJson, ReadPostings, RebuildPostings, ReaderStops
<1>5. CASE WriterDiesWriting
  BY <1>5 DEF WriterDiesWriting, CleanDeaths
<1>6. CASE SaveFaiss \/ SaveText \/ SaveJson \/ SavePostings \/ SaveTextRaises
           \/ WriterDies
  BY <1>6 DEF SaveFaiss, SaveText, SaveJson, SavePostings, SaveTextRaises, WriterDies
<1>7. CASE Ingest \/ StartBatch \/ StartReindex \/ UNCHANGED vars
  BY <1>7 DEF Ingest, IngestWave, StartBatch, StartReindex, vars
<1> QED BY <1>1, <1>2, <1>3, <1>4, <1>5, <1>6, <1>7 DEF Next, Save, Load

(* While an index is only grown, a dense hit of a serving process is the   *)
(* chunk its vector was made from, with that chunk's own text, also while  *)
(* later batches replace the files: for loads that wait for a save to end, *)
(* and a writer that never dies between the vectors and the metadata.      *)
THEOREM HitsStayRight ==
  ASSUME LoadWhileSaving = FALSE,
         CrashAt \cap {"text", "meta"} = {}, TornFiles \subseteq {"postings"}
  PROVE  Spec => []RightHits
<1>1. CleanDeaths
  BY DEF CleanDeaths
<1> DEFINE Loaded == ~ rebuilt => LoadedInv
<1>2. Init => Loaded
  BY DEF Init, LoadedInv
<1>3. TypeOK /\ Grown /\ CleanInv /\ Loaded /\ [Next]_vars => Loaded'
  <2> SUFFICES ASSUME TypeOK, Grown, CleanInv, Loaded, [Next]_vars, ~ rebuilt'
               PROVE  LoadedInv'
    OBVIOUS
  <2>1. ~ rebuilt /\ \A filings \in FullBuilds : ~ StartFullBuild(filings)
    BY RebuiltStays
  <2> QED BY <1>1, <2>1, LoadedNext DEF Grown
<1>4. ASSUME TypeOK, GrowthInv, LoadedInv PROVE RightHits
  <2> SUFFICES ASSUME rpc = "serving", NEW i \in 1..Len(rVecs)
               PROVE  i <= Len(rStore.ids) /\ rStore.ids[i] = rVecs[i]
                      /\ TextAt(rStore, i) = rVecs[i]
    BY DEF RightHits
  <2>1. /\ rStore \in Store /\ rVecs \in Seq(Filings) /\ rStore.ids \in Seq(Filings)
        /\ Backed(rStore) /\ Prefix(rVecs, rStore.ids)
    BY <1>4 DEF TypeOK, GrowthInv, DiskInv, LoadedInv, Store, FilingList
  <2>2. i \in 1..Len(rStore.ids) /\ rVecs[i] = rStore.ids[i]
    BY <2>1 DEF Prefix
  <2> QED BY <1>4, <2>1, <2>2, BackedReads
<1>5. TypeOK /\ Grown /\ Loaded => RightHits
  BY <1>4 DEF Grown, RightHits
<1> HIDE DEF Loaded
<1> QED BY <1>1, <1>2, <1>3, <1>5, GrowthHolds, CleanHolds, PTL DEF Spec
=============================================================================
