-------------------------- MODULE Retrieval_proofs --------------------------
(***************************************************************************)
(* Proofs about Retrieval for every set of batches, filters and queries,   *)
(* every list length and threshold.                                        *)
(***************************************************************************)
EXTENDS Retrieval, FiniteSetTheorems, FunctionTheorems, TLAPS

LEMMA UpTo ==
  ASSUME NEW n \in Nat
  PROVE  IsFiniteSet(1..n) /\ Cardinality(1..n) = n
<1>1. IsFiniteSet(1..n) /\ Cardinality(1..n) = IF 1 > n THEN 0 ELSE n - 1 + 1
  BY FS_Interval
<1> QED BY <1>1

(* A list with each of its elements once has as many as it is long.        *)
LEMMA ListedOnce ==
  ASSUME NEW S, NEW seq \in Seq(S), ListsOnce(seq)
  PROVE  IsFiniteSet(ToSet(seq)) /\ Cardinality(ToSet(seq)) = Len(seq)
<1>1. seq \in [1..Len(seq) -> ToSet(seq)] /\ Len(seq) \in Nat
      /\ \A x \in ToSet(seq) : \E i \in 1..Len(seq) : seq[i] = x
  BY DEF ToSet
<1>2. seq \in Bijection(1..Len(seq), ToSet(seq))
  BY <1>1 DEF ListsOnce, Bijection, Injection, Surjection, IsInjective
<1>3. IsFiniteSet(1..Len(seq)) /\ Cardinality(1..Len(seq)) = Len(seq)
  BY <1>1, UpTo
<1> QED BY <1>2, <1>3, FS_Bijection DEF ExistsBijection

(* Two lists without a common element joined.                              *)
LEMMA Joined ==
  ASSUME NEW S, NEW a \in Seq(S), NEW b \in Seq(S),
         ListsOnce(a), ListsOnce(b), ToSet(a) \cap ToSet(b) = {}
  PROVE  /\ a \o b \in Seq(S) /\ Len(a \o b) = Len(a) + Len(b)
         /\ ListsOnce(a \o b)
         /\ ToSet(a) \subseteq ToSet(a \o b)
         /\ Rows(a \o b) = Rows(a) \cup {<<Len(a) + i, b[i]>> : i \in 1..Len(b)}
<1>1. /\ a \o b \in Seq(S) /\ Len(a \o b) = Len(a) + Len(b)
      /\ Len(a) \in Nat /\ Len(b) \in Nat
      /\ \A i \in 1..Len(a) : i \in 1..Len(a \o b) /\ (a \o b)[i] = a[i] /\ a[i] \in ToSet(a)
      /\ \A i \in 1..Len(b) : /\ Len(a) + i \in 1..Len(a \o b)
                              /\ (a \o b)[Len(a) + i] = b[i] /\ b[i] \in ToSet(b)
      /\ \A i \in 1..Len(a \o b) :
           i \in 1..Len(a) \/ (i - Len(a) \in 1..Len(b) /\ i = Len(a) + (i - Len(a)))
  BY DEF ToSet
<1>2. ListsOnce(a \o b)
  <2> SUFFICES ASSUME NEW i \in 1..Len(a \o b), NEW j \in 1..Len(a \o b),
                      (a \o b)[i] = (a \o b)[j]
               PROVE  i = j
    BY DEF ListsOnce
  <2>1. CASE i \in 1..Len(a) /\ j \in 1..Len(a)
    BY <1>1, <2>1 DEF ListsOnce
  <2>2. CASE i \in 1..Len(a) /\ j \notin 1..Len(a)
    BY <1>1, <2>2
  <2>3. CASE i \notin 1..Len(a) /\ j \in 1..Len(a)
    BY <1>1, <2>3
  <2>4. CASE i \notin 1..Len(a) /\ j \notin 1..Len(a)
    <3>1. b[i - Len(a)] = b[j - Len(a)] /\ i - Len(a) \in 1..Len(b) /\ j - Len(a) \in 1..Len(b)
      BY <1>1, <2>4
    <3>2. i - Len(a) = j - Len(a)
      BY <3>1 DEF ListsOnce
    <3> QED BY <1>1, <3>2
  <2> QED BY <2>1, <2>2, <2>3, <2>4
<1>3. ToSet(a) \subseteq ToSet(a \o b)
  BY <1>1 DEF ToSet
<1>4. Rows(a \o b) = Rows(a) \cup {<<Len(a) + i, b[i]>> : i \in 1..Len(b)}
  <2>1. ASSUME NEW i \in 1..Len(a \o b)
        PROVE  <<i, (a \o b)[i]>> \in Rows(a) \cup {<<Len(a) + k, b[k]>> : k \in 1..Len(b)}
    BY <1>1 DEF Rows
  <2>2. Rows(a) \subseteq Rows(a \o b)
    BY <1>1 DEF Rows
  <2>3. {<<Len(a) + k, b[k]>> : k \in 1..Len(b)} \subseteq Rows(a \o b)
    BY <1>1 DEF Rows
  <2> QED BY <2>1, <2>2, <2>3 DEF Rows
<1> QED BY <1>1, <1>2, <1>3, <1>4

(* What _build_index makes fits the vectors it is made for.                *)
LEMMA BuiltFits ==
  ASSUME NEW asked \in Kinds, NEW vectors \in Seq(Chunks), ListsOnce(vectors)
  PROVE  /\ Built(asked, vectors).kind \in Kinds
         /\ Built(asked, vectors).kind = "ivf" <=>
              asked = "ivf" /\ Len(vectors) >= MinForIvf
         /\ Fitted(Built(asked, vectors).kind, vectors, Built(asked, vectors).trained)
         /\ Built(asked, vectors).kind = "ivf" =>
              Built(asked, vectors).trained = ToSet(vectors)
<1>1. CASE asked = "ivf" /\ Len(vectors) >= MinForIvf
  <2>1. Built(asked, vectors).kind = "ivf" /\ Built(asked, vectors).trained = ToSet(vectors)
    BY <1>1 DEF Built
  <2> QED BY <1>1, <2>1, ListedOnce DEF Kinds, Fitted
<1>2. CASE ~ (asked = "ivf" /\ Len(vectors) >= MinForIvf)
  <2>1. Built(asked, vectors).kind = "flat"
    BY <1>2 DEF Built
  <2> QED BY <1>2, <2>1 DEF Kinds, Fitted
<1> QED BY <1>1, <1>2

-----------------------------------------------------------------------------
LEMMA IndexInit == Init => IndexInv
<1> SUFFICES ASSUME Init PROVE IndexInv
  OBVIOUS
<1>1. store = <<>> /\ rows = <<>> /\ registered = {} /\ store \in Seq(Chunks)
      /\ Len(store) = 0 /\ 1..Len(store) = {}
  BY DEF Init
<1>2. Rows(store) = {} /\ ListsOnce(store)
  BY <1>1 DEF Rows, ListsOnce
<1> QED BY <1>1, <1>2, RetrievalAssumption
    DEF Init, IndexInv, SavedInv, InStep, Kinds

(* A loaded index is in step and each of its chunks is there once.         *)
LEMMA LoadInStep ==
  ASSUME SavedInv, Load
  PROVE  /\ kind' \in Kinds /\ requested' \in Kinds
         /\ store' \in Seq(Chunks) /\ ListsOnce(store')
         /\ rows' = store' /\ registered' = Rows(store')
         /\ requested' = "ivf" => kind' = "ivf"
         /\ Fitted(kind', rows', trained')
  BY DEF Load, SavedInv

(* A batch keeps an index in step: here an index that had to be flat       *)
(* becomes IVF, and all its vectors are the ones to fit the centroids to.  *)
LEMMA AddInStep ==
  ASSUME IndexInv, NEW batch \in Batches, AddBatch(batch)
  PROVE  IndexInv'
<1> DEFINE all == store \o batch
           asked == IF UpgradeDue(Len(batch)) THEN "ivf" ELSE kind
           made == Built(asked, all)
<1>1. /\ store \in Seq(Chunks) /\ batch \in Seq(Chunks)
      /\ ListsOnce(store) /\ ListsOnce(batch) /\ ToSet(store) \cap ToSet(batch) = {}
      /\ rows = store /\ registered = Rows(store) /\ batch # <<>>
      /\ kind \in Kinds /\ requested \in Kinds /\ MinForIvf \in Nat
  BY RetrievalAssumption DEF IndexInv, InStep, AddBatch
<1>2. /\ rows' = all /\ store' = all /\ task' = "added"
      /\ requested' = requested /\ disk' = disk
      /\ registered' = registered \cup {<<Len(store) + i, batch[i]>> : i \in 1..Len(batch)}
      /\ IF store = <<>> \/ UpgradeDue(Len(batch))
         THEN kind' = made.kind /\ trained' = made.trained
         ELSE UNCHANGED <<kind, trained>>
  BY <1>1 DEF AddBatch
<1>3. /\ all \in Seq(Chunks) /\ Len(all) = Len(store) + Len(batch)
      /\ ListsOnce(all) /\ ToSet(store) \subseteq ToSet(all)
      /\ registered' = Rows(all)
  BY <1>1, <1>2, Joined
<1>4. asked \in Kinds
  BY <1>1 DEF Kinds
<1>5. /\ made.kind \in Kinds /\ Fitted(made.kind, all, made.trained)
      /\ made.kind = "ivf" <=> asked = "ivf" /\ Len(all) >= MinForIvf
  BY <1>3, <1>4, BuiltFits
<1>6. Len(store) \in Nat /\ Len(batch) \in Nat /\ (store = <<>> => Len(store) = 0)
  BY <1>1
<1>7. UpgradeDue(Len(batch)) <=>
        requested = "ivf" /\ kind = "flat" /\ Len(all) >= MinForIvf
  BY <1>3 DEF UpgradeDue
<1> HIDE DEF made, all
<1>8. CASE UpgradeDue(Len(batch))
  <2>1. kind' = made.kind /\ trained' = made.trained /\ asked = "ivf"
    BY <1>2, <1>8
  <2> QED BY <1>1, <1>2, <1>3, <1>5, <1>7, <1>8, <2>1 DEF IndexInv, SavedInv, InStep, Fitted
<1>9. CASE ~ UpgradeDue(Len(batch)) /\ store = <<>>
  <2>1. kind' = made.kind /\ trained' = made.trained /\ asked = kind
    BY <1>2, <1>9
  <2> HIDE DEF asked
  <2>2. requested' = "ivf" /\ Len(all) >= MinForIvf => kind' = "ivf"
    BY <1>1, <1>2, <1>5, <1>7, <1>9, <2>1 DEF Kinds
  <2> QED BY <1>1, <1>2, <1>3, <1>5, <2>1, <2>2 DEF IndexInv, SavedInv, InStep, Fitted
<1>10. CASE ~ UpgradeDue(Len(batch)) /\ store # <<>>
  <2>1. kind' = kind /\ trained' = trained
    BY <1>2, <1>10
  <2>2. requested' = "ivf" /\ Len(all) >= MinForIvf => kind' = "ivf"
    BY <1>1, <1>2, <1>7, <1>10, <2>1 DEF Kinds
  <2>3. Fitted(kind', all, trained')
    BY <1>1, <1>3, <1>10, <2>1 DEF IndexInv, InStep, Fitted
  <2> QED BY <1>1, <1>2, <1>3, <2>1, <2>2, <2>3 DEF IndexInv, SavedInv, InStep, Fitted
<1> QED BY <1>8, <1>9, <1>10

LEMMA IndexNext == IndexInv /\ [Next]_vars => IndexInv'
<1> SUFFICES ASSUME IndexInv, [Next]_vars PROVE IndexInv'
  OBVIOUS
<1>1. CASE StartBuild
  <2>1. store' = <<>> /\ rows' = <<>> /\ registered' = {} /\ store' \in Seq(Chunks)
        /\ Len(rows') = 0 /\ 1..Len(store') = {}
    BY <1>1 DEF StartBuild
  <2>2. Rows(store') = {} /\ ListsOnce(store')
    BY <2>1 DEF Rows, ListsOnce
  <2> QED BY <1>1, <2>1, <2>2, RetrievalAssumption
      DEF StartBuild, IndexInv, SavedInv, InStep, Kinds
<1>2. CASE StartAppend
  <2>1. SavedInv /\ Load
    BY <1>2 DEF StartAppend, IndexInv
  <2> QED BY <1>2, <2>1, LoadInStep DEF StartAppend, IndexInv, SavedInv, InStep, Fitted
<1>3. CASE Retrain
  <2>1. /\ disk.kind = "ivf" /\ disk.rows \in Seq(Chunks) /\ ListsOnce(disk.rows)
        /\ disk.rows = disk.store /\ disk # None
    BY <1>3 DEF Retrain, IndexInv, SavedInv
  <2>2. /\ Built("ivf", disk.rows).kind \in Kinds
        /\ Built("ivf", disk.rows).kind = "ivf" <=> Len(disk.rows) >= MinForIvf
        /\ Fitted(Built("ivf", disk.rows).kind, disk.rows, Built("ivf", disk.rows).trained)
        /\ Built("ivf", disk.rows).kind = "ivf" =>
             Built("ivf", disk.rows).trained = ToSet(disk.rows)
    BY <2>1, BuiltFits DEF Kinds
  <2>3. /\ kind' \in Kinds
        /\ kind' = "ivf" <=> Len(disk.rows) >= MinForIvf
        /\ Fitted(kind', disk.rows, trained')
        /\ kind' = "ivf" => trained' = ToSet(disk.rows)
        /\ requested' \in Kinds /\ rows' = disk.rows /\ store' = disk.rows
        /\ registered' = Rows(disk.rows) /\ task' = "reindex" /\ disk' = disk
    BY <1>3, <2>1, <2>2 DEF Retrain, Kinds
  <2>4. SavedInv'
    BY <2>3 DEF IndexInv, SavedInv
  <2>5. InStep'
    BY <2>3 DEF InStep, Fitted
  <2>6. store' \in Seq(Chunks) /\ ListsOnce(store')
    BY <2>1, <2>3
  <2> QED BY <2>3, <2>4, <2>5, <2>6 DEF IndexInv
<1>4. CASE Save
  BY <1>4 DEF Save, index, IndexInv, SavedInv, InStep, Fitted
<1>5. CASE Serve
  <2>1. SavedInv /\ Load /\ docs' = store' /\ task' = "serve" /\ disk' = disk
    BY <1>5 DEF Serve, Load, IndexInv, SavedInv
  <2> QED BY <2>1, LoadInStep DEF IndexInv, SavedInv, InStep, Fitted
<1>6. CASE Stop
  BY <1>6 DEF Stop, index, IndexInv, SavedInv, InStep
<1>7. ASSUME NEW batch \in Batches, AddBatch(batch) PROVE IndexInv'
  BY <1>7, AddInStep
<1>8. ASSUME NEW query \in Queries, NEW filter \in Filters, Retrieve(query, filter)
      PROVE  IndexInv'
  BY <1>8 DEF Retrieve, index, IndexInv, SavedInv, InStep
<1>9. CASE UNCHANGED vars
  BY <1>9 DEF vars, index, IndexInv, SavedInv, InStep
<1> QED BY <1>1, <1>2, <1>3, <1>4, <1>5, <1>6, <1>7, <1>8, <1>9 DEF Next

(* However an index came about, its rows, chunks and metadata belong       *)
(* together, it is served with the statistics of just its chunks, and its  *)
(* centroids are fitted to enough of its own vectors.                      *)
THEOREM RetrieversStayInStep == Spec => []InStep
<1>1. IndexInv => InStep
  BY DEF IndexInv
<1> QED BY <1>1, IndexInit, IndexNext, PTL DEF Spec
-----------------------------------------------------------------------------
(* A ranking lists as many of the found as it is to, each once.            *)
LEMMA RankingLists ==
  ASSUME NEW found, IsFiniteSet(found), NEW n \in Nat, NEW r \in Rankings(found, n)
  PROVE  /\ Len(r) = n /\ ToSet(r) \subseteq found
         /\ \A i \in 1..Len(r) : r[i] \in found
         /\ n = Cardinality(found) => ToSet(r) = found
<1>1. PICK s \in SUBSET found : Cardinality(s) = n /\ r \in SetToSeqs(s)
  BY DEF Rankings, kSubset
<1>2. r \in [1..n -> s] /\ \A i, j \in 1..n : i # j => r[i] # r[j]
  BY <1>1 DEF SetToSeqs
<1>3. Len(r) = n /\ DOMAIN r = 1..n /\ r \in Injection(1..n, s)
  BY <1>2 DEF Injection, IsInjective
<1>4. IsFiniteSet(s) /\ (n = Cardinality(found) => s = found)
  BY <1>1, FS_Subset
<1>5. r \in Surjection(1..n, s)
  BY <1>1, <1>3, <1>4, UpTo, FS_Injection
<1>6. ToSet(r) = s
  BY <1>2, <1>3, <1>5 DEF ToSet, Surjection
<1> QED BY <1>1, <1>2, <1>3, <1>4, <1>6

Matching(filter) == {c \in ToSet(store) : Matches(c, filter)}

(* The positions a filter lets through are those of the chunks that match. *)
LEMMA AllowedMatch ==
  ASSUME IndexInv, NEW filter
  PROVE  /\ Allowed(filter) = {i \in 1..Len(store) : Matches(store[i], filter)}
         /\ IsFiniteSet(Allowed(filter))
         /\ Cardinality(Allowed(filter)) = Cardinality(Matching(filter))
         /\ \A i \in Allowed(filter) : store[i] \in Matching(filter)
<1>1. registered = Rows(store) /\ Len(store) \in Nat /\ DOMAIN store = 1..Len(store)
  BY DEF IndexInv, InStep
<1>2. \A i \in 1..Len(store) : <<i, store[i]>> \in registered
  BY <1>1 DEF Rows
<1>3. \A i \in 1..Len(store), entry \in registered : entry[1] = i => entry[2] = store[i]
  BY <1>1 DEF Rows
<1>4. Allowed(filter) = {i \in 1..Len(store) : Matches(store[i], filter)}
  <2> SUFFICES ASSUME NEW i \in 1..Len(store), NEW field \in DOMAIN filter
               PROVE  (\E entry \in registered :
                         entry[1] = i /\ Meta[entry[2]][field] \in filter[field])
                        <=> Meta[store[i]][field] \in filter[field]
    BY DEF Allowed, Matches
  <2>1. \E entry \in registered : entry[1] = i /\ entry[2] = store[i]
    BY <1>2
  <2> QED BY <1>3, <2>1
<1>5. IsFiniteSet(Allowed(filter))
  <2>1. IsFiniteSet(1..Len(store))
    BY <1>1, UpTo
  <2> QED BY <1>4, <2>1, FS_Subset
<1> DEFINE At == [i \in Allowed(filter) |-> store[i]]
<1>6. \A i \in Allowed(filter) : At[i] \in Matching(filter)
  BY <1>1, <1>4 DEF Matching, ToSet
<1>7. \A c \in Matching(filter) : \E i \in Allowed(filter) : At[i] = c
  BY <1>1, <1>4 DEF Matching, ToSet
<1>8. \A i, j \in Allowed(filter) : At[i] = At[j] => i = j
  BY <1>4 DEF IndexInv, ListsOnce
<1>9. At \in Bijection(Allowed(filter), Matching(filter))
  BY <1>6, <1>7, <1>8 DEF Bijection, Injection, Surjection, IsInjective
<1>10. Cardinality(Matching(filter)) = Cardinality(Allowed(filter))
  BY <1>5, <1>9, FS_Bijection DEF ExistsBijection
<1> QED BY <1>4, <1>5, <1>6, <1>10

LEMMA ChunksListed ==
  ASSUME IndexInv, NEW filter, NEW r, NEW n \in Nat, Len(r) = n,
         \A i \in 1..n : r[i] \in Allowed(filter)
  PROVE  ChunksAt(r) \in Seq(Chunks)
<1>1. \A i \in 1..n : store[r[i]] \in Chunks
  BY AllowedMatch DEF IndexInv
<1> QED BY <1>1 DEF ChunksAt

(* The dense list                                                          *)
LEMMA DenseRight ==
  ASSUME IndexInv, NEW filter, NEW d \in DenseRankings(filter)
  PROVE  /\ ChunksAt(d) \in Seq(Chunks)
         /\ ToSet(ChunksAt(d)) \subseteq Matching(filter)
         /\ kind = "flat" =>
              Len(ChunksAt(d)) = Least(CandidateK, Cardinality(Matching(filter)))
<1> DEFINE within == Allowed(filter) \cap 1..Len(rows)
           full == Least(CandidateK, Cardinality(within))
<1>1. within = Allowed(filter)
  BY AllowedMatch DEF IndexInv, InStep
<1>2. IsFiniteSet(within) /\ Cardinality(within) = Cardinality(Matching(filter))
  BY <1>1, AllowedMatch
<1>3. full \in Nat
  BY <1>2, FS_CardinalityType, RetrievalAssumption DEF Least
<1>4. PICK n \in Nat : d \in Rankings(within, n) /\ (kind = "flat" => n = full)
  <2>1. PICK n \in IF kind = "ivf" THEN 0..full ELSE {full} : d \in Rankings(within, n)
    BY DEF DenseRankings
  <2> HIDE DEF full, within
  <2>2. n \in Nat /\ (kind = "flat" => n = full)
    BY <1>3, <2>1
  <2> QED BY <2>1, <2>2
<1>5. Len(d) = n /\ \A i \in 1..n : d[i] \in Allowed(filter)
  BY <1>1, <1>2, <1>4, RankingLists
<1>6. Len(ChunksAt(d)) = n /\ ToSet(ChunksAt(d)) = {store[d[i]] : i \in 1..n}
  BY <1>5 DEF ChunksAt, ToSet
<1>7. ToSet(ChunksAt(d)) \subseteq Matching(filter)
  BY <1>5, <1>6, AllowedMatch
<1>8. ChunksAt(d) \in Seq(Chunks)
  BY <1>4, <1>5, ChunksListed
<1> QED BY <1>2, <1>4, <1>6, <1>7, <1>8

Common(t) == 2 * DocumentFrequency(store, t) >= Len(store)

(* A term that at most chunks do not hold has a positive weight.           *)
LEMMA RareWeighs ==
  ASSUME store \in Seq(Chunks), NEW t, ~ Common(t)
  PROVE  IdfSign(store, t) = 1
<1> DEFINE holding == {i \in 1..Len(store) : t \in Terms[store[i]]}
<1>1. Len(store) \in Nat /\ IsFiniteSet(1..Len(store))
  BY UpTo
<1>2. DocumentFrequency(store, t) \in Nat
  <2>1. IsFiniteSet(holding)
    BY <1>1, FS_Subset
  <2> QED BY <2>1, FS_CardinalityType DEF DocumentFrequency
<1>3. Len(store) - 2 * DocumentFrequency(store, t) > 0
  BY <1>1, <1>2 DEF Common
<1>4. Sign(Len(store) - 2 * DocumentFrequency(store, t)) = 1
  BY <1>3 DEF Sign
<1> QED BY <1>4 DEF IdfSign

(* A chunk with rare terms of the query, and none but rare ones, is hit.   *)
Exact(query, filter) ==
  {c \in Matching(filter) :
     /\ query \cap Terms[c] # {}
     /\ \A t \in query \cap Terms[c] : ~ Common(t)}

LEMMA ExactHit ==
  ASSUME IndexInv, NEW query, NEW filter, NEW i \in Allowed(filter),
         store[i] \in Exact(query, filter)
  PROVE  i \in SureHits(store, query)
<1>1. i \in 1..Len(store) /\ store \in Seq(Chunks)
  BY AllowedMatch DEF IndexInv
<1>2. \A t \in query \cap Terms[store[i]] : IdfSign(store, t) = 1
  BY <1>1, RareWeighs DEF Exact
<1>3. Weights(store, query, i) = {1}
  BY <1>2 DEF Weights, Exact
<1> QED BY <1>1, <1>3 DEF SureHits

(* The sparse list                                                         *)
LEMMA SparseRight ==
  ASSUME IndexInv, docs = store, NEW query, NEW filter,
         NEW s \in SparseRankings(query, filter)
  PROVE  /\ ChunksAt(s) \in Seq(Chunks)
         /\ ToSet(ChunksAt(s)) \subseteq Matching(filter)
         /\ \A c \in ToSet(ChunksAt(s)) : query \cap Terms[c] # {}
         /\ \/ Exact(query, filter) \subseteq ToSet(ChunksAt(s))
            \/ Len(ChunksAt(s)) = CandidateK
<1> DEFINE sure == SureHits(docs, query) \cap Allowed(filter)
           possible == PossibleHits(docs, query) \cap Allowed(filter)
<1>1. PICK more \in SUBSET (possible \ sure) :
        s \in Rankings(sure \cup more, Least(CandidateK, Cardinality(sure \cup more)))
  BY DEF SparseRankings
<1> DEFINE found == sure \cup more
           n == Least(CandidateK, Cardinality(found))
<1>2. found \subseteq possible /\ sure \subseteq found
  BY <1>1 DEF SureHits, PossibleHits
<1>3. IsFiniteSet(found) /\ n \in Nat
      /\ (n = CandidateK \/ n = Cardinality(found))
  <2>1. IsFiniteSet(found)
    BY <1>2, AllowedMatch, FS_Subset
  <2> QED BY <2>1, FS_CardinalityType, RetrievalAssumption DEF Least
<1>0. s \in Rankings(found, n)
  BY <1>1
<1> HIDE DEF n, found
<1>4. /\ Len(s) = n /\ ToSet(s) \subseteq found
      /\ \A i \in 1..n : s[i] \in found
      /\ n = Cardinality(found) => ToSet(s) = found
  BY <1>0, <1>3, RankingLists
<1>5. DOMAIN s = 1..n
  BY <1>0 DEF Rankings, SetToSeqs, kSubset
<1>6. Len(ChunksAt(s)) = n /\ ToSet(ChunksAt(s)) = {store[s[i]] : i \in 1..n}
  BY <1>3, <1>4 DEF ChunksAt, ToSet
<1>7. \A i \in found : /\ store[i] \in Matching(filter)
                       /\ query \cap Terms[store[i]] # {}
  BY <1>2, AllowedMatch DEF PossibleHits, Weights
<1>8. ASSUME n = Cardinality(found), NEW c \in Exact(query, filter)
      PROVE  c \in ToSet(ChunksAt(s))
  <2>1. PICK i \in Allowed(filter) : store[i] = c
    <3>1. c \in ToSet(store) /\ Matches(c, filter) /\ DOMAIN store = 1..Len(store)
      BY DEF Exact, IndexInv, Matching
    <3>2. PICK i \in 1..Len(store) : store[i] = c
      BY <3>1 DEF ToSet
    <3>3. i \in Allowed(filter)
      BY <3>1, <3>2, AllowedMatch
    <3> QED BY <3>2, <3>3
  <2>2. i \in found
    BY <1>2, <2>1, ExactHit
  <2>3. \E k \in 1..n : s[k] = i
    BY <1>4, <1>5, <1>8, <2>2 DEF ToSet
  <2> QED BY <1>6, <2>1, <2>3
<1>9. ChunksAt(s) \in Seq(Chunks)
  <2>1. \A i \in 1..n : s[i] \in Allowed(filter)
    BY <1>2, <1>4
  <2> QED BY <1>3, <1>4, <2>1, ChunksListed
<1> QED BY <1>3, <1>4, <1>6, <1>7, <1>8, <1>9

-----------------------------------------------------------------------------
LEMMA AnswerNext == IndexInv /\ AnswerInv /\ [Next]_vars => AnswerInv'
<1> SUFFICES ASSUME IndexInv, AnswerInv, [Next]_vars PROVE AnswerInv'
  OBVIOUS
<1>1. ASSUME NEW query \in Queries, NEW filter \in Filters, Retrieve(query, filter)
      PROVE  AnswerInv'
  <2>1. PICK d \in DenseRankings(filter), s \in SparseRankings(query, filter) :
          answer' = [query |-> query, filter |-> filter,
                     dense |-> ChunksAt(d), sparse |-> ChunksAt(s),
                     fused |-> Fused(ChunksAt(d), ChunksAt(s), TopK)]
    BY <1>1 DEF Retrieve
  <2>2. task = "serve" /\ task' = task /\ store' = store /\ kind' = kind /\ docs = store
    BY <1>1 DEF Retrieve, index, IndexInv, InStep
  <2>3. /\ ToSet(ChunksAt(d)) \subseteq Matching(filter)
        /\ kind = "flat" =>
             Len(ChunksAt(d)) = Least(CandidateK, Cardinality(Matching(filter)))
    BY DenseRight
  <2>4. /\ ToSet(ChunksAt(s)) \subseteq Matching(filter)
        /\ \A c \in ToSet(ChunksAt(s)) : query \cap Terms[c] # {}
        /\ \/ Exact(query, filter) \subseteq ToSet(ChunksAt(s))
           \/ Len(ChunksAt(s)) = CandidateK
    BY <2>2, SparseRight
  <2>5. /\ answer'.filter = filter /\ answer'.query = query
        /\ answer'.dense = ChunksAt(d) /\ answer'.sparse = ChunksAt(s)
    BY <2>1
  <2>6. HitsRight'
    BY <2>2, <2>3, <2>4, <2>5 DEF HitsRight, Matching, Exact, Common
  <2> QED BY <2>2, <2>6 DEF AnswerInv
<1>2. CASE Serve \/ Stop
  BY <1>2 DEF Serve, Stop, AnswerInv, HitsRight, Nothing
<1>3. CASE StartBuild \/ StartAppend \/ Retrain \/ Save
  BY <1>3 DEF StartBuild, StartAppend, Retrain, Save, AnswerInv, HitsRight, Nothing
<1>4. ASSUME NEW batch \in Batches, AddBatch(batch) PROVE AnswerInv'
  BY <1>4 DEF AddBatch, AnswerInv, HitsRight, Nothing
<1>5. CASE UNCHANGED vars
  BY <1>5 DEF vars, index, AnswerInv, HitsRight
<1> QED BY <1>1, <1>2, <1>3, <1>4, <1>5 DEF Next

(* Whatever was indexed and asked: every hit is of the right company and   *)
(* year, a flat index fills the list with all it can, a lexical hit holds  *)
(* a query term, and a chunk with rare terms only is found.                *)
THEOREM AnswersStayRight == Spec => []HitsRight
<1>1. Init => AnswerInv
  BY DEF Init, AnswerInv, HitsRight, Nothing
<1>2. AnswerInv => HitsRight
  BY DEF AnswerInv
<1> QED BY <1>1, <1>2, IndexInit, IndexNext, AnswerNext, PTL DEF Spec

-----------------------------------------------------------------------------
(* Fractions are ordered by cross-multiplication.                          *)
LEMMA Scaled ==
  ASSUME NEW x \in Nat, NEW y \in Nat, NEW n \in Nat, n >= 1
  PROVE  /\ x * n \in Nat /\ y * n \in Nat
         /\ x >= y <=> x * n >= y * n
         /\ x > y <=> x * n > y * n
         /\ x = y <=> x * n = y * n
<1>1. x * n \in Nat /\ y * n \in Nat
  OBVIOUS
<1>2. x > y => x * n > y * n
  <2> SUFFICES ASSUME x > y PROVE x * n > y * n
    OBVIOUS
  <2>1. x * n = y * n + (x - y) * n /\ (x - y) * n >= 1
    <3>1. x - y \in Nat /\ x - y >= 1
      OBVIOUS
    <3>2. x * n = y * n + (x - y) * n
      OBVIOUS
    <3>3. \A k \in Nat : k >= 1 => k * n >= 1
      OBVIOUS
    <3> QED BY <3>1, <3>2, <3>3
  <2> QED BY <1>1, <2>1
<1>3. y > x => y * n > x * n
  <2> SUFFICES ASSUME y > x PROVE y * n > x * n
    OBVIOUS
  <2>1. y * n = x * n + (y - x) * n /\ (y - x) * n >= 1
    <3>1. y - x \in Nat /\ y - x >= 1
      OBVIOUS
    <3>2. y * n = x * n + (y - x) * n
      OBVIOUS
    <3>3. \A k \in Nat : k >= 1 => k * n >= 1
      OBVIOUS
    <3> QED BY <3>1, <3>2, <3>3
  <2> QED BY <1>1, <2>1
<1> QED BY <1>1, <1>2, <1>3

LEMMA Crossed ==
  ASSUME NEW a \in Nat, NEW b \in Nat, NEW c \in Nat,
         NEW x \in Nat, NEW y \in Nat, NEW z \in Nat, x >= 1, y >= 1, z >= 1,
         a * y >= b * x, b * z >= c * y
  PROVE  /\ a * z >= c * x
         /\ a * y > b * x \/ b * z > c * y => a * z > c * x
<1> DEFINE ay == a * y  bx == b * x  bz == b * z  cy == c * y  az == a * z  cx == c * x
<1>1. ay \in Nat /\ bx \in Nat /\ bz \in Nat /\ cy \in Nat /\ az \in Nat /\ cx \in Nat
  OBVIOUS
<1>2. ay * z = az * y /\ bx * z = bz * x /\ cy * x = cx * y
  OBVIOUS
<1>3. ay >= bx /\ bz >= cy
  OBVIOUS
<1> SUFFICES /\ az >= cx
             /\ ay > bx \/ bz > cy => az > cx
  OBVIOUS
<1> HIDE DEF ay, bx, bz, cy, az, cx
<1>4. ay * z >= bx * z /\ (ay > bx => ay * z > bx * z)
  BY <1>1, <1>3, Scaled
<1>5. bz * x >= cy * x /\ (bz > cy => bz * x > cy * x)
  BY <1>1, <1>3, Scaled
<1>6. ay * z \in Nat /\ bx * z \in Nat /\ cy * x \in Nat
  BY <1>1
<1>7. az * y >= cx * y /\ (ay > bx \/ bz > cy => az * y > cx * y)
  BY <1>2, <1>4, <1>5, <1>6
<1>8. (az >= cx <=> az * y >= cx * y) /\ (az > cx <=> az * y > cx * y)
  BY <1>1, Scaled
<1> QED BY <1>7, <1>8

(* What comes before what is a total order on the chunks found.            *)
Found(dense, sparse) == ToSet(dense) \cup ToSet(sparse)

LEMMA Ranked ==
  ASSUME NEW X, NEW list \in Seq(X), NEW c, Holds(list, c)
  PROVE  RankIn(list, c) \in 1..Len(list) /\ list[RankIn(list, c)] = c
<1>1. \E i \in 1..Len(list) : list[i] = c
  BY DEF Holds, ToSet
<1> QED BY <1>1 DEF RankIn

LEMMA Scored ==
  ASSUME NEW X, NEW dense \in Seq(X), NEW sparse \in Seq(X),
         NEW c \in Found(dense, sparse)
  PROVE  \E n, m \in Nat : n >= 1 /\ m >= 1 /\ Score(dense, sparse, c) = <<n, m>>
<1> DEFINE d == RrfK + RankIn(dense, c)
           s == RrfK + RankIn(sparse, c)
<1>1. Holds(dense, c) \/ Holds(sparse, c)
  BY DEF Found, Holds
<1>2. Holds(dense, c) => d \in Nat /\ d >= 1
  BY Ranked, FusionAssumption
<1>3. Holds(sparse, c) => s \in Nat /\ s >= 1
  BY Ranked, FusionAssumption
<1>4. Score(dense, sparse, c) =
        IF Holds(dense, c) /\ Holds(sparse, c) THEN <<d + s, d * s>>
        ELSE <<1, IF Holds(dense, c) THEN d ELSE s>>
  BY DEF Score
<1> HIDE DEF d, s
<1>5. CASE Holds(dense, c) /\ Holds(sparse, c)
  <2>1. d + s \in Nat /\ d + s >= 1 /\ d * s \in Nat /\ d * s >= 1
    BY <1>2, <1>3, <1>5
  <2> QED BY <1>4, <1>5, <2>1
<1>6. CASE ~ (Holds(dense, c) /\ Holds(sparse, c))
  BY <1>1, <1>2, <1>3, <1>4, <1>6
<1> QED BY <1>5, <1>6

LEMMA SeenApart ==
  ASSUME NEW X, NEW dense \in Seq(X), NEW sparse \in Seq(X),
         NEW c \in Found(dense, sparse), NEW e \in Found(dense, sparse)
  PROVE  /\ Seen(dense, sparse, c) \in Nat
         /\ Seen(dense, sparse, c) = Seen(dense, sparse, e) => c = e
<1>1. \A k \in {c, e} :
        IF Holds(dense, k)
        THEN /\ Seen(dense, sparse, k) \in 1..Len(dense)
             /\ dense[Seen(dense, sparse, k)] = k
        ELSE /\ Seen(dense, sparse, k) - Len(dense) \in 1..Len(sparse)
             /\ Seen(dense, sparse, k) > Len(dense) /\ Seen(dense, sparse, k) \in Nat
             /\ sparse[Seen(dense, sparse, k) - Len(dense)] = k
  <2> TAKE k \in {c, e}
  <2>1. Holds(dense, k) \/ Holds(sparse, k)
    BY DEF Found, Holds
  <2>2. CASE Holds(dense, k)
    BY <2>2, Ranked DEF Seen
  <2>3. CASE ~ Holds(dense, k)
    <3>1. RankIn(sparse, k) \in 1..Len(sparse) /\ sparse[RankIn(sparse, k)] = k
      BY <2>1, <2>3, Ranked
    <3>2. Seen(dense, sparse, k) = Len(dense) + RankIn(sparse, k)
      BY <2>3 DEF Seen
    <3> QED BY <2>3, <3>1, <3>2
  <2> QED BY <2>2, <2>3
<1> QED BY <1>1

LEMMA BeforeOrders ==
  ASSUME NEW X, NEW dense \in Seq(X), NEW sparse \in Seq(X),
         NEW c \in Found(dense, sparse), NEW e \in Found(dense, sparse),
         NEW g \in Found(dense, sparse)
  PROVE  /\ ~ Before(dense, sparse, c, c)
         /\ Before(dense, sparse, c, e) /\ Before(dense, sparse, e, g)
              => Before(dense, sparse, c, g)
         /\ c # e => Before(dense, sparse, c, e) \/ Before(dense, sparse, e, c)
<1>1. PICK a, x \in Nat : a >= 1 /\ x >= 1 /\ Score(dense, sparse, c) = <<a, x>>
  BY Scored
<1>2. PICK b, y \in Nat : b >= 1 /\ y >= 1 /\ Score(dense, sparse, e) = <<b, y>>
  BY Scored
<1>3. PICK h, z \in Nat : h >= 1 /\ z >= 1 /\ Score(dense, sparse, g) = <<h, z>>
  BY Scored
<1> DEFINE i == Seen(dense, sparse, c)
           j == Seen(dense, sparse, e)
           k == Seen(dense, sparse, g)
<1>4. i \in Nat /\ j \in Nat /\ k \in Nat /\ (i = j => c = e)
  BY SeenApart
<1>5. /\ Before(dense, sparse, c, c) <=> a * x > a * x \/ (a * x = a * x /\ i < i)
      /\ Before(dense, sparse, c, e) <=> a * y > b * x \/ (a * y = b * x /\ i < j)
      /\ Before(dense, sparse, e, c) <=> b * x > a * y \/ (b * x = a * y /\ j < i)
      /\ Before(dense, sparse, e, g) <=> b * z > h * y \/ (b * z = h * y /\ j < k)
      /\ Before(dense, sparse, c, g) <=> a * z > h * x \/ (a * z = h * x /\ i < k)
  BY <1>1, <1>2, <1>3 DEF Before
<1>6. /\ a * x \in Nat /\ a * y \in Nat /\ b * x \in Nat /\ b * z \in Nat
      /\ h * y \in Nat /\ a * z \in Nat /\ h * x \in Nat
  OBVIOUS
<1>7. a * y >= b * x /\ b * z >= h * y =>
        /\ a * z >= h * x
        /\ a * y > b * x \/ b * z > h * y => a * z > h * x
  BY <1>1, <1>2, <1>3, Crossed
<1> DEFINE ax == a * x  ay == a * y  bx == b * x  bz == b * z  hy == h * y
           az == a * z  hx == h * x
<1> HIDE DEF i, j, k, ax, ay, bx, bz, hy, az, hx
<1>8. /\ Before(dense, sparse, c, c) <=> ax > ax \/ (ax = ax /\ i < i)
      /\ Before(dense, sparse, c, e) <=> ay > bx \/ (ay = bx /\ i < j)
      /\ Before(dense, sparse, e, c) <=> bx > ay \/ (bx = ay /\ j < i)
      /\ Before(dense, sparse, e, g) <=> bz > hy \/ (bz = hy /\ j < k)
      /\ Before(dense, sparse, c, g) <=> az > hx \/ (az = hx /\ i < k)
  BY <1>5 DEF ax, ay, bx, bz, hy, az, hx
<1>9. ax \in Nat /\ ay \in Nat /\ bx \in Nat /\ bz \in Nat /\ hy \in Nat
      /\ az \in Nat /\ hx \in Nat
  BY <1>6 DEF ax, ay, bx, bz, hy, az, hx
<1>10. ay >= bx /\ bz >= hy => az >= hx /\ (ay > bx \/ bz > hy => az > hx)
  BY <1>7 DEF ay, bx, bz, hy, az, hx
<1> QED BY <1>4, <1>8, <1>9, <1>10

(* In a total order of a finite set, the numbers of elements in front are  *)
(* the places.                                                             *)
LEMMA Places ==
  ASSUME NEW S, IsFiniteSet(S), NEW R, NEW place,
         place = [c \in S |-> 1 + Cardinality({e \in S : <<e, c>> \in R})],
         \A c \in S : <<c, c>> \notin R,
         \A c, e, g \in S : <<c, e>> \in R /\ <<e, g>> \in R => <<c, g>> \in R,
         \A c, e \in S : c # e => <<c, e>> \in R \/ <<e, c>> \in R
  PROVE  /\ \A c, e \in S : <<c, e>> \in R => place[c] < place[e]
         /\ place \in Bijection(S, 1..Cardinality(S))
<1> DEFINE front(c) == {e \in S : <<e, c>> \in R}
<1>1. \A c \in S : /\ IsFiniteSet(front(c)) /\ Cardinality(front(c)) \in Nat
                   /\ Cardinality(front(c)) < Cardinality(S)
  <2> TAKE c \in S
  <2>1. front(c) \in SUBSET S /\ c \notin front(c)
    OBVIOUS
  <2> HIDE DEF front
  <2>2. /\ IsFiniteSet(front(c)) /\ Cardinality(front(c)) <= Cardinality(S)
        /\ Cardinality(S) = Cardinality(front(c)) => S = front(c)
    BY <2>1, FS_Subset
  <2>3. Cardinality(front(c)) \in Nat /\ Cardinality(S) \in Nat
    BY <2>2, FS_CardinalityType
  <2> QED BY <2>1, <2>2, <2>3
<1>2. ASSUME NEW c \in S, NEW e \in S, <<c, e>> \in R
      PROVE  Cardinality(front(c)) < Cardinality(front(e))
  <2>1. front(c) \in SUBSET front(e) /\ c \in front(e) /\ c \notin front(c)
    BY <1>2
  <2>2. /\ IsFiniteSet(front(e)) /\ Cardinality(front(c)) \in Nat
        /\ Cardinality(front(e)) \in Nat
    BY <1>1
  <2> HIDE DEF front
  <2>3. /\ Cardinality(front(c)) <= Cardinality(front(e))
        /\ Cardinality(front(e)) = Cardinality(front(c)) => front(e) = front(c)
    BY <2>1, <2>2, FS_Subset
  <2> QED BY <2>1, <2>2, <2>3
<1>3. \A c \in S : place[c] = 1 + Cardinality(front(c))
  OBVIOUS
<1>4. DOMAIN place = S /\ place = [c \in S |-> place[c]]
  OBVIOUS
<1> HIDE DEF front
<1>5. \A c, e \in S : <<c, e>> \in R => place[c] < place[e]
  BY <1>1, <1>2, <1>3
<1>6. Cardinality(S) \in Nat
  BY FS_CardinalityType
<1>7. \A c \in S : place[c] \in 1..Cardinality(S)
  BY <1>1, <1>3, <1>6
<1>8. \A c, e \in S : place[c] = place[e] => c = e
  <2> TAKE c, e \in S
  <2>1. place[c] \in Int /\ place[e] \in Int
    BY <1>6, <1>7
  <2>2. /\ <<c, e>> \in R => place[c] < place[e]
        /\ <<e, c>> \in R => place[e] < place[c]
    BY <1>5
  <2>3. c # e => <<c, e>> \in R \/ <<e, c>> \in R
    OBVIOUS
  <2>4. ASSUME NEW a \in Int, NEW b \in Int, a < b \/ b < a PROVE a # b
    BY <2>4
  <2> QED BY <2>1, <2>2, <2>3, <2>4
<1>9. place \in Injection(S, 1..Cardinality(S))
  BY <1>4, <1>7, <1>8 DEF Injection, IsInjective
<1>10. place \in Surjection(S, 1..Cardinality(S))
  BY <1>6, <1>9, UpTo, FS_Injection
<1> QED BY <1>5, <1>9, <1>10 DEF Bijection

(* reciprocal_rank_fusion lists the chunks found, best first, each once.   *)
LEMMA FusedLists ==
  ASSUME NEW X, NEW dense \in Seq(X), NEW sparse \in Seq(X), NEW topK \in Nat,
         NEW fused, fused = Fused(dense, sparse, topK),
         NEW all, all = Found(dense, sparse)
  PROVE  /\ Cardinality(all) \in Nat
         /\ Len(fused) = Least(topK, Cardinality(all))
         /\ DOMAIN fused = 1..Len(fused)
         /\ \A i \in 1..Len(fused) : fused[i] \in all
         /\ \A i, j \in 1..Len(fused) : fused[i] = fused[j] => i = j
         /\ \A i, j \in 1..Len(fused) :
              Before(dense, sparse, fused[i], fused[j]) => i < j
         /\ \A c \in all \ ToSet(fused), i \in 1..Len(fused) :
              Before(dense, sparse, fused[i], c)
<1> DEFINE R == {r \in all \X all : Before(dense, sparse, r[1], r[2])}
           place == [c \in all |-> 1 + Cardinality({e \in all : <<e, c>> \in R})]
           n == Least(topK, Cardinality(all))
<1>1. IsFiniteSet(all)
  <2>1. IsFiniteSet(ToSet(dense)) /\ IsFiniteSet(ToSet(sparse))
    <3>1. ASSUME NEW list \in Seq(X) PROVE IsFiniteSet(ToSet(list))
      <4>1. list \in Surjection(1..Len(list), ToSet(list)) /\ Len(list) \in Nat
        BY DEF Surjection, ToSet
      <4> QED BY <4>1, UpTo, FS_Surjection
    <3> QED BY <3>1
  <2> QED BY <2>1, FS_Union DEF Found
<1>2. Cardinality(all) \in Nat /\ n \in Nat /\ n <= Cardinality(all)
  BY <1>1, FS_CardinalityType DEF Least
<1>3. \A c, e \in all : <<c, e>> \in R <=> Before(dense, sparse, c, e)
  OBVIOUS
<1>4. \A c, e, g \in all :
        /\ <<c, c>> \notin R
        /\ <<c, e>> \in R /\ <<e, g>> \in R => <<c, g>> \in R
        /\ c # e => <<c, e>> \in R \/ <<e, c>> \in R
  <2> TAKE c, e, g \in all
  <2>1. /\ ~ Before(dense, sparse, c, c)
        /\ Before(dense, sparse, c, e) /\ Before(dense, sparse, e, g)
             => Before(dense, sparse, c, g)
        /\ c # e => Before(dense, sparse, c, e) \/ Before(dense, sparse, e, c)
    BY BeforeOrders
  <2> HIDE DEF R
  <2> QED BY <1>3, <2>1
<1>5. /\ \A c, e \in all : <<c, e>> \in R => place[c] < place[e]
      /\ place \in Bijection(all, 1..Cardinality(all))
  <2> HIDE DEF R
  <2> QED BY <1>1, <1>4, Places
<1>6. \A c \in all :
        place[c] = 1 + Cardinality({e \in all : Before(dense, sparse, e, c)})
  <2> TAKE c \in all
  <2>1. {e \in all : <<e, c>> \in R} = {e \in all : Before(dense, sparse, e, c)}
    BY <1>3
  <2> QED BY <2>1
<1>7. fused = [p \in 1..n |-> CHOOSE c \in all :
                 1 + Cardinality({e \in all : Before(dense, sparse, e, c)}) = p]
  BY DEF Fused, Found
<1> HIDE DEF R, place, n
<1>8. /\ \A c \in all : place[c] \in 1..Cardinality(all)
      /\ \A p \in 1..Cardinality(all) : \E c \in all : place[c] = p
      /\ \A c, e \in all : place[c] = place[e] => c = e
  BY <1>5 DEF Bijection, Injection, Surjection, IsInjective
<1>9. /\ DOMAIN fused = 1..n /\ Len(fused) = n
      /\ \A p \in 1..n : fused[p] \in all /\ place[fused[p]] = p
  <2>1. DOMAIN fused = 1..n /\ Len(fused) = n
    BY <1>2, <1>7
  <2>2. ASSUME NEW p \in 1..n PROVE fused[p] \in all /\ place[fused[p]] = p
    <3>1. \E c \in all :
            1 + Cardinality({e \in all : Before(dense, sparse, e, c)}) = p
      <4>1. p \in 1..Cardinality(all)
        BY <1>2
      <4>2. PICK c \in all : place[c] = p
        BY <1>8, <4>1
      <4> QED BY <1>6, <4>2
    <3>2. fused[p] = CHOOSE c \in all :
            1 + Cardinality({e \in all : Before(dense, sparse, e, c)}) = p
      BY <1>7
    <3>3. /\ fused[p] \in all
          /\ 1 + Cardinality({e \in all : Before(dense, sparse, e, fused[p])}) = p
      BY <3>1, <3>2
    <3> QED BY <1>6, <3>3
  <2> QED BY <2>1, <2>2
<1>10. \A i, j \in 1..n : Before(dense, sparse, fused[i], fused[j]) => i < j
  <2> TAKE i, j \in 1..n
  <2>1. /\ fused[i] \in all /\ fused[j] \in all
        /\ place[fused[i]] = i /\ place[fused[j]] = j
    BY <1>9
  <2> QED BY <1>3, <1>5, <2>1
<1>11. ASSUME NEW c \in all \ ToSet(fused), NEW i \in 1..n
       PROVE  Before(dense, sparse, fused[i], c)
  <2>1. place[c] \notin 1..n
    <3>1. place[c] \in 1..n => fused[place[c]] = c
      BY <1>8, <1>9
    <3> QED BY <1>9, <3>1 DEF ToSet
  <2>2. i < place[c] /\ place[fused[i]] = i /\ fused[i] \in all
    BY <1>2, <1>8, <1>9, <2>1
  <2>3. fused[i] # c /\ ~ (<<c, fused[i]>> \in R)
    BY <1>5, <1>8, <1>2, <2>2
  <2> QED BY <1>3, <1>4, <2>2, <2>3
<1> QED BY <1>2, <1>9, <1>10, <1>11 DEF n

(* Two ranks up to k + 1 weigh more than one first place: with d and s the *)
(* two, and r the one, 1/d + 1/s > 1/r.                                    *)
LEMMA TwoOutweighOne ==
  ASSUME NEW k \in Nat, NEW d \in 1..(2 * k + 1), NEW s \in 1..(2 * k + 1),
         NEW r \in Nat, r >= k + 1
  PROVE  (d + s) * r > d * s
<1> DEFINE m == d + s
<1>1. m \in Nat /\ m >= 1 /\ d \in Nat /\ s \in Nat
  OBVIOUS
<1>2. m * r >= m * (k + 1)
  <2>1. m * r = m * (k + 1) + m * (r - (k + 1)) /\ r - (k + 1) \in Nat
    BY <1>1
  <2> HIDE DEF m
  <2>2. m * (r - (k + 1)) \in Nat /\ m * (k + 1) \in Nat
    BY <1>1, <2>1
  <2> QED BY <2>1, <2>2
<1>3. d * s <= d * (2 * k + 1)
  <2>1. d * (2 * k + 1) = d * s + d * ((2 * k + 1) - s) /\ (2 * k + 1) - s \in Nat
    BY <1>1
  <2>2. d * ((2 * k + 1) - s) \in Nat /\ d * s \in Nat
    BY <1>1, <2>1
  <2> QED BY <2>1, <2>2
<1>4. d * s <= s * (2 * k + 1)
  <2>1. s * (2 * k + 1) = d * s + s * ((2 * k + 1) - d) /\ (2 * k + 1) - d \in Nat
    BY <1>1
  <2>2. s * ((2 * k + 1) - d) \in Nat /\ d * s \in Nat
    BY <1>1, <2>1
  <2> QED BY <2>1, <2>2
<1>5. /\ d * (2 * k + 1) + s * (2 * k + 1) = m * (2 * k + 1)
      /\ 2 * (m * (k + 1)) = m * (2 * k + 1) + m
  BY <1>1
<1> DEFINE ds == d * s  du == d * (2 * k + 1)  su == s * (2 * k + 1)
           mu == m * (2 * k + 1)  mk == m * (k + 1)  mr == m * r
<1>6. ds \in Nat /\ du \in Nat /\ su \in Nat /\ mu \in Nat /\ mk \in Nat /\ mr \in Nat
  BY <1>1
<1> SUFFICES mr > ds
  OBVIOUS
<1>7. mr >= mk /\ ds <= du /\ ds <= su /\ du + su = mu /\ 2 * mk = mu + m
  BY <1>2, <1>3, <1>4, <1>5
<1> HIDE DEF ds, du, su, mu, mk, mr, m
<1> QED BY <1>1, <1>6, <1>7

LEMMA BothFirst ==
  ASSUME NEW X, NEW dense \in Seq(X), NEW sparse \in Seq(X), NEW c, NEW e,
         Holds(dense, c), Holds(sparse, c),
         RankIn(dense, c) <= RrfK + 1, RankIn(sparse, c) <= RrfK + 1,
         Holds(dense, e) \/ Holds(sparse, e), ~ (Holds(dense, e) /\ Holds(sparse, e))
  PROVE  Before(dense, sparse, c, e)
<1> DEFINE d == RrfK + RankIn(dense, c)
           s == RrfK + RankIn(sparse, c)
           r == IF Holds(dense, e) THEN RrfK + RankIn(dense, e)
                ELSE RrfK + RankIn(sparse, e)
<1>1. RrfK \in Nat /\ d \in 1..(2 * RrfK + 1) /\ s \in 1..(2 * RrfK + 1)
  BY Ranked, FusionAssumption
<1>2. r \in Nat /\ r >= RrfK + 1
  BY Ranked, FusionAssumption
<1>3. Score(dense, sparse, c) = <<d + s, d * s>> /\ Score(dense, sparse, e) = <<1, r>>
  BY DEF Score
<1> HIDE DEF d, s, r
<1>4. (d + s) * r > d * s /\ 1 * (d * s) = d * s
  BY <1>1, <1>2, TwoOutweighOne
<1> QED BY <1>3, <1>4 DEF Before

(* The fused list of any two lists                                         *)
LEMMA FusedRight ==
  ASSUME answer.dense \in Seq(Chunks), answer.sparse \in Seq(Chunks),
         answer.fused = Fused(answer.dense, answer.sparse, TopK)
  PROVE  BothBeatOne
<1> DEFINE dense == answer.dense
           sparse == answer.sparse
           fused == answer.fused
           all == ToSet(dense) \cup ToSet(sparse)
           twice == ToSet(dense) \cap ToSet(sparse)
           both == {c \in twice : /\ RankIn(dense, c) <= RrfK + 1
                                  /\ RankIn(sparse, c) <= RrfK + 1}
<1>1. /\ Len(fused) = Least(TopK, Cardinality(all))
      /\ DOMAIN fused = 1..Len(fused)
      /\ \A i \in 1..Len(fused) : fused[i] \in all
      /\ \A i, j \in 1..Len(fused) : fused[i] = fused[j] => i = j
      /\ \A i, j \in 1..Len(fused) :
           Before(dense, sparse, fused[i], fused[j]) => i < j
      /\ \A c \in all \ ToSet(fused), i \in 1..Len(fused) :
           Before(dense, sparse, fused[i], c)
  <2>1. /\ dense \in Seq(Chunks) /\ sparse \in Seq(Chunks) /\ TopK \in Nat
        /\ fused = Fused(dense, sparse, TopK) /\ all = Found(dense, sparse)
    BY RetrievalAssumption DEF Found
  <2> HIDE DEF dense, sparse, fused, all
  <2>2. /\ Len(fused) = Least(TopK, Cardinality(all))
        /\ DOMAIN fused = 1..Len(fused)
    BY <2>1, FusedLists
  <2>3. \A i \in 1..Len(fused) : fused[i] \in all
    BY <2>1, FusedLists
  <2>6. \A i, j \in 1..Len(fused) : fused[i] = fused[j] => i = j
    BY <2>1, FusedLists
  <2>4. \A i, j \in 1..Len(fused) :
          Before(dense, sparse, fused[i], fused[j]) => i < j
    BY <2>1, FusedLists
  <2>5. \A c \in all \ ToSet(fused), i \in 1..Len(fused) :
          Before(dense, sparse, fused[i], c)
    BY <2>1, FusedLists
  <2> QED BY <2>2, <2>3, <2>4, <2>5, <2>6
<1>2. \A c \in both, e \in all \ twice : Before(dense, sparse, c, e)
  BY BothFirst DEF Holds
<1>3. \A c, e \in all : ~ (Before(dense, sparse, c, e) /\ Before(dense, sparse, e, c))
  BY BeforeOrders DEF Found
<1> HIDE DEF dense, sparse, fused
<1>4. ToSet(fused) = {fused[i] : i \in 1..Len(fused)}
  BY <1>1 DEF ToSet
<1>5. \A i, j \in 1..Len(fused) : fused[i] \in both /\ fused[j] \notin twice => i < j
  BY <1>1, <1>2
<1>6. both \subseteq ToSet(fused) \/ ToSet(fused) \subseteq twice
  <2> SUFFICES ASSUME NEW c \in both, c \notin ToSet(fused),
                      NEW e \in ToSet(fused), e \notin twice
               PROVE  FALSE
    OBVIOUS
  <2>1. e \in all /\ c \in all
    BY <1>1, <1>4
  <2>2. Before(dense, sparse, e, c)
    <3>1. PICK i \in 1..Len(fused) : e = fused[i]
      BY <1>4
    <3>2. c \in all \ ToSet(fused)
      BY <2>1
    <3> HIDE DEF all
    <3> QED BY <1>1, <3>1, <3>2
  <2> QED BY <1>2, <1>3, <2>1, <2>2
<1>7. ToSet(fused) \subseteq all
  <2> HIDE DEF all
  <2> QED BY <1>1, <1>4
<1> QED BY <1>1, <1>5, <1>6, <1>7 DEF BothBeatOne, dense, sparse, fused

LEMMA NothingFused == answer = Nothing => BothBeatOne
<1> SUFFICES ASSUME answer = Nothing PROVE BothBeatOne
  OBVIOUS
<1>1. answer.dense = <<>> /\ answer.sparse = <<>> /\ answer.fused = <<>>
  BY DEF Nothing
<1>2. ToSet(<<>>) = {} /\ Len(<<>>) = 0 /\ 1..0 = {}
  BY DEF ToSet
<1>3. Least(TopK, Cardinality({})) = 0
  BY FS_EmptySet, RetrievalAssumption DEF Least
<1> QED BY <1>1, <1>2, <1>3 DEF BothBeatOne

FusedInv ==
  \/ answer = Nothing
  \/ /\ answer.dense \in Seq(Chunks) /\ answer.sparse \in Seq(Chunks)
     /\ answer.fused = Fused(answer.dense, answer.sparse, TopK)

LEMMA FusedNext == IndexInv /\ FusedInv /\ [Next]_vars => FusedInv'
<1> SUFFICES ASSUME IndexInv, FusedInv, [Next]_vars PROVE FusedInv'
  OBVIOUS
<1>1. ASSUME NEW query \in Queries, NEW filter \in Filters, Retrieve(query, filter)
      PROVE  FusedInv'
  <2>1. PICK d \in DenseRankings(filter), s \in SparseRankings(query, filter) :
          answer' = [query |-> query, filter |-> filter,
                     dense |-> ChunksAt(d), sparse |-> ChunksAt(s),
                     fused |-> Fused(ChunksAt(d), ChunksAt(s), TopK)]
    BY <1>1 DEF Retrieve
  <2>2. docs = store
    BY <1>1 DEF Retrieve, IndexInv, InStep
  <2>3. ChunksAt(d) \in Seq(Chunks) /\ ChunksAt(s) \in Seq(Chunks)
    BY <2>2, DenseRight, SparseRight
  <2> QED BY <2>1, <2>3 DEF FusedInv
<1>2. CASE Stop
  BY <1>2 DEF Stop, FusedInv, Nothing
<1>3. CASE UNCHANGED answer
  BY <1>3 DEF FusedInv
<1>4. Next => Stop \/ UNCHANGED answer
              \/ \E query \in Queries, filter \in Filters : Retrieve(query, filter)
  BY DEF Next, StartBuild, StartAppend, Retrain, Save, Serve, AddBatch
<1> QED BY <1>1, <1>2, <1>3, <1>4 DEF vars

(* For every k, list length and pair of lists: the fused list holds the    *)
(* chunks of both, each once, and a chunk that both retrievers rank among  *)
(* their first k + 1 stands above any that only one of them found.         *)
THEOREM BothAlwaysBeatOne == Spec => []BothBeatOne
<1>1. Init => FusedInv
  BY DEF Init, FusedInv
<1>2. FusedInv => BothBeatOne
  BY NothingFused, FusedRight DEF FusedInv
<1> QED BY <1>1, <1>2, IndexInit, IndexNext, FusedNext, PTL DEF Spec
=============================================================================
