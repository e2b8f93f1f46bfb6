----------------------------- MODULE Retrieval -----------------------------
(***************************************************************************)
(* The retrievers over one index: how the index, its chunk store, its      *)
(* metadata filter and the term statistics are built, extended, retrained, *)
(* saved and loaded (faiss_index.py, metadata.py, bm25.py), and what a     *)
(* query finds in them (hybrid.py).                                        *)
(*                                                                         *)
(* Commands run one after the other here; what a death between two writes  *)
(* leaves behind is IndexStore's subject.  Similarities are not modelled:  *)
(* a ranking is any order of the chunks that may be in it.                 *)
(***************************************************************************)
EXTENDS Fusion, Bm25

CONSTANTS
  Batches,       \* sequences of chunks, one for each build or batch
  Meta,          \* chunk -> metadata: a value for every field
  Filters,       \* a set of values for each field, {} for any value
  Queries,       \* sets of terms
  CandidateK,    \* retrieval_candidate_k
  TopK,
  Wanted,        \* faiss_index_type: "flat" or "ivf"
  MinForIvf,     \* MIN_VECTORS_FOR_IVF
  None

Chunks == DOMAIN Meta

ListsOnce(seq) == \A i, j \in 1..Len(seq) : seq[i] = seq[j] => i = j

(* No two chunks have one id, so that no batch holds a chunk twice.        *)
ASSUME RetrievalAssumption ==
  /\ CandidateK \in Nat /\ TopK \in Nat /\ MinForIvf \in Nat \ {0}
  /\ Wanted \in {"flat", "ivf"}
  /\ \A batch \in Batches : batch \in Seq(Chunks) /\ ListsOnce(batch)
  /\ DOMAIN Terms = Chunks

VARIABLES
  task,          \* what the process is at
  kind,          \* index_type
  requested,     \* _requested_type
  rows,          \* the chunks whose vectors are in the index, row by row
  trained,       \* the rows the centroids were fitted to
  store,         \* the chunk store
  registered,    \* the filter's entries: positions with their chunks
  docs,          \* the chunks that the term statistics were built from
  disk,          \* the saved index
  answer         \* the last query and its results

index == <<kind, requested, rows, trained, store, registered>>
vars == <<task, index, docs, disk, answer>>

-----------------------------------------------------------------------------
Rows(seq) == {<<i, seq[i]>> : i \in 1..Len(seq)}

(* Mutant of Allowed: fields are a union, too.                             *)
AllowedByAnyField(filter) ==
  {i \in 1..Len(store) :
     \E field \in DOMAIN filter :
       filter[field] = {} \/
         \E entry \in registered :
           entry[1] = i /\ Meta[entry[2]][field] \in filter[field]}

(* allowed: values of a field are a union, fields intersect.               *)
Allowed(filter) ==
  {i \in 1..Len(store) :
     \A field \in DOMAIN filter :
       filter[field] = {} \/
         \E entry \in registered :
           entry[1] = i /\ Meta[entry[2]][field] \in filter[field]}

(* _build_index: IVF is not trained on too few vectors.                    *)
Built(asked, vectors) ==
  IF asked = "ivf" /\ Len(vectors) >= MinForIvf
  THEN [kind |-> "ivf", trained |-> ToSet(vectors)]
  ELSE [kind |-> "flat", trained |-> {}]

UpgradeDue(incoming) ==
  /\ requested = "ivf" /\ kind = "flat"
  /\ Len(store) + incoming >= MinForIvf

Nothing == [query |-> {}, dense |-> <<>>, sparse |-> <<>>, fused |-> <<>>,
            filter |-> None]

-----------------------------------------------------------------------------
Init ==
  /\ task = "idle"
  /\ kind = "flat" /\ requested = Wanted /\ rows = <<>> /\ trained = {}
  /\ store = <<>> /\ registered = {}
  /\ docs = <<>> /\ disk = None /\ answer = Nothing

(* FaissIndex.load                                                         *)
Load ==
  /\ disk # None
  /\ kind' = disk.kind /\ requested' = disk.kind
  /\ rows' = disk.rows /\ trained' = disk.trained
  /\ store' = disk.store /\ registered' = Rows(disk.store)

(* build_index without append: a new index ...                             *)
StartBuild ==
  /\ task = "idle"
  /\ task' = "build"
  /\ kind' = Wanted /\ requested' = Wanted /\ rows' = <<>> /\ trained' = {}
  /\ store' = <<>> /\ registered' = {} /\ docs' = <<>>
  /\ UNCHANGED <<disk, answer>>

(* ... with append: the saved one, if there is a batch it does not hold.   *)
StartAppend ==
  /\ task = "idle" /\ disk # None
  /\ \E batch \in Batches : ToSet(batch) \cap ToSet(disk.store) = {}
  /\ task' = "append"
  /\ Load /\ docs' = <<>>
  /\ UNCHANGED <<disk, answer>>

(* Mutant of AddBatch: the new chunks are registered from zero again.      *)
AddBatchFromZero(batch) ==
  /\ task \in {"build", "append", "added"}
  /\ batch # <<>> /\ ToSet(batch) \cap ToSet(store) = {}
  /\ LET made == Built(kind, rows \o batch)
     IN  IF rows = <<>> \/ UpgradeDue(Len(batch))
         THEN kind' = made.kind /\ trained' = made.trained
         ELSE UNCHANGED <<kind, trained>>
  /\ rows' = rows \o batch
  /\ store' = store \o batch
  /\ registered' = registered \cup Rows(batch)
  /\ task' = "added"
  /\ UNCHANGED <<requested, docs, disk, answer>>

(* FaissIndex.add.  The first vectors decide the kind of the index; one    *)
(* that had to be flat is rebuilt as IVF once enough vectors come          *)
(* together, and everything is added again.  build_index adds only once to *)
(* an index it made or loaded; the class takes any number of batches.      *)
AddBatch(batch) ==
  /\ task \in {"build", "append", "added"}
  /\ batch # <<>> /\ ToSet(batch) \cap ToSet(store) = {}
  /\ LET asked == IF UpgradeDue(Len(batch)) THEN "ivf" ELSE kind
         made == Built(asked, rows \o batch)
     IN  IF rows = <<>> \/ UpgradeDue(Len(batch))
         THEN kind' = made.kind /\ trained' = made.trained
         ELSE UNCHANGED <<kind, trained>>
  /\ rows' = rows \o batch
  /\ store' = store \o batch
  /\ registered' = registered \cup {<<Len(store) + i, batch[i]>> : i \in 1..Len(batch)}
  /\ task' = "added"
  /\ UNCHANGED <<requested, docs, disk, answer>>

(* _run_reindex: nothing to do unless the index has centroids.             *)
Retrain ==
  /\ task = "idle"
  /\ disk # None /\ disk.kind = "ivf"
  /\ task' = "reindex"
  /\ kind' = Built("ivf", disk.rows).kind
  /\ trained' = Built("ivf", disk.rows).trained
  /\ requested' = disk.kind /\ rows' = disk.rows
  /\ store' = disk.store /\ registered' = Rows(disk.store) /\ docs' = <<>>
  /\ UNCHANGED <<disk, answer>>

(* FaissIndex.save, then the term statistics over all chunks: built from   *)
(* the new chunks (add), or from the whole store (rebuild_from).           *)
Save ==
  /\ task \in {"added", "reindex"}
  /\ docs' = store
  /\ disk' = [kind |-> kind, rows |-> rows, trained |-> trained,
              store |-> store, docs |-> docs']
  /\ task' = "idle"
  /\ UNCHANGED <<index, answer>>

(* load_retrievers: saved statistics of another number of chunks are not   *)
(* used but built again.                                                   *)
Serve ==
  /\ task = "idle"
  /\ Load
  /\ docs' = IF Len(disk.docs) = Len(disk.store) THEN disk.docs ELSE disk.store
  /\ task' = "serve"
  /\ UNCHANGED <<disk, answer>>

Stop ==
  /\ task = "serve"
  /\ task' = "idle" /\ answer' = Nothing
  /\ UNCHANGED <<index, docs, disk>>

(* The sequences of n elements of a set, each once                         *)
Rankings(found, n) == UNION {SetToSeqs(s) : s \in kSubset(n, found)}

ChunksAt(positions) == [r \in 1..Len(positions) |-> store[positions[r]]]

(* FaissIndex.search: the selector lets the index itself look only at the  *)
(* rows that are allowed; only IVF can come back with fewer than asked for *)
(* (a row -1 is left out).                                                 *)
DenseRankings(filter) ==
  LET within == Allowed(filter) \cap 1..Len(rows)
      full == Least(CandidateK, Cardinality(within))
  IN  UNION {Rankings(within, n) : n \in IF kind = "ivf" THEN 0..full ELSE {full}}

(* BM25Retriever.search: chunks that score above zero, best first          *)
SparseRankings(query, filter) ==
  LET sure == SureHits(docs, query) \cap Allowed(filter)
      possible == PossibleHits(docs, query) \cap Allowed(filter)
  IN  UNION {Rankings(sure \cup more, Least(CandidateK, Cardinality(sure \cup more))) :
               more \in SUBSET (possible \ sure)}

(* HybridRetriever.retrieve; its lists alone are modes "dense" and         *)
(* "sparse".                                                               *)
Retrieve(query, filter) ==
  /\ task = "serve"
  /\ \E d \in DenseRankings(filter), s \in SparseRankings(query, filter) :
       answer' = [query |-> query, filter |-> filter,
                  dense |-> ChunksAt(d), sparse |-> ChunksAt(s),
                  fused |-> Fused(ChunksAt(d), ChunksAt(s), TopK)]
  /\ UNCHANGED <<task, index, docs, disk>>

Next ==
  \/ StartBuild \/ StartAppend \/ Retrain \/ Save \/ Serve \/ Stop
  \/ \E batch \in Batches : AddBatch(batch)
  \/ \E query \in Queries, filter \in Filters : Retrieve(query, filter)

Spec == Init /\ [][Next]_vars

-----------------------------------------------------------------------------
Matches(c, filter) ==
  \A field \in DOMAIN filter :
    filter[field] = {} \/ Meta[c][field] \in filter[field]

(* However an index came about (built, upgraded, appended to, loaded,      *)
(* retrained), row, chunk and metadata of one number belong together, and  *)
(* whoever serves it scores by the statistics of just these chunks.  As    *)
(* long as it is not loaded, an index that was to be IVF becomes IVF; its  *)
(* centroids are fitted to enough vectors, after a reindex to all of them. *)
InStep ==
  /\ rows = store
  /\ registered = Rows(store)
  /\ task = "serve" => docs = store
  /\ requested = "ivf" /\ Len(rows) >= MinForIvf => kind = "ivf"
  /\ kind = "ivf" /\ rows # <<>> =>
       /\ trained \subseteq ToSet(rows) /\ Cardinality(trained) >= MinForIvf
       /\ task = "reindex" => trained = ToSet(rows)

(* Filtering comes before ranking: every hit is of the right company and   *)
(* year, and a flat index fills the list with all it can.  A lexical hit   *)
(* holds a query term; a chunk that holds one of the rarer terms, and none *)
(* that most chunks hold, is found.                                        *)
HitsRight ==
  answer.filter # None =>
    LET matching == {c \in ToSet(store) : Matches(c, answer.filter)}
        Common(t) == 2 * DocumentFrequency(store, t) >= Len(store)
        exact == {c \in matching :
                    /\ answer.query \cap Terms[c] # {}
                    /\ \A t \in answer.query \cap Terms[c] : ~ Common(t)}
    IN  /\ ToSet(answer.dense) \cup ToSet(answer.sparse) \subseteq matching
        /\ kind = "flat" =>
             Len(answer.dense) = Least(CandidateK, Cardinality(matching))
        /\ \A c \in ToSet(answer.sparse) : answer.query \cap Terms[c] # {}
        /\ exact \subseteq ToSet(answer.sparse) \/ Len(answer.sparse) = CandidateK

(* "Anything both retrievers rank highly rises above anything only one of  *)
(* them liked": two ranks up to k + 1 beat one first place.  And nothing   *)
(* is listed twice, or for no reason.                                      *)
BothBeatOne ==
  LET both == {c \in ToSet(answer.dense) \cap ToSet(answer.sparse) :
                 /\ RankIn(answer.dense, c) <= RrfK + 1
                 /\ RankIn(answer.sparse, c) <= RrfK + 1}
      twice == ToSet(answer.dense) \cap ToSet(answer.sparse)
      all == ToSet(answer.dense) \cup ToSet(answer.sparse)
      fused == answer.fused
  IN  /\ \A i, j \in 1..Len(fused) :
           /\ fused[i] = fused[j] => i = j
           /\ fused[i] \in both /\ fused[j] \notin twice => i < j
      /\ ToSet(fused) \subseteq all
      /\ Len(fused) = Least(TopK, Cardinality(all))
      /\ both \subseteq ToSet(fused) \/ ToSet(fused) \subseteq twice

-----------------------------------------------------------------------------
(* What makes InStep inductive: an index on disk is one in step, each      *)
(* chunk is indexed once (a vector counted twice would not train IVF), and *)
(* nobody but the server has answers.                                      *)
Kinds == {"flat", "ivf"}

Fitted(k, vectors, centroids) ==
  k = "ivf" /\ vectors # <<>> =>
    centroids \subseteq ToSet(vectors) /\ Cardinality(centroids) >= MinForIvf

SavedInv ==
  disk # None =>
    /\ disk.kind \in Kinds
    /\ disk.store \in Seq(Chunks) /\ ListsOnce(disk.store)
    /\ disk.rows = disk.store /\ disk.docs = disk.store
    /\ Fitted(disk.kind, disk.rows, disk.trained)

IndexInv ==
  /\ task \in {"idle", "build", "append", "added", "reindex", "serve"}
  /\ kind \in Kinds /\ requested \in Kinds
  /\ store \in Seq(Chunks) /\ ListsOnce(store)
  /\ SavedInv
  /\ InStep

AnswerInv ==
  /\ task # "serve" => answer = Nothing
  /\ HitsRight
=============================================================================
