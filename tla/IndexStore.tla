----------------------------- MODULE IndexStore -----------------------------
(***************************************************************************)
(* The persisted index and the processes around it: scripts/scale.py grows *)
(* it batch by batch (or scripts/index.py replaces it), saving file after  *)
(* file; a query process loads the files one by one and keeps reading      *)
(* chunk text from the disk while it serves.  The writer may die at any    *)
(* point of CrashAt.                                                       *)
(*                                                                         *)
(* The chunks of a filing enter and leave the index together, so a file is *)
(* the sequence of the filings whose chunks it holds: vectors in           *)
(* index.faiss, texts in the text file, term statistics in the postings    *)
(* file.  The metadata file holds ids and offsets; the offsets are known   *)
(* by the text file they were computed over (layout).                      *)
(***************************************************************************)
EXTENDS Integers, Sequences, FiniteSets

CONSTANTS
  Filings,       \* every filing the ticker universe can yield
  Rank,          \* Rank[f]: the place of f among the sorted filing ids
  Empty,         \* filings that yield no chunk
  ListOf,        \* ListOf[S]: the chunk list of the filings S
  BatchSize,     \* --filings
  TickerOf,      \* TickerOf[f]: the ticker f is recorded under
  TickerWave,    \* TICKER_WAVE
  FullBuilds,    \* sets of filings scripts/index.py may be run on
  LoadWhileSaving,  \* may a query process load while a save is under way?
  CrashAt,       \* saves before which the writer may die
  MaxVectors,    \* bound: no death, no save that raises, of more vectors
  TornFiles,     \* files that a death inside their write leaves unreadable
  NoFile, TornFile, Wrong

Saves == {"faiss", "text", "meta", "json", "postings"}

FilingList == Seq(Filings)

(* A ChunkStore: chunks past the end of layout have their text in memory.  *)
Store == [ids : FilingList, layout : FilingList]
EmptyStore == [ids |-> <<>>, layout |-> <<>>]
Listed(s) == {s[i] : i \in 1..Len(s)}

ASSUME StoreAssumption ==
  /\ IsFiniteSet(Filings)
  /\ Rank \in [Filings -> Nat]
  /\ \A f, g \in Filings : Rank[f] = Rank[g] => f = g
  /\ Empty \subseteq Filings
  /\ ListOf \in [SUBSET Filings -> FilingList]
  /\ \A S \in SUBSET Filings :
       /\ Listed(ListOf[S]) = S \ Empty
       /\ \A i, j \in 1..Len(ListOf[S]) : ListOf[S][i] = ListOf[S][j] => i = j
  /\ BatchSize \in Nat \ {0}
  /\ DOMAIN TickerOf = Filings /\ TickerWave \in Nat \ {0}
  /\ FullBuilds \subseteq SUBSET Filings
  /\ LoadWhileSaving \in BOOLEAN
  /\ CrashAt \subseteq Saves
  /\ MaxVectors \in Nat
  /\ TornFiles \subseteq Saves \ {"text"}

ASSUME SentinelAssumption ==
  /\ {NoFile, TornFile} \cap (FilingList \cup Store \cup {"settings"}) = {}
  /\ NoFile # TornFile
  /\ Wrong \notin Filings

VARIABLES
  faissFile, textFile, metaFile, jsonFile, postFile,
  ingested,            \* filings in the ingest manifest
  wpc, vecs, store,    \* the writer: its next save, the index it holds
  rebuilt,             \* has scripts/index.py been run? (history)
  rpc, rVecs, rStore, rPost   \* the query process and what it has loaded

disk   == <<faissFile, textFile, metaFile, jsonFile, postFile>>
writer == <<wpc, vecs, store, rebuilt>>
reader == <<rpc, rVecs, rStore, rPost>>
vars   == <<disk, ingested, writer, reader>>

-----------------------------------------------------------------------------
Readable(file) == file \notin {NoFile, TornFile}

(* FaissIndex.load succeeds on what is on the disk.                        *)
Loadable == Readable(jsonFile) /\ Readable(faissFile) /\ Readable(metaFile)

(* _indexed_filings: a missing index counts as an empty one.               *)
Indexed == IF jsonFile = NoFile THEN {} ELSE Listed(metaFile.ids)

(* Mutant of Pending: what the index holds already is not left out.        *)
PendingAll == ingested

Pending == ingested \ Indexed

(* Mutant of NextBatch: sorted(manifest.filings)[: args.filings], of which *)
(* those indexed are left out then.                                        *)
NextBatchCutFirst ==
  {f \in Pending : Cardinality({g \in ingested : Rank[g] < Rank[f]}) < BatchSize}

(* sorted(pending)[: args.filings]                                         *)
NextBatch ==
  {f \in Pending : Cardinality({g \in Pending : Rank[g] < Rank[f]}) < BatchSize}

(* ChunkStore.text on a saved chunk: what stands at its offset, which is a *)
(* line of the file if the file agrees with the layout on all lines before *)
(* it, and else cannot be decoded.                                         *)
TextAt(st, i) ==
  IF /\ textFile # NoFile /\ i <= Len(textFile)
     /\ \A j \in 1..(i - 1) : textFile[j] = st.layout[j]
  THEN textFile[i] ELSE Wrong

(* ChunkStore.text: buffered texts come from memory, saved ones from disk. *)
Texts(st) ==
  [i \in 1..Len(st.ids) |->
     IF i > Len(st.layout) THEN st.ids[i] ELSE TextAt(st, i)]

(* iter_chunks over a loaded store: line by line, offsets left aside.      *)
TextsInOrder(st) ==
  [i \in {k \in 1..Len(st.layout) : k <= Len(textFile)} |-> textFile[i]]

-----------------------------------------------------------------------------
Init ==
  /\ faissFile = NoFile /\ textFile = NoFile /\ metaFile = NoFile
  /\ jsonFile = NoFile /\ postFile = NoFile
  /\ ingested = {}
  /\ wpc = "idle" /\ vecs = <<>> /\ store = EmptyStore /\ rebuilt = FALSE
  /\ rpc = "down" /\ rVecs = <<>> /\ rStore = EmptyStore /\ rPost = <<>>

(* _ingest_until draws waves of whole tickers while too few filings are    *)
(* pending, only such that no filing of theirs is recorded.  A listing or  *)
(* a download may fail and the command may die: what the wave records are  *)
(* some of their filings.                                                  *)
IngestWave(got) ==
  /\ wpc = "idle"
  /\ jsonFile = NoFile \/ Loadable
  /\ Cardinality(Pending) < BatchSize
  /\ got # {} /\ \A f \in got, g \in ingested : TickerOf[f] # TickerOf[g]
  /\ Cardinality({TickerOf[f] : f \in got}) <= TickerWave
  /\ ingested' = ingested \cup got
  /\ UNCHANGED <<disk, writer, reader>>

(* Mutant of StartBatch: build_index is not told to append.                *)
StartBatchReplacing ==
  /\ wpc = "idle"
  /\ jsonFile = NoFile \/ Loadable
  /\ LET new == ListOf[NextBatch] IN
       /\ new # <<>>
       /\ vecs' = new
       /\ store' = [EmptyStore EXCEPT !.ids = new]
  /\ wpc' = "faiss"
  /\ UNCHANGED <<disk, ingested, rebuilt, reader>>

(* _run_batch, with fewer than BatchSize filings if the tickers left have  *)
(* yielded no more: the batch extends the index it finds, or makes the     *)
(* first one.  With no chunk in the batch build_index raises before        *)
(* anything is written.                                                    *)
StartBatch ==
  /\ wpc = "idle"
  /\ jsonFile = NoFile \/ Loadable
  /\ LET new == ListOf[NextBatch] IN
       /\ new # <<>>
       /\ vecs' = (IF Indexed # {} THEN faissFile ELSE <<>>) \o new
       /\ store' = (IF Indexed # {} THEN [metaFile EXCEPT !.ids = @ \o new]
                    ELSE [EmptyStore EXCEPT !.ids = new])
  /\ wpc' = "faiss"
  /\ UNCHANGED <<disk, ingested, rebuilt, reader>>

(* scripts/index.py build: a new index in place of whatever is there.      *)
StartFullBuild(filings) ==
  /\ wpc = "idle"
  /\ filings \in FullBuilds /\ filings \subseteq ingested
  /\ ListOf[filings] # <<>>
  /\ vecs' = ListOf[filings]
  /\ store' = [EmptyStore EXCEPT !.ids = ListOf[filings]]
  /\ wpc' = "faiss" /\ rebuilt' = TRUE
  /\ UNCHANGED <<disk, ingested, reader>>

(* Mutant of StartReindex: the retrained index is left empty.              *)
StartReindexUnadded ==
  /\ wpc = "idle" /\ Loadable
  /\ vecs' = <<>> /\ store' = metaFile
  /\ wpc' = "faiss"
  /\ UNCHANGED <<disk, ingested, rebuilt, reader>>

(* _run_reindex: the same vectors under new centroids.                     *)
StartReindex ==
  /\ wpc = "idle" /\ Loadable
  /\ vecs' = faissFile /\ store' = metaFile
  /\ wpc' = "faiss"
  /\ UNCHANGED <<disk, ingested, rebuilt, reader>>

WriterForgets == wpc' = "idle" /\ vecs' = <<>> /\ store' = EmptyStore

(* FaissIndex.save: vectors, then text (renamed into place), then          *)
(* metadata, then the settings ...                                         *)
SaveFaiss ==
  /\ wpc = "faiss"
  /\ faissFile' = vecs
  /\ wpc' = "text"
  /\ UNCHANGED <<textFile, metaFile, jsonFile, postFile, ingested, vecs, store, rebuilt, reader>>

(* Mutant of SaveText: the file is opened for writing before it is read.   *)
SaveTextInPlace ==
  /\ wpc = "text"
  /\ textFile' = [i \in 1..Len(store.ids) |->
                    IF i <= Len(store.layout) THEN Wrong ELSE store.ids[i]]
  /\ store' = [store EXCEPT !.layout = textFile']
  /\ wpc' = "meta"
  /\ UNCHANGED <<faissFile, metaFile, jsonFile, postFile, ingested, vecs, rebuilt, reader>>

SaveText ==
  /\ wpc = "text" /\ Wrong \notin Listed(Texts(store))
  /\ textFile' = Texts(store)
  /\ store' = [store EXCEPT !.layout = Texts(store)]
  /\ wpc' = "meta"
  /\ UNCHANGED <<faissFile, metaFile, jsonFile, postFile, ingested, vecs, rebuilt, reader>>

SaveMeta ==
  /\ wpc = "meta"
  /\ metaFile' = store
  /\ wpc' = "json"
  /\ UNCHANGED <<faissFile, textFile, jsonFile, postFile, ingested, vecs, store, rebuilt, reader>>

SaveJson ==
  /\ wpc = "json"
  /\ jsonFile' = "settings"
  /\ wpc' = "postings"
  /\ UNCHANGED <<faissFile, textFile, metaFile, postFile, ingested, vecs, store, rebuilt, reader>>

(* ... and BM25Retriever.save, over the whole store.                       *)
SavePostings ==
  /\ wpc = "postings"
  /\ postFile' = store.layout
  /\ WriterForgets
  /\ UNCHANGED <<faissFile, textFile, metaFile, jsonFile, ingested, rebuilt, reader>>

(* A text that cannot be decoded ends the save, and with it the command.   *)
SaveTextRaises ==
  /\ wpc = "text" /\ Wrong \in Listed(Texts(store))
  /\ Len(vecs) <= MaxVectors
  /\ WriterForgets
  /\ UNCHANGED <<disk, ingested, rebuilt, reader>>

WriterDies ==
  /\ wpc \in CrashAt /\ Len(vecs) <= MaxVectors
  /\ WriterForgets
  /\ UNCHANGED <<disk, ingested, rebuilt, reader>>

(* The writer dies while the file it writes in place is open; the text     *)
(* file is only ever renamed.                                              *)
WriterDiesWriting ==
  /\ wpc \in TornFiles /\ Len(vecs) <= MaxVectors
  /\ faissFile' = IF wpc = "faiss" THEN TornFile ELSE faissFile
  /\ metaFile' = IF wpc = "meta" THEN TornFile ELSE metaFile
  /\ jsonFile' = IF wpc = "json" THEN TornFile ELSE jsonFile
  /\ postFile' = IF wpc = "postings" THEN TornFile ELSE postFile
  /\ WriterForgets
  /\ UNCHANGED <<textFile, ingested, rebuilt, reader>>

-----------------------------------------------------------------------------
MayLoad == LoadWhileSaving \/ wpc = "idle"

(* load_retrievers: the settings, the vectors, the metadata, the postings. *)
ReadJson ==
  /\ rpc = "down" /\ MayLoad /\ Readable(jsonFile)
  /\ rpc' = "faiss"
  /\ UNCHANGED <<disk, ingested, writer, rVecs, rStore, rPost>>

ReadFaiss ==
  /\ rpc = "faiss" /\ MayLoad /\ Readable(faissFile)
  /\ rVecs' = faissFile
  /\ rpc' = "meta"
  /\ UNCHANGED <<disk, ingested, writer, rStore, rPost>>

ReadMeta ==
  /\ rpc = "meta" /\ MayLoad /\ Readable(metaFile)
  /\ rStore' = metaFile
  /\ rpc' = "postings"
  /\ UNCHANGED <<disk, ingested, writer, rVecs, rPost>>

(* Mutant of ReadPostings: takes postings of any size.                     *)
ReadPostingsUnchecked ==
  /\ rpc = "postings" /\ MayLoad
  /\ Readable(postFile)
  /\ rPost' = postFile
  /\ rpc' = "serving"
  /\ UNCHANGED <<disk, ingested, writer, rVecs, rStore>>

(* BM25Retriever.load keeps postings of the right size ...                 *)
ReadPostings ==
  /\ rpc = "postings" /\ MayLoad
  /\ Readable(postFile) /\ Len(postFile) = Len(rStore.ids)
  /\ rPost' = postFile
  /\ rpc' = "serving"
  /\ UNCHANGED <<disk, ingested, writer, rVecs, rStore>>

(* ... and rebuilds them from the store when there are none or they cover  *)
(* another number of chunks.                                               *)
RebuildPostings ==
  /\ rpc = "postings" /\ MayLoad
  /\ postFile = NoFile \/ (Readable(postFile) /\ Len(postFile) # Len(rStore.ids))
  /\ rPost' = TextsInOrder(rStore)
  /\ rpc' = "serving"
  /\ UNCHANGED <<disk, ingested, writer, rVecs, rStore>>

(* A load that meets an unreadable file fails; a server is stopped.        *)
ReaderStops ==
  /\ rpc # "down"
  /\ rpc' = "down" /\ rVecs' = <<>> /\ rStore' = EmptyStore /\ rPost' = <<>>
  /\ UNCHANGED <<disk, ingested, writer>>

-----------------------------------------------------------------------------
Save == SaveFaiss \/ SaveText \/ SaveMeta \/ SaveJson \/ SavePostings

Load == ReadJson \/ ReadFaiss \/ ReadMeta \/ ReadPostings \/ RebuildPostings

Ingest == \E got \in SUBSET Filings : IngestWave(got)

Next ==
  \/ Ingest
  \/ StartBatch
  \/ \E filings \in FullBuilds : StartFullBuild(filings)
  \/ StartReindex
  \/ Save \/ SaveTextRaises \/ WriterDies \/ WriterDiesWriting
  \/ Load \/ ReaderStops

Spec == Init /\ [][Next]_vars

(* A batch is under way that has not yet recorded its chunks.              *)
Growing == jsonFile = NoFile \/ Len(vecs) > Cardinality(Indexed)

(* Batches are run again and again, a save goes on unless the writer dies, *)
(* and every save of a batch is survived at some time.  Nothing is asked   *)
(* of the downloads.                                                       *)
Fairness ==
  /\ SF_vars(StartBatch)
  /\ WF_vars(Save)
  /\ SF_vars(Growing /\ SaveFaiss) /\ SF_vars(Growing /\ SaveText)
  /\ SF_vars(Growing /\ SaveMeta) /\ SF_vars(SaveJson) /\ SF_vars(SavePostings)

FairSpec == Spec /\ Fairness

-----------------------------------------------------------------------------
File == FilingList \cup {NoFile, TornFile}

(* Types: among them that the text file is never torn and no text that     *)
(* cannot be decoded is ever written to it.                                *)
TypeOK ==
  /\ faissFile \in File /\ textFile \in FilingList \cup {NoFile}
  /\ metaFile \in Store \cup {NoFile, TornFile}
  /\ jsonFile \in {NoFile, TornFile, "settings"} /\ postFile \in File
  /\ ingested \subseteq Filings
  /\ wpc \in Saves \cup {"idle"} /\ rebuilt \in BOOLEAN
  /\ vecs \in FilingList /\ store \in Store
  /\ rpc \in {"down", "faiss", "meta", "postings", "serving"}
  /\ rVecs \in FilingList /\ rStore \in Store /\ rPost \in FilingList

(* Between two commands the index on the disk is whole: vectors, texts and *)
(* metadata are about the same chunks in the same order.  scale.py says of *)
(* a batch that never completes that it "leaves the index untouched".      *)
FilesAgree ==
  wpc = "idle" /\ jsonFile # NoFile =>
    /\ Loadable
    /\ faissFile = metaFile.ids
    /\ textFile = metaFile.ids /\ metaFile.layout = textFile

(* No filing is indexed twice, whatever batch is interrupted and repeated: *)
(* "the index is the thing that must not be double-counted".               *)
IndexedOnce ==
  Readable(metaFile) =>
    \A i, j \in 1..Len(metaFile.ids) :
      metaFile.ids[i] = metaFile.ids[j] => i = j

(* While an index is only grown, a dense hit of a serving process is the   *)
(* chunk its vector was made from, with that chunk's own text, also while  *)
(* a batch is replacing the files.                                         *)
RightHits ==
  ~rebuilt /\ rpc = "serving" =>
    \A i \in 1..Len(rVecs) :
      /\ i <= Len(rStore.ids)
      /\ rStore.ids[i] = rVecs[i]
      /\ TextAt(rStore, i) = rVecs[i]

(* While an index is only grown, the text behind a chunk id that was       *)
(* loaded is that chunk's text, even if the load overlapped a save and     *)
(* whatever crash came before it: text is in place before the metadata     *)
(* that points into it.                                                    *)
TextBacked ==
  ~rebuilt /\ rpc \in {"postings", "serving"} =>
    \A i \in 1..Len(rStore.ids) : TextAt(rStore, i) = rStore.ids[i]

(* While an index is only grown, term statistics are those of the chunks   *)
(* they score: "the row index is the chunk id".                            *)
RightPostings == ~rebuilt /\ rpc = "serving" => rPost = rStore.ids

(* What a load would find, by the metadata                                 *)
Held == IF Loadable THEN metaFile.ids ELSE <<>>

(* A death has torn one of the files without which nothing is loaded.      *)
Broken == jsonFile # NoFile /\ TornFile \in {jsonFile, faissFile, metaFile}

Promised == INSTANCE Corpus
  WITH known <- ingested, held <- Held, out <- rebuilt \/ Broken

(* Whatever batch is interrupted where and repeated, the index grows as    *)
(* scale.py promises: by at most a batch of known filings that were not in *)
(* it, behind those that were, and nothing is ever taken out.  That holds  *)
(* as long as no full build replaces the index and no death tears one of   *)
(* the three files it is loaded from: after such a death nothing of it can *)
(* be loaded, which "leaves the index untouched" does not say.             *)
GrowsAsPromised == Promised!Spec

(* Every filing that is ingested and yields chunks is indexed in the end.  *)
(* (Of a ticker with a filing recorded no other filing is ever drawn.)     *)
AllIndexed == <>[](ingested \ Empty \subseteq Indexed)

-----------------------------------------------------------------------------
(* What the properties rest on.  Whatever holds metadata finds a text file *)
(* at all.                                                                 *)
TextInv ==
  /\ metaFile \in Store => textFile # NoFile
  /\ wpc \in {"meta", "json", "postings"} => textFile # NoFile
  /\ rpc \in {"postings", "serving"} => textFile # NoFile

NoRepeats(s) == \A i, j \in 1..Len(s) : s[i] = s[j] => i = j

(* No filing twice, in the metadata and in the index about to be saved.    *)
OnceInv ==
  /\ metaFile \in Store => NoRepeats(metaFile.ids)
  /\ NoRepeats(store.ids)

Prefix(s, t) == Len(s) <= Len(t) /\ \A i \in 1..Len(s) : s[i] = t[i]

(* Offsets and texts of a store are those of the text file.                *)
Backed(st) == textFile # NoFile /\ st.layout = st.ids /\ Prefix(st.ids, textFile)

(* The writer: what it has not buffered stands in the text file, and what  *)
(* it has saved so far is there.                                           *)
WriterInv ==
  /\ wpc \in {"faiss", "text"} =>
       /\ Prefix(store.layout, store.ids)
       /\ store.layout # <<>> => textFile # NoFile /\ Prefix(store.layout, textFile)
  /\ wpc \in {"meta", "json", "postings"} =>
       store.layout = store.ids /\ textFile = store.ids
  /\ wpc \in {"json", "postings"} => metaFile = store
  /\ wpc = "postings" => jsonFile = "settings"

(* While the index only grows: all that is saved or loaded is a beginning  *)
(* of the text file and of the newest metadata, ...                        *)
Newest(s) == Prefix(s, textFile) /\ (metaFile \in Store => Prefix(s, metaFile.ids))

DiskInv ==
  /\ jsonFile = NoFile => rpc = "down" /\ postFile \notin FilingList
  /\ jsonFile # NoFile /\ metaFile \in Store => Backed(metaFile)
  /\ postFile \in FilingList => textFile # NoFile /\ Newest(postFile)
  /\ rpc \in {"postings", "serving"} => Backed(rStore) /\ Newest(rStore.ids)

(* ... and the writer adds a batch of new filings at most to what is held. *)
HeldIds == IF jsonFile = NoFile THEN <<>> ELSE metaFile.ids

BatchInv ==
  wpc # "idle" =>
    /\ jsonFile # NoFile => Loadable
    /\ wpc # "faiss" => faissFile \in FilingList
    /\ jsonFile = NoFile => store.ids # <<>>
    /\ Prefix(HeldIds, store.ids)
    /\ Len(store.ids) <= Len(HeldIds) + BatchSize
    /\ Listed(store.ids) \subseteq ingested \cup Listed(HeldIds)

GrowthInv == WriterInv /\ DiskInv /\ BatchInv

Grown == ~rebuilt => GrowthInv

(* Where deaths leave the files as they were or all of them new: the files *)
(* agree outside a save, ...                                               *)
CleanInv ==
  /\ jsonFile # TornFile
  /\ wpc \in {"idle", "faiss"} /\ jsonFile # NoFile =>
       /\ faissFile \in FilingList /\ metaFile \in Store
       /\ faissFile = metaFile.ids
       /\ textFile = metaFile.ids /\ metaFile.layout = textFile
  /\ wpc # "idle" => vecs = store.ids
  /\ wpc \in {"text", "meta", "json", "postings"} => faissFile = vecs

(* ... and the vectors of a process that loaded them then are the first of *)
(* its metadata.                                                           *)
LoadedInv ==
  /\ rpc = "meta" => metaFile \in Store /\ Prefix(rVecs, metaFile.ids)
  /\ rpc \in {"postings", "serving"} => Prefix(rVecs, rStore.ids)
=============================================================================
