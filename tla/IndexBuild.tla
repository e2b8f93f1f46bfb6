----------------------------- MODULE IndexBuild -----------------------------
(***************************************************************************)
(* The resumable index build: parse and chunk (build_chunks), embed        *)
(* (_embed_with_checkpoint), hand the result to the index, drop the        *)
(* checkpoints (build_index).  The process may die at any point of CrashAt *)
(* and is started again, with the same request or with another one; only   *)
(* the four checkpoint files survive.                                      *)
(*                                                                         *)
(* A chunk is <<filing, k, cfg>>: the k-th chunk a filing yields under the *)
(* splitter and model settings cfg.  A row of the embedding file is the    *)
(* vector of one chunk under one model, or Garbled when its floats are not *)
(* the floats of any single vector.                                        *)
(***************************************************************************)
EXTENDS Integers, Sequences, FiniteSets

CONSTANTS
  Filings,          \* filing ids of the manifest
  Rank,             \* Rank[f]: the position of f in the manifest
  Missing,          \* filings whose raw document is not in the object store
  Cfgs,             \* splitter and embedding settings a fingerprint records
  Count,            \* Count[f]: how many chunks the sections of f yield
  Dim,              \* Dim[c]: floats per vector of the model of c
  Requests,         \* the builds that may be asked for
  CheckpointEvery,  \* CHUNK_CHECKPOINT_EVERY
  EmbedBatch,       \* EMBED_BATCH
  CrashAt,          \* points between two steps where the process may die
  MaxItems,         \* bound: no death once a checkpoint file is longer
  TornFiles,        \* files a death inside their write may leave half written
  NoFile, TornFile, Garbled, NoRequest, NoBuild

Steps == {"clearRows", "clearMeta", "chunk", "saveChunks", "saveManifest",
          "loadRows", "embed", "publish",
          "dropChunks", "dropManifest", "dropRows", "dropMeta"}

Chunk == Filings \X Nat \X Cfgs
Row   == (Chunk \X Cfgs) \cup {Garbled}
Request  == [filings : SUBSET Filings, cfg : Cfgs, ckpt : BOOLEAN]
Fingerprints == [filings : SUBSET Filings, cfg : Cfgs]
ManifestRecord ==
  [fp : Fingerprints, whole : BOOLEAN, completed : SUBSET Filings]

ASSUME BuildAssumption ==
  /\ Missing \subseteq Filings
  /\ IsFiniteSet(Filings)
  /\ Rank \in [Filings -> Nat]
  /\ Count \in [Filings -> Nat]
  /\ Dim \in [Cfgs -> Nat \ {0}]
  /\ Requests \subseteq Request
  /\ CheckpointEvery \in Nat \ {0}
  /\ EmbedBatch \in Nat \ {0}
  /\ CrashAt \subseteq Steps
  /\ MaxItems \in Nat
  /\ TornFiles \subseteq {"manifest", "meta", "rows"}

ASSUME SentinelAssumption ==
  /\ NoFile # TornFile
  /\ NoFile \notin Nat \cup Seq(Chunk) \cup ManifestRecord
  /\ TornFile \notin Nat \cup ManifestRecord
  /\ NoBuild \notin [req : Requests, chunks : Seq(Chunk), vecs : Seq(Row)]

VARIABLES
  chunkFile,  \* chunks.checkpoint.jsonl
  manifest,   \* chunks.checkpoint.json: fingerprint and completed filings
  embRows,    \* embeddings.checkpoint.f32: its whole rows ...
  embTail,    \* ... and the number of floats after the last whole row
  embMeta,    \* embeddings.checkpoint.f32.json: the recorded dimension
  pc, req,    \* where the build stands and what it was asked for
  chunks, done, todo, index,  \* locals of build_chunks
  vecs,       \* the vectors of _embed_with_checkpoint
  handed      \* what the last build gave to index.add (history)

disk   == <<chunkFile, manifest, embRows, embTail, embMeta>>
memory == <<req, chunks, done, todo, index, vecs>>
vars   == <<disk, pc, memory, handed>>

-----------------------------------------------------------------------------
Least(a, b) == IF a <= b THEN a ELSE b

Fingerprint(r) == [filings |-> r.filings, cfg |-> r.cfg]

(* chunk_filing: the chunks of one filing, in order.                       *)
ChunkFiling(f, c) == [k \in 1..Count[f] |-> <<f, k, c>>]

(* embed_documents under the model of c.                                   *)
EmbedDocuments(cs, c) == [i \in 1..Len(cs) |-> <<cs[i], c>>]

(* Mutant of Reusable: the fingerprint is not compared.                    *)
ReusableByAnyone(r) ==
  chunkFile # NoFile /\ manifest \notin {NoFile, TornFile}

(* load_partial finds a checkpoint that applies to r.                      *)
Reusable(r) ==
  /\ chunkFile # NoFile
  /\ manifest \notin {NoFile, TornFile}
  /\ manifest.fp = Fingerprint(r)

(* EmbeddingCheckpoint.load: whole rows, unless they cannot belong here.   *)
LoadRows(n, d) ==
  IF embMeta = d /\ Len(embRows) <= n THEN embRows ELSE <<>>

(* Mutant of RowsAfter: the file is opened for writing, not appending.     *)
RowsOverwritten(rows, extra, d) == rows

(* Mutant of RowsAfter: the batch never reaches the file.                  *)
RowsUnchanged(rows, extra, d) == embRows

(* Appending n rows and a few more floats to the file.  The file is never  *)
(* cut back to whole rows, so behind a tail every row comes out garbled.   *)
RowsAfter(rows, extra, d) ==
  embRows \o (IF embTail = 0 THEN rows ELSE [i \in 1..Len(rows) |-> Garbled])
          \o (IF embTail + extra >= d THEN <<Garbled>> ELSE <<>>)

TailAfter(extra, d) == (embTail + extra) % d

(* The process is gone: nothing in memory is left.                         *)
Forget ==
  /\ pc' = "idle"
  /\ req' = NoRequest
  /\ chunks' = <<>> /\ done' = {} /\ todo' = {} /\ index' = 0
  /\ vecs' = <<>>

-----------------------------------------------------------------------------
Init ==
  /\ chunkFile = NoFile /\ manifest = NoFile
  /\ embRows = <<>> /\ embTail = 0 /\ embMeta = NoFile
  /\ pc = "idle" /\ req = NoRequest
  /\ chunks = <<>> /\ done = {} /\ todo = {} /\ index = 0
  /\ vecs = <<>>
  /\ handed = NoBuild

(* build_chunks returns a complete checkpoint as it is.                    *)
StartWhole(r) ==
  /\ pc = "idle"
  /\ r.ckpt /\ Reusable(r) /\ manifest.whole
  /\ pc' = "loadRows" /\ req' = r
  /\ chunks' = chunkFile /\ done' = manifest.completed
  /\ UNCHANGED <<disk, todo, index, vecs, handed>>

(* Mutant of StartPartial: finished filings are not taken out of the work. *)
StartPartialRedoing(r) ==
  /\ pc = "idle"
  /\ r.ckpt /\ Reusable(r) /\ ~manifest.whole
  /\ pc' = "clearRows" /\ req' = r
  /\ chunks' = chunkFile /\ done' = manifest.completed
  /\ todo' = r.filings \ Missing
  /\ UNCHANGED <<disk, index, vecs, handed>>

(* build_chunks goes on from the filings a partial checkpoint covers.      *)
StartPartial(r) ==
  /\ pc = "idle"
  /\ r.ckpt /\ Reusable(r) /\ ~manifest.whole
  /\ pc' = "clearRows" /\ req' = r
  /\ chunks' = chunkFile /\ done' = manifest.completed
  /\ todo' = (r.filings \ manifest.completed) \ Missing
  /\ UNCHANGED <<disk, index, vecs, handed>>

(* build_chunks finds nothing it may reuse, or was told not to look.       *)
StartFresh(r) ==
  /\ pc = "idle"
  /\ ~(r.ckpt /\ Reusable(r))
  /\ pc' = IF r.ckpt THEN "clearRows" ELSE "chunk"
  /\ req' = r
  /\ todo' = r.filings \ Missing
  /\ UNCHANGED <<disk, chunks, done, index, vecs, handed>>

(* Mutant of ClearRows: the vectors of the previous chunk list stay.       *)
ClearRowsForgotten ==
  /\ pc = "clearRows"
  /\ pc' = "clearMeta"
  /\ UNCHANGED <<disk, memory, handed>>

(* clear_embeddings: the vectors first, their metadata second.             *)
ClearRows ==
  /\ pc = "clearRows"
  /\ embRows' = <<>> /\ embTail' = 0
  /\ pc' = "clearMeta"
  /\ UNCHANGED <<chunkFile, manifest, embMeta, memory, handed>>

ClearMeta ==
  /\ pc = "clearMeta"
  /\ embMeta' = NoFile
  /\ pc' = "chunk"
  /\ UNCHANGED <<chunkFile, manifest, embRows, embTail, memory, handed>>

(* Mutant of ChunkOne: saves at the turn after the one they are due at.    *)
ChunkOneSavingLate(f) ==
  /\ pc = "chunk" /\ f \in todo
  /\ \A g \in todo : Rank[f] <= Rank[g]
  /\ chunks' = chunks \o ChunkFiling(f, req.cfg)
  /\ done' = done \cup {f}
  /\ todo' = todo \ {f}
  /\ index' = index + 1
  /\ pc' = IF req.ckpt /\ index' > 1 /\ index % CheckpointEvery = 0 /\ todo' # {}
           THEN "saveChunks" ELSE "chunk"
  /\ UNCHANGED <<disk, req, vecs, handed>>

(* One turn of the chunking loop, in the manifest's order.                 *)
ChunkOne(f) ==
  /\ pc = "chunk" /\ f \in todo
  /\ \A g \in todo : Rank[f] <= Rank[g]
  /\ chunks' = chunks \o ChunkFiling(f, req.cfg)
  /\ done' = done \cup {f}
  /\ todo' = todo \ {f}
  /\ index' = index + 1
  /\ pc' = IF req.ckpt /\ index' % CheckpointEvery = 0 /\ todo' # {}
           THEN "saveChunks" ELSE "chunk"
  /\ UNCHANGED <<disk, req, vecs, handed>>

ChunkingDone ==
  /\ pc = "chunk" /\ todo = {}
  /\ pc' = IF req.ckpt THEN "saveChunks" ELSE "loadRows"
  /\ UNCHANGED <<disk, memory, handed>>

(* ChunkCheckpoint.save: the chunk file is renamed into place ...          *)
SaveChunks ==
  /\ pc = "saveChunks"
  /\ chunkFile' = chunks
  /\ pc' = "saveManifest"
  /\ UNCHANGED <<manifest, embRows, embTail, embMeta, memory, handed>>

(* Mutant of SaveManifest: the filings wanted are noted, not those done.   *)
SaveManifestCovered ==
  /\ pc = "saveManifest"
  /\ manifest' = [fp |-> Fingerprint(req), whole |-> todo = {},
                  completed |-> req.filings]
  /\ pc' = IF todo = {} THEN "loadRows" ELSE "chunk"
  /\ UNCHANGED <<chunkFile, embRows, embTail, embMeta, memory, handed>>

(* ... and then the manifest is written over.                              *)
SaveManifest ==
  /\ pc = "saveManifest"
  /\ manifest' = [fp |-> Fingerprint(req), whole |-> todo = {}, completed |-> done]
  /\ pc' = IF todo = {} THEN "loadRows" ELSE "chunk"
  /\ UNCHANGED <<chunkFile, embRows, embTail, embMeta, memory, handed>>

(* build_index refuses an empty chunk list; the checkpoint stays.          *)
RaiseNoChunks ==
  /\ pc = "loadRows" /\ chunks = <<>>
  /\ Forget
  /\ UNCHANGED <<disk, handed>>

LoadCheckpointedRows ==
  /\ pc = "loadRows" /\ chunks # <<>>
  /\ vecs' = IF req.ckpt THEN LoadRows(Len(chunks), Dim[req.cfg]) ELSE <<>>
  /\ pc' = "embed"
  /\ UNCHANGED <<disk, req, chunks, done, todo, index, handed>>

(* The rows of the next batch.                                             *)
NextBatch ==
  EmbedDocuments(
    SubSeq(chunks, Len(vecs) + 1, Least(Len(vecs) + EmbedBatch, Len(chunks))),
    req.cfg)

(* EmbeddingCheckpoint.append writes the metadata when there is none ...   *)
WriteMeta ==
  /\ pc = "embed" /\ Len(vecs) < Len(chunks)
  /\ req.ckpt /\ embMeta = NoFile
  /\ embMeta' = Dim[req.cfg]
  /\ UNCHANGED <<chunkFile, manifest, embRows, embTail, pc, memory, handed>>

(* ... and appends the batch.                                              *)
EmbedOne ==
  /\ pc = "embed" /\ Len(vecs) < Len(chunks)
  /\ req.ckpt => embMeta # NoFile
  /\ vecs' = vecs \o NextBatch
  /\ embRows' = IF req.ckpt THEN RowsAfter(NextBatch, 0, Dim[req.cfg]) ELSE embRows
  /\ UNCHANGED <<chunkFile, manifest, embTail, embMeta, pc,
                 req, chunks, done, todo, index, handed>>

EmbeddingDone ==
  /\ pc = "embed" /\ Len(vecs) >= Len(chunks)
  /\ pc' = "publish"
  /\ UNCHANGED <<disk, memory, handed>>

(* index.add and the saves that follow it (detailed in IndexStore).        *)
Publish ==
  /\ pc = "publish"
  /\ handed' = [req |-> req, chunks |-> chunks, vecs |-> vecs]
  /\ IF req.ckpt THEN pc' = "dropChunks" /\ UNCHANGED memory ELSE Forget
  /\ UNCHANGED disk

(* ChunkCheckpoint.clear, file by file.                                    *)
DropChunks ==
  /\ pc = "dropChunks"
  /\ chunkFile' = NoFile
  /\ pc' = "dropManifest"
  /\ UNCHANGED <<manifest, embRows, embTail, embMeta, memory, handed>>

DropManifest ==
  /\ pc = "dropManifest"
  /\ manifest' = NoFile
  /\ pc' = "dropRows"
  /\ UNCHANGED <<chunkFile, embRows, embTail, embMeta, memory, handed>>

DropRows ==
  /\ pc = "dropRows"
  /\ embRows' = <<>> /\ embTail' = 0
  /\ pc' = "dropMeta"
  /\ UNCHANGED <<chunkFile, manifest, embMeta, memory, handed>>

DropMeta ==
  /\ pc = "dropMeta"
  /\ embMeta' = NoFile
  /\ Forget
  /\ UNCHANGED <<chunkFile, manifest, embRows, embTail, handed>>

-----------------------------------------------------------------------------
FilesSmall ==
  /\ Len(embRows) <= MaxItems
  /\ chunkFile # NoFile => Len(chunkFile) <= MaxItems

(* The process dies between two steps.                                     *)
Crash ==
  /\ pc \in CrashAt /\ FilesSmall
  /\ Forget
  /\ UNCHANGED <<disk, handed>>

(* It dies inside the write of the manifest ...                            *)
CrashInManifest ==
  /\ pc = "saveManifest" /\ "manifest" \in TornFiles
  /\ manifest' = TornFile
  /\ Forget
  /\ UNCHANGED <<chunkFile, embRows, embTail, embMeta, handed>>

(* ... inside the write of the embedding metadata ...                      *)
CrashInMeta ==
  /\ pc = "embed" /\ Len(vecs) < Len(chunks)
  /\ req.ckpt /\ embMeta = NoFile /\ "meta" \in TornFiles
  /\ embMeta' = TornFile
  /\ Forget
  /\ UNCHANGED <<chunkFile, manifest, embRows, embTail, handed>>

(* ... or inside an append, with n rows and t more floats on the disk.     *)
CrashInAppend ==
  /\ pc = "embed" /\ Len(vecs) < Len(chunks)
  /\ req.ckpt /\ embMeta # NoFile /\ "embed" \in CrashAt
  /\ FilesSmall
  /\ \E n \in 0..(Len(NextBatch) - 1), t \in 0..(Dim[req.cfg] - 1) :
       /\ t > 0 => "rows" \in TornFiles
       /\ embRows' = RowsAfter(SubSeq(NextBatch, 1, n), t, Dim[req.cfg])
       /\ embTail' = TailAfter(t, Dim[req.cfg])
  /\ Forget
  /\ UNCHANGED <<chunkFile, manifest, embMeta, handed>>

Start == \E r \in Requests : StartWhole(r) \/ StartPartial(r) \/ StartFresh(r)

(* What a running build does by itself.                                    *)
Step ==
  \/ ClearRows \/ ClearMeta
  \/ \E f \in Filings : ChunkOne(f)
  \/ ChunkingDone \/ SaveChunks \/ SaveManifest
  \/ RaiseNoChunks \/ LoadCheckpointedRows
  \/ WriteMeta \/ EmbedOne \/ EmbeddingDone \/ Publish
  \/ DropChunks \/ DropManifest \/ DropRows \/ DropMeta

Die == Crash \/ CrashInManifest \/ CrashInMeta \/ CrashInAppend

Next == Start \/ Step \/ Die

Spec == Init /\ [][Next]_vars

-----------------------------------------------------------------------------
(* Types: among them what each file can hold after any death.              *)
TypeOK ==
  /\ chunkFile \in Seq(Chunk) \cup {NoFile}
  /\ manifest \in ManifestRecord \cup {NoFile, TornFile}
  /\ embRows \in Seq(Row)
  /\ embTail \in Nat
  /\ embMeta \in Nat \cup {NoFile, TornFile}
  /\ pc \in Steps \cup {"idle"}
  /\ req \in Requests \cup {NoRequest}
  /\ pc # "idle" => req \in Requests
  /\ chunks \in Seq(Chunk)
  /\ done \subseteq Filings
  /\ todo \subseteq Filings
  /\ index \in Nat
  /\ vecs \in Seq(Row)

(* rows are the vectors of the first chunks of cs, in their order.         *)
Aligned(rows, cs, c) ==
  /\ Len(rows) <= Len(cs)
  /\ \A i \in 1..Len(rows) : rows[i] = <<cs[i], c>>

(* cs holds nothing but chunks of the filings D under c, each of them, and *)
(* none of them twice.                                                     *)
OnlyOf(cs, D, c) ==
  \A i \in 1..Len(cs) :
    cs[i][1] \in D /\ cs[i][2] \in 1..Count[cs[i][1]] /\ cs[i][3] = c
AllOf(cs, D, c) ==
  \A f \in D : \A k \in 1..Count[f] : \E i \in 1..Len(cs) : cs[i] = <<f, k, c>>
NoRepeats(cs) ==
  \A i, j \in 1..Len(cs) : cs[i] = cs[j] => i = j
ExactlyOnce(cs, D, c) == OnlyOf(cs, D, c) /\ AllOf(cs, D, c) /\ NoRepeats(cs)

(* Where build_chunks can be interrupted.                                  *)
Chunking == {"clearRows", "clearMeta", "chunk", "saveChunks", "saveManifest"}

(* The filings a build of r would not have to chunk again.                 *)
Saved(r) == IF Reusable(r) THEN manifest.completed ELSE {}

(* Row i that index.add receives is the vector of chunk i: no sequence of  *)
(* builds, deaths and resumptions pairs a vector with another chunk, which *)
(* is what clear_embeddings and the load checks are for.                   *)
RowsAligned ==
  pc = "publish" => Len(vecs) = Len(chunks) /\ Aligned(vecs, chunks, req.cfg)

(* build_chunks returns the chunks of exactly the filings asked for, under *)
(* the settings asked for, none left out and none repeated, wherever it    *)
(* resumed from.                                                           *)
ChunkedOnce ==
  pc \in {"loadRows", "embed", "publish"} =>
    ExactlyOnce(chunks, req.filings \ Missing, req.cfg)

(* Where one build is started over and over, build_chunks returns a list   *)
(* with every chunk in it, wherever the builds before it died - unless one *)
(* died in clear() between chunk file and manifest.  "An interrupted save  *)
(* never leaves a partial checkpoint that looks complete" (save) is not    *)
(* true then: the manifest that is left makes the next partial chunk file  *)
(* look complete.                                                          *)
NothingLost ==
  pc \in {"loadRows", "embed", "publish"} =>
    AllOf(chunks, req.filings \ Missing, req.cfg)

(* A death during chunking costs at most CHUNK_CHECKPOINT_EVERY filings of *)
(* work: of the filings done, all but so many are covered by what a        *)
(* restart of the build accepts, also if the death falls into a save.  The *)
(* one exception is a death that changes the manifest: that is written in  *)
(* place, a torn one is not accepted, and all the work is lost.            *)
BoundedLoss ==
  [][\A r \in Requests :
       /\ req = r /\ r.ckpt /\ pc \in Chunking
       /\ pc' = "idle" /\ UNCHANGED manifest
       => Cardinality(done \ Saved(r)') <= CheckpointEvery]_vars

(* Why rows stay aligned.  On disk: vectors exist only while metadata does *)
(* and readable metadata beside a chunk file means that the manifest is    *)
(* complete and the rows belong to that very chunk file.                   *)
DiskAligned ==
  /\ embTail = 0
  /\ embMeta = NoFile => embRows = <<>>
  /\ embMeta \in Nat /\ chunkFile # NoFile =>
       /\ manifest \in ManifestRecord
       /\ manifest.whole
       /\ embMeta = Dim[manifest.fp.cfg]
       /\ Aligned(embRows, chunkFile, manifest.fp.cfg)

(* In the process: a chunk list is rewritten only after the vectors of the *)
(* previous one are gone, and the stages after chunking work on the chunk  *)
(* list that is on the disk.                                               *)
StagesAligned ==
  /\ pc \in {"clearRows", "clearMeta", "saveChunks", "saveManifest",
             "dropChunks", "dropManifest", "dropRows", "dropMeta"} => req.ckpt
  /\ pc \in {"clearMeta", "chunk", "saveChunks", "saveManifest"} /\ req.ckpt =>
       embRows = <<>>
  /\ pc \in {"chunk", "saveChunks", "saveManifest"} /\ req.ckpt => embMeta = NoFile
  /\ pc = "saveManifest" => chunkFile = chunks
  /\ pc \in {"loadRows", "embed", "publish"} /\ req.ckpt =>
       /\ chunkFile = chunks
       /\ manifest \in ManifestRecord /\ manifest.whole
       /\ manifest.fp = Fingerprint(req)
  /\ pc = "embed" => Aligned(vecs, chunks, req.cfg)
  /\ pc = "embed" /\ req.ckpt /\ embMeta # TornFile => embRows = vecs
  /\ pc \in {"dropManifest", "dropRows", "dropMeta"} => chunkFile = NoFile
  /\ pc = "dropMeta" => embRows = <<>>

AlignmentInv == DiskAligned /\ StagesAligned /\ RowsAligned

(* Why chunks are complete and unrepeated, as long as no death falls       *)
(* between the two writes of a save: the chunk file holds exactly the      *)
(* filings the manifest says it does ...                                   *)
DiskOnce ==
  manifest \in ManifestRecord /\ chunkFile # NoFile /\ pc # "saveManifest" =>
    /\ ExactlyOnce(chunkFile, manifest.completed, manifest.fp.cfg)
    /\ manifest.completed \subseteq manifest.fp.filings \ Missing
    /\ manifest.whole => manifest.completed = manifest.fp.filings \ Missing

(* ... and the chunk list in memory the filings done so far.               *)
MemoryOnce ==
  /\ pc = "idle" => chunks = <<>> /\ done = {} /\ todo = {}
  /\ pc \in {"clearRows", "clearMeta", "chunk", "saveChunks", "saveManifest",
             "loadRows", "embed", "publish"} =>
       /\ ExactlyOnce(chunks, done, req.cfg)
       /\ done \cap todo = {}
       /\ done \cup todo = req.filings \ Missing
  /\ pc \in {"loadRows", "embed", "publish"} => todo = {}
  /\ pc = "saveManifest" => chunkFile = chunks
  /\ pc \in {"dropManifest", "dropRows", "dropMeta"} => chunkFile = NoFile

OnceInv == DiskOnce /\ MemoryOnce

(* Why so little is lost: filings since the last save are counted.         *)
LossInv ==
  /\ pc = "idle" => done = {}
  /\ pc \in {"idle", "clearRows", "clearMeta"} => index = 0
  /\ pc \in {"clearRows", "clearMeta", "chunk", "saveChunks"} /\ req.ckpt =>
       /\ Saved(req) \subseteq done
       /\ \/ Cardinality(done \ Saved(req)) <= index % CheckpointEvery
          \/ /\ pc = "saveChunks" \/ todo = {}
             /\ Cardinality(done \ Saved(req)) <= CheckpointEvery
  /\ pc = "saveManifest" =>
       /\ chunkFile = chunks
       /\ req.ckpt => Cardinality(done \ Saved(req)) <= CheckpointEvery

(* Why no chunk is missing where one build is started over and over: the   *)
(* chunk file is never behind the manifest beside it, ...                  *)
DiskComplete ==
  /\ manifest \in ManifestRecord =>
       /\ \E r \in Requests : manifest.fp = Fingerprint(r)
       /\ manifest.whole => manifest.fp.filings \ Missing \subseteq manifest.completed
       /\ IF chunkFile = NoFile THEN pc = "dropManifest"
          ELSE AllOf(chunkFile, manifest.completed, manifest.fp.cfg)
  /\ pc \in {"dropManifest", "dropRows", "dropMeta"} => chunkFile = NoFile

(* ... nor is the chunk list that is to replace it.                        *)
MemoryComplete ==
  /\ pc = "idle" => chunks = <<>> /\ done = {} /\ todo = {}
  /\ pc \in {"clearRows", "clearMeta", "chunk", "saveChunks", "saveManifest",
             "loadRows", "embed", "publish"} =>
       /\ AllOf(chunks, done, req.cfg)
       /\ req.filings \ Missing \subseteq done \cup todo
  /\ pc \in {"loadRows", "embed", "publish"} => todo = {}
  /\ pc \in {"clearRows", "clearMeta", "saveChunks", "saveManifest"} => req.ckpt
  /\ pc \in {"clearRows", "clearMeta", "chunk", "saveChunks", "saveManifest"}
     /\ req.ckpt /\ manifest \in ManifestRecord => manifest.completed \subseteq done
  /\ pc = "saveManifest" => chunkFile = chunks

CompleteInv == DiskComplete /\ MemoryComplete

(* Every batch embedded so far would be read back by a restart: "a restart *)
(* continues from that row" (EmbeddingCheckpoint).                         *)
EmbeddingDurable ==
  pc = "embed" /\ req.ckpt =>
    LoadRows(Len(chunks), Dim[req.cfg]) = vecs

(* The build is always run again, and there is no step, nor any turn of    *)
(* the chunking loop between two saves, at which all runs die.             *)
Fairness ==
  /\ WF_vars(Start)
  /\ SF_vars(ClearRows) /\ SF_vars(ClearMeta)
  /\ \A i \in 0..(CheckpointEvery - 1) :
       SF_vars(index % CheckpointEvery = i /\ \E f \in Filings : ChunkOne(f))
  /\ SF_vars(ChunkingDone) /\ SF_vars(SaveChunks) /\ SF_vars(SaveManifest)
  /\ SF_vars(LoadCheckpointedRows)
  /\ SF_vars(WriteMeta) /\ SF_vars(EmbedOne) /\ SF_vars(EmbeddingDone)
  /\ SF_vars(Publish)
  /\ SF_vars(DropChunks) /\ SF_vars(DropManifest)
  /\ SF_vars(DropRows) /\ SF_vars(DropMeta)

FairSpec == Spec /\ Fairness

Promise == INSTANCE BuildPromise

(* The checkpointed, crashing, resuming build implements the build that    *)
(* never stops: what reaches the index is what was asked for.              *)
KeepsPromise == Promise!Spec

(* However often it is interrupted, a build gets through: what one attempt *)
(* checkpoints is never done again, so the attempts add up.                *)
GetsThrough == []<>(pc = "publish")

=============================================================================
