------------------------- MODULE IndexBuild_proofs -------------------------
(***************************************************************************)
(* Proofs about IndexBuild for every set of filings, every request, every  *)
(* batch size and every number of crashes.                                 *)
(***************************************************************************)
EXTENDS IndexBuild, SequenceTheorems, FiniteSetTheorems, TLAPS

(* chunk_filing yields a list of chunks.                                   *)
LEMMA ChunkFilingType ==
  ASSUME NEW f \in Filings, NEW c \in Cfgs
  PROVE  ChunkFiling(f, c) \in Seq(Chunk)
  BY BuildAssumption DEF ChunkFiling, Chunk

(* embed_documents yields one row per chunk.                               *)
LEMMA EmbedType ==
  ASSUME NEW cs \in Seq(Chunk), NEW c \in Cfgs
  PROVE  /\ EmbedDocuments(cs, c) \in Seq(Row)
         /\ Len(EmbedDocuments(cs, c)) = Len(cs)
         /\ \A i \in 1..Len(cs) : EmbedDocuments(cs, c)[i] = <<cs[i], c>>
  <1>1. Len(cs) \in Nat
    OBVIOUS
  <1>2. \A i \in 1..Len(cs) : <<cs[i], c>> \in Row
    BY DEF Row
  <1> QED BY <1>1, <1>2 DEF EmbedDocuments

(* The next batch is the rows of the chunks that follow those embedded.    *)
LEMMA BatchProperties ==
  ASSUME TypeOK, req \in Requests, Len(vecs) < Len(chunks)
  PROVE  /\ NextBatch \in Seq(Row)
         /\ Len(NextBatch) = Least(Len(vecs) + EmbedBatch, Len(chunks)) - Len(vecs)
         /\ Len(vecs) + Len(NextBatch) <= Len(chunks)
         /\ \A i \in 1..Len(NextBatch) :
              NextBatch[i] = <<chunks[Len(vecs) + i], req.cfg>>
  <1> DEFINE m == Len(vecs) + 1
             n == Least(Len(vecs) + EmbedBatch, Len(chunks))
             b == SubSeq(chunks, m, n)
  <1>1. chunks \in Seq(Chunk) /\ vecs \in Seq(Row) /\ req.cfg \in Cfgs
    BY BuildAssumption DEF TypeOK, Request
  <1>2. m \in Nat /\ n \in Nat /\ m >= 1 /\ n <= Len(chunks) /\ m <= n
    BY <1>1, BuildAssumption DEF Least
  <1>3. /\ b \in Seq(Chunk)
        /\ Len(b) = n - Len(vecs)
        /\ \A i \in 1..Len(b) : b[i] = chunks[Len(vecs) + i]
    BY <1>1, <1>2
  <1>4. NextBatch = EmbedDocuments(b, req.cfg)
    BY DEF NextBatch
  <1> HIDE DEF b
  <1>5. /\ NextBatch \in Seq(Row)
        /\ Len(NextBatch) = Len(b)
        /\ \A i \in 1..Len(b) : NextBatch[i] = <<b[i], req.cfg>>
    BY <1>1, <1>3, <1>4, EmbedType
  <1> QED BY <1>1, <1>2, <1>3, <1>5

(* Whatever is appended, the file holds rows.                              *)
LEMMA RowsAfterType ==
  ASSUME TypeOK, NEW rows \in Seq(Row), NEW t \in Nat, NEW d \in Nat \ {0}
  PROVE  /\ RowsAfter(rows, t, d) \in Seq(Row)
         /\ TailAfter(t, d) \in Nat
  <1>1. embRows \in Seq(Row) /\ embTail \in Nat
    BY DEF TypeOK
  <1>2. Garbled \in Row
    BY DEF Row
  <1>3. [i \in 1..Len(rows) |-> Garbled] \in Seq(Row)
    BY <1>2
  <1>4. <<Garbled>> \in Seq(Row) /\ <<>> \in Seq(Row)
    BY <1>2
  <1>5. (IF embTail = 0 THEN rows ELSE [i \in 1..Len(rows) |-> Garbled]) \in Seq(Row)
    BY <1>3
  <1>6. (IF embTail + t >= d THEN <<Garbled>> ELSE <<>>) \in Seq(Row)
    BY <1>4
  <1>7. RowsAfter(rows, t, d) \in Seq(Row)
    BY <1>1, <1>5, <1>6 DEF RowsAfter
  <1>8. TailAfter(t, d) \in Nat
    BY <1>1 DEF TailAfter
  <1> QED BY <1>7, <1>8

-----------------------------------------------------------------------------
LEMMA TypeInit == Init => TypeOK
  BY DEF Init, TypeOK

LEMMA TypeNext == TypeOK /\ [Next]_vars => TypeOK'
  <1> SUFFICES ASSUME TypeOK, [Next]_vars PROVE TypeOK'
    OBVIOUS
  <1> USE DEF TypeOK, Steps, Forget, disk, memory
  <1>1. ASSUME NEW r \in Requests, StartWhole(r) PROVE TypeOK'
    <2>1. r \in Request
      BY BuildAssumption
    <2>2. manifest \in ManifestRecord /\ chunkFile \in Seq(Chunk)
      BY <1>1 DEF StartWhole, Reusable
    <2> QED BY <1>1, <2>1, <2>2 DEF StartWhole, ManifestRecord
  <1>2. ASSUME NEW r \in Requests, StartPartial(r) PROVE TypeOK'
    <2>1. r \in Request /\ r.filings \subseteq Filings
      BY BuildAssumption DEF Request
    <2>2. manifest \in ManifestRecord /\ chunkFile \in Seq(Chunk)
      BY <1>2 DEF StartPartial, Reusable
    <2> QED BY <1>2, <2>1, <2>2 DEF StartPartial, ManifestRecord
  <1>3. ASSUME NEW r \in Requests, StartFresh(r) PROVE TypeOK'
    <2>1. r \in Request /\ r.filings \subseteq Filings
      BY BuildAssumption DEF Request
    <2> QED BY <1>3, <2>1 DEF StartFresh
  <1>4. CASE ClearRows
    BY <1>4 DEF ClearRows
  <1>5. CASE ClearMeta
    BY <1>5 DEF ClearMeta
  <1>6. ASSUME NEW f \in Filings, ChunkOne(f) PROVE TypeOK'
    <2>1. req \in Requests /\ req \in Request /\ req.cfg \in Cfgs
      BY <1>6, BuildAssumption DEF ChunkOne, Request
    <2>2. chunks \o ChunkFiling(f, req.cfg) \in Seq(Chunk)
      BY <2>1, ChunkFilingType
    <2> QED BY <1>6, <2>1, <2>2 DEF ChunkOne
  <1>7. CASE ChunkingDone
    BY <1>7 DEF ChunkingDone
  <1>8. CASE SaveChunks
    BY <1>8 DEF SaveChunks
  <1>9. CASE SaveManifest
    <2>1. req \in Requests /\ req \in Request /\ Fingerprint(req) \in Fingerprints
      BY <1>9, BuildAssumption DEF SaveManifest, Fingerprint, Fingerprints, Request
    <2>2. manifest' \in ManifestRecord
      BY <1>9, <2>1 DEF SaveManifest, ManifestRecord
    <2> QED BY <1>9, <2>1, <2>2 DEF SaveManifest
  <1>10. CASE RaiseNoChunks
    BY <1>10 DEF RaiseNoChunks
  <1>11. CASE LoadCheckpointedRows
    BY <1>11 DEF LoadCheckpointedRows, LoadRows
  <1>12. CASE WriteMeta
    <2>1. req \in Requests /\ req \in Request /\ Dim[req.cfg] \in Nat
      BY <1>12, BuildAssumption DEF WriteMeta, Request
    <2> QED BY <1>12, <2>1 DEF WriteMeta
  <1>13. CASE EmbedOne
    <2>1. req \in Requests /\ req \in Request /\ Dim[req.cfg] \in Nat \ {0}
      BY <1>13, BuildAssumption DEF EmbedOne, Request
    <2>2. NextBatch \in Seq(Row)
      BY <1>13, <2>1, BatchProperties DEF EmbedOne
    <2>3. RowsAfter(NextBatch, 0, Dim[req.cfg]) \in Seq(Row)
      BY <2>1, <2>2, RowsAfterType
    <2> QED BY <1>13, <2>1, <2>2, <2>3 DEF EmbedOne
  <1>14. CASE EmbeddingDone
    BY <1>14 DEF EmbeddingDone
  <1>15. CASE Publish
    <2>1. CASE req.ckpt
      BY <1>15, <2>1 DEF Publish
    <2>2. CASE ~req.ckpt
      BY <1>15, <2>2 DEF Publish
    <2> QED BY <2>1, <2>2
  <1>16. CASE DropChunks
    BY <1>16 DEF DropChunks
  <1>17. CASE DropManifest
    BY <1>17 DEF DropManifest
  <1>18. CASE DropRows
    BY <1>18 DEF DropRows
  <1>19. CASE DropMeta
    BY <1>19 DEF DropMeta
  <1>20. CASE Crash
    BY <1>20 DEF Crash
  <1>21. CASE CrashInManifest
    BY <1>21 DEF CrashInManifest
  <1>22. CASE CrashInMeta
    BY <1>22 DEF CrashInMeta
  <1>23. CASE CrashInAppend
    <2>1. req \in Requests /\ req \in Request /\ Dim[req.cfg] \in Nat \ {0}
      BY <1>23, BuildAssumption DEF CrashInAppend, Request
    <2>2. NextBatch \in Seq(Row)
      BY <1>23, <2>1, BatchProperties DEF CrashInAppend
    <2>3. PICK n \in 0..(Len(NextBatch) - 1), t \in 0..(Dim[req.cfg] - 1) :
            /\ embRows' = RowsAfter(SubSeq(NextBatch, 1, n), t, Dim[req.cfg])
            /\ embTail' = TailAfter(t, Dim[req.cfg])
      BY <1>23 DEF CrashInAppend
    <2>4. SubSeq(NextBatch, 1, n) \in Seq(Row) /\ t \in Nat
      BY <2>1, <2>2, <2>3
    <2>5. embRows' \in Seq(Row) /\ embTail' \in Nat
      BY <2>1, <2>3, <2>4, RowsAfterType
    <2> QED BY <1>23, <2>5 DEF CrashInAppend
  <1>24. CASE UNCHANGED vars
    BY <1>24 DEF vars
  <1> QED
    BY <1>1, <1>2, <1>3, <1>4, <1>5, <1>6, <1>7, <1>8, <1>9, <1>10, <1>11,
       <1>12, <1>13, <1>14, <1>15, <1>16, <1>17, <1>18, <1>19, <1>20, <1>21,
       <1>22, <1>23, <1>24 DEF Next, Start, Step, Die

(* Every variable of the build keeps its type through any number of        *)
(* builds and crashes.                                                     *)
THEOREM TypeCorrect == Spec => []TypeOK
  BY TypeInit, TypeNext, PTL DEF Spec

-----------------------------------------------------------------------------
(* No rows are aligned with any chunk list.                                *)
LEMMA AlignedEmpty ==
  ASSUME NEW cs \in Seq(Chunk), NEW c PROVE Aligned(<<>>, cs, c)
  BY DEF Aligned

(* Aligned rows stay aligned when the rows of the next chunks follow.      *)
LEMMA AlignedConcat ==
  ASSUME NEW cs \in Seq(Chunk), NEW c,
         NEW rows \in Seq(Row), NEW more \in Seq(Row),
         Aligned(rows, cs, c),
         Len(rows) + Len(more) <= Len(cs),
         \A i \in 1..Len(more) : more[i] = <<cs[Len(rows) + i], c>>
  PROVE  Aligned(rows \o more, cs, c)
  <1>1. Len(rows \o more) = Len(rows) + Len(more)
    OBVIOUS
  <1>2. ASSUME NEW i \in 1..Len(rows \o more)
        PROVE  (rows \o more)[i] = <<cs[i], c>>
    <2>1. CASE i <= Len(rows)
      <3>1. (rows \o more)[i] = rows[i]
        BY <2>1
      <3> QED BY <2>1, <3>1 DEF Aligned
    <2>2. CASE i > Len(rows)
      <3>1. i - Len(rows) \in 1..Len(more)
        BY <1>1, <2>2
      <3>2. (rows \o more)[i] = more[i - Len(rows)]
        BY <2>2, <3>1
      <3>3. cs[Len(rows) + (i - Len(rows))] = cs[i]
        OBVIOUS
      <3> QED BY <3>1, <3>2, <3>3
    <2> QED BY <2>1, <2>2
  <1> QED BY <1>1, <1>2 DEF Aligned

LEMMA AlignmentInit == Init => AlignmentInv
  BY SentinelAssumption
  DEF Init, AlignmentInv, DiskAligned, StagesAligned, RowsAligned

(* The batch about to be embedded extends aligned rows, whole or cut short.*)
LEMMA BatchAligned ==
  ASSUME TypeOK, req \in Requests, Len(vecs) < Len(chunks),
         Aligned(vecs, chunks, req.cfg),
         NEW n \in Nat, n <= Len(NextBatch)
  PROVE  /\ Aligned(vecs \o NextBatch, chunks, req.cfg)
         /\ Aligned(vecs \o SubSeq(NextBatch, 1, n), chunks, req.cfg)
  <1>1. chunks \in Seq(Chunk) /\ vecs \in Seq(Row)
    BY DEF TypeOK
  <1>2. /\ NextBatch \in Seq(Row)
        /\ Len(vecs) + Len(NextBatch) <= Len(chunks)
        /\ \A i \in 1..Len(NextBatch) :
             NextBatch[i] = <<chunks[Len(vecs) + i], req.cfg>>
    BY BatchProperties
  <1>3. Aligned(vecs \o NextBatch, chunks, req.cfg)
    BY <1>1, <1>2, AlignedConcat
  <1> DEFINE part == SubSeq(NextBatch, 1, n)
  <1>4. /\ part \in Seq(Row)
        /\ Len(part) = n
        /\ \A i \in 1..n : part[i] = NextBatch[i]
    BY <1>2
  <1>5. /\ Len(vecs) + Len(part) <= Len(chunks)
        /\ \A i \in 1..Len(part) : part[i] = <<chunks[Len(vecs) + i], req.cfg>>
    BY <1>1, <1>2, <1>4
  <1> HIDE DEF part
  <1>6. Aligned(vecs \o part, chunks, req.cfg)
    BY <1>1, <1>4, <1>5, AlignedConcat
  <1> QED BY <1>3, <1>6 DEF part

(* A file without a torn tail grows by exactly the rows appended.          *)
LEMMA WholeAppend ==
  ASSUME TypeOK, embTail = 0, NEW rows \in Seq(Row), NEW d \in Nat \ {0}
  PROVE  RowsAfter(rows, 0, d) = embRows \o rows /\ TailAfter(0, d) = 0
  <1>1. embRows \in Seq(Row)
    BY DEF TypeOK
  <1>2. (embRows \o rows) \o <<>> = embRows \o rows
    BY <1>1
  <1>3. RowsAfter(rows, 0, d) = embRows \o rows
    BY <1>2 DEF RowsAfter
  <1> QED BY <1>3 DEF TailAfter

LEMMA AlignmentNext ==
  ASSUME "rows" \notin TornFiles
  PROVE  TypeOK /\ AlignmentInv /\ [Next]_vars => AlignmentInv'
  <1> SUFFICES ASSUME TypeOK, AlignmentInv, [Next]_vars PROVE AlignmentInv'
    OBVIOUS
  <1>0. TypeOK'
    BY TypeNext
  <1> USE SentinelAssumption
      DEF AlignmentInv, DiskAligned, StagesAligned, RowsAligned, Forget, disk, memory
  <1>1. ASSUME NEW r \in Requests, StartWhole(r) PROVE AlignmentInv'
    <2>1. manifest \in ManifestRecord
      BY <1>1 DEF StartWhole, Reusable, TypeOK
    <2> QED BY <1>1, <2>1 DEF StartWhole, Reusable
  <1>2. ASSUME NEW r \in Requests, StartPartial(r) PROVE AlignmentInv'
    BY <1>2 DEF StartPartial
  <1>3. ASSUME NEW r \in Requests, StartFresh(r) PROVE AlignmentInv'
    BY <1>3 DEF StartFresh
  <1>4. CASE ClearRows
    <2>1. chunkFile # NoFile => chunkFile \in Seq(Chunk)
      BY DEF TypeOK
    <2> QED BY <1>4, <2>1, AlignedEmpty DEF ClearRows
  <1>5. CASE ClearMeta
    BY <1>5 DEF ClearMeta
  <1>6. ASSUME NEW f \in Filings, ChunkOne(f) PROVE AlignmentInv'
    BY <1>6 DEF ChunkOne
  <1>7. CASE ChunkingDone
    BY <1>7 DEF ChunkingDone
  <1>8. CASE SaveChunks
    BY <1>8 DEF SaveChunks
  <1>9. CASE SaveManifest
    <2>1. req \in Requests /\ req \in Request /\ req.ckpt /\ done \subseteq Filings
      BY <1>9, BuildAssumption DEF SaveManifest, TypeOK
    <2>2. Fingerprint(req) \in Fingerprints
      BY <2>1 DEF Fingerprint, Fingerprints, Request
    <2>3. /\ manifest' \in ManifestRecord
          /\ manifest'.fp = Fingerprint(req)
          /\ manifest'.whole = (todo = {})
      BY <1>9, <2>1, <2>2 DEF SaveManifest, ManifestRecord
    <2>4. /\ embMeta = NoFile /\ embRows = <<>> /\ chunkFile = chunks
          /\ UNCHANGED <<chunkFile, chunks, req, embRows, embMeta, embTail>>
          /\ pc' = IF todo = {} THEN "loadRows" ELSE "chunk"
      BY <1>9, <2>1 DEF SaveManifest
    <2> QED BY <2>1, <2>3, <2>4
  <1>10. CASE RaiseNoChunks
    BY <1>10 DEF RaiseNoChunks
  <1>11. CASE LoadCheckpointedRows
    <2>1. /\ pc = "loadRows" /\ pc' = "embed"
          /\ vecs' = IF req.ckpt THEN LoadRows(Len(chunks), Dim[req.cfg]) ELSE <<>>
          /\ UNCHANGED <<disk, req, chunks>>
      BY <1>11 DEF LoadCheckpointedRows
    <2>2. /\ req \in Requests /\ req \in Request /\ chunks \in Seq(Chunk) /\ Dim[req.cfg] \in Nat
          /\ embMeta \in Nat \cup {NoFile, TornFile}
      BY <2>1, BuildAssumption DEF TypeOK, Request
    <2>3. Aligned(<<>>, chunks, req.cfg)
      BY <2>2, AlignedEmpty
    <2>4. CASE ~req.ckpt
      BY <2>1, <2>3, <2>4
    <2>5. CASE req.ckpt /\ embMeta \in Nat
      <3>1. Aligned(embRows, chunks, req.cfg) /\ embMeta = Dim[req.cfg]
        BY <2>1, <2>2, <2>5 DEF Fingerprint
      <3>2. Len(embRows) <= Len(chunks)
        BY <3>1 DEF Aligned
      <3>3. vecs' = embRows
        BY <2>1, <2>5, <3>1, <3>2 DEF LoadRows
      <3> QED BY <2>1, <2>5, <3>1, <3>3
    <2>6. CASE req.ckpt /\ embMeta \notin Nat
      <3>1. vecs' = <<>>
        BY <2>1, <2>2, <2>6 DEF LoadRows
      <3>2. embMeta # TornFile => embRows = <<>>
        BY <2>2, <2>6
      <3> QED BY <2>1, <2>3, <2>6, <3>1, <3>2
    <2> QED BY <2>4, <2>5, <2>6
  <1>12. CASE WriteMeta
    <2>1. /\ pc = "embed" /\ req.ckpt /\ embMeta = NoFile /\ embMeta' = Dim[req.cfg]
          /\ UNCHANGED <<chunkFile, manifest, embRows, embTail, pc, req, chunks, vecs>>
      BY <1>12 DEF WriteMeta
    <2>2. manifest.fp.cfg = req.cfg /\ chunkFile = chunks /\ embRows = vecs
      BY <2>1 DEF Fingerprint
    <2> QED BY <2>1, <2>2
  <1>13. CASE EmbedOne
    <2>1. /\ pc = "embed" /\ Len(vecs) < Len(chunks)
          /\ req.ckpt => embMeta # NoFile
          /\ vecs' = vecs \o NextBatch
          /\ embRows' = IF req.ckpt THEN RowsAfter(NextBatch, 0, Dim[req.cfg]) ELSE embRows
          /\ UNCHANGED <<chunkFile, manifest, embTail, embMeta, pc, req, chunks>>
      BY <1>13 DEF EmbedOne
    <2>2. req \in Requests /\ req \in Request /\ Dim[req.cfg] \in Nat \ {0}
      BY <2>1, BuildAssumption DEF TypeOK, Request
    <2>3. NextBatch \in Seq(Row) /\ Len(NextBatch) \in Nat
      BY <2>1, <2>2, BatchProperties
    <2>4. Aligned(vecs', chunks, req.cfg)
      BY <2>1, <2>2, <2>3, BatchAligned
    <2>5. req.ckpt => embRows' = embRows \o NextBatch
      BY <2>1, <2>2, <2>3, WholeAppend
    <2>6. CASE req.ckpt
      <3>1. chunkFile = chunks /\ manifest.fp.cfg = req.cfg
        BY <2>1, <2>6 DEF Fingerprint
      <3>2. embMeta # TornFile => embRows' = vecs'
        BY <2>1, <2>5, <2>6
      <3>3. embMeta \in Nat => Aligned(embRows', chunks, req.cfg)
        BY <2>4, <3>2
      <3> QED BY <2>1, <2>4, <2>6, <3>1, <3>2, <3>3
    <2>7. CASE ~req.ckpt
      BY <2>1, <2>4, <2>7
    <2> QED BY <2>6, <2>7
  <1>14. CASE EmbeddingDone
    BY <1>14 DEF EmbeddingDone, Aligned
  <1>15. CASE Publish
    BY <1>15 DEF Publish
  <1>16. CASE DropChunks
    BY <1>16 DEF DropChunks
  <1>17. CASE DropManifest
    BY <1>17 DEF DropManifest
  <1>18. CASE DropRows
    BY <1>18 DEF DropRows
  <1>19. CASE DropMeta
    BY <1>19 DEF DropMeta
  <1>20. CASE Crash
    BY <1>20 DEF Crash
  <1>21. CASE CrashInManifest
    BY <1>21 DEF CrashInManifest
  <1>22. CASE CrashInMeta
    BY <1>22 DEF CrashInMeta
  <1>23. CASE CrashInAppend
    <2>1. /\ pc = "embed" /\ Len(vecs) < Len(chunks)
          /\ req.ckpt /\ embMeta # NoFile
          /\ pc' = "idle"
          /\ UNCHANGED <<chunkFile, manifest, embMeta>>
      BY <1>23 DEF CrashInAppend
    <2>2. req \in Requests /\ req \in Request /\ Dim[req.cfg] \in Nat \ {0}
      BY <2>1, BuildAssumption DEF TypeOK, Request
    <2>3. NextBatch \in Seq(Row)
      BY <2>1, <2>2, BatchProperties
    <2>4. PICK n \in 0..(Len(NextBatch) - 1), t \in 0..(Dim[req.cfg] - 1) :
            /\ t > 0 => "rows" \in TornFiles
            /\ embRows' = RowsAfter(SubSeq(NextBatch, 1, n), t, Dim[req.cfg])
            /\ embTail' = TailAfter(t, Dim[req.cfg])
      BY <1>23 DEF CrashInAppend
    <2>5. /\ t = 0 /\ n \in Nat /\ n <= Len(NextBatch)
          /\ SubSeq(NextBatch, 1, n) \in Seq(Row)
      BY <2>2, <2>3, <2>4
    <2>6. embRows' = embRows \o SubSeq(NextBatch, 1, n) /\ embTail' = 0
      BY <2>2, <2>4, <2>5, WholeAppend
    <2>7. Aligned(vecs \o SubSeq(NextBatch, 1, n), chunks, req.cfg)
      BY <2>1, <2>2, <2>5, BatchAligned
    <2>8. chunkFile = chunks /\ manifest.fp.cfg = req.cfg
      BY <2>1 DEF Fingerprint
    <2>9. embMeta # TornFile => Aligned(embRows', chunks, req.cfg)
      BY <2>1, <2>6, <2>7
    <2> QED BY <2>1, <2>6, <2>8, <2>9
  <1>24. CASE UNCHANGED vars
    BY <1>24 DEF vars
  <1> QED
    BY <1>1, <1>2, <1>3, <1>4, <1>5, <1>6, <1>7, <1>8, <1>9, <1>10, <1>11,
       <1>12, <1>13, <1>14, <1>15, <1>16, <1>17, <1>18, <1>19, <1>20, <1>21,
       <1>22, <1>23, <1>24 DEF Next, Start, Step, Die

(* However often and wherever builds die, and whatever is built in         *)
(* between, the rows that reach the index are the vectors of its chunks -  *)
(* provided that an append lands in whole vectors.                         *)
THEOREM RowsStayAligned ==
  ASSUME "rows" \notin TornFiles
  PROVE  Spec => []RowsAligned
  <1>1. Init => TypeOK /\ AlignmentInv
    BY TypeInit, AlignmentInit
  <1>2. TypeOK /\ AlignmentInv /\ [Next]_vars => (TypeOK /\ AlignmentInv)'
    BY TypeNext, AlignmentNext
  <1>3. AlignmentInv => RowsAligned
    BY DEF AlignmentInv
  <1> QED BY <1>1, <1>2, <1>3, PTL DEF Spec

-----------------------------------------------------------------------------
LEMMA EmptyOnce == ASSUME NEW c PROVE ExactlyOnce(<<>>, {}, c)
  BY DEF ExactlyOnce, OnlyOf, AllOf, NoRepeats

(* Chunking one more filing keeps a chunk list complete and unrepeated.    *)
LEMMA ExtendOnce ==
  ASSUME NEW cs \in Seq(Chunk), NEW D \in SUBSET Filings, NEW c \in Cfgs,
         NEW f \in Filings, f \notin D, ExactlyOnce(cs, D, c)
  PROVE  ExactlyOnce(cs \o ChunkFiling(f, c), D \cup {f}, c)
  <1> DEFINE new == ChunkFiling(f, c)
             all == cs \o new
  <1>1. /\ Count[f] \in Nat
        /\ new \in Seq(Chunk)
        /\ Len(new) = Count[f]
        /\ \A k \in 1..Count[f] : new[k] = <<f, k, c>>
    BY BuildAssumption, ChunkFilingType DEF ChunkFiling
  <1> HIDE DEF new
  <1>2. /\ all \in Seq(Chunk)
        /\ Len(all) = Len(cs) + Count[f]
        /\ \A i \in 1..Len(cs) : all[i] = cs[i]
        /\ \A k \in 1..Count[f] : all[Len(cs) + k] = <<f, k, c>>
    <2>1. all \in Seq(Chunk) /\ Len(all) = Len(cs) + Len(new)
      BY <1>1, SMTT(40)
    <2>2. \A i \in 1..Len(cs) : all[i] = cs[i]
      BY <1>1, SMTT(40)
    <2>3. ASSUME NEW k \in 1..Count[f] PROVE all[Len(cs) + k] = <<f, k, c>>
      <3>1. all[Len(cs) + k] = new[k]
        BY <1>1, SMTT(40)
      <3> QED BY <1>1, <3>1
    <2> QED BY <1>1, <2>1, <2>2, <2>3
  <1>3. ASSUME NEW i \in 1..Len(all), ~(i \in 1..Len(cs))
        PROVE  /\ i - Len(cs) \in 1..Count[f]
               /\ all[i] = <<f, i - Len(cs), c>>
    <2>1. i - Len(cs) \in 1..Count[f]
      BY <1>1, <1>2, <1>3
    <2>2. all[Len(cs) + (i - Len(cs))] = <<f, i - Len(cs), c>>
      BY <1>2, <2>1
    <2> QED BY <2>1, <2>2
  <1> HIDE DEF all
  <1>4. OnlyOf(all, D \cup {f}, c)
    <2> SUFFICES ASSUME NEW i \in 1..Len(all)
                 PROVE  /\ all[i][1] \in D \cup {f}
                        /\ all[i][2] \in 1..Count[all[i][1]]
                        /\ all[i][3] = c
      BY DEF OnlyOf
    <2>1. CASE i \in 1..Len(cs)
      BY <1>2, <2>1 DEF ExactlyOnce, OnlyOf
    <2>2. CASE ~(i \in 1..Len(cs))
      BY <1>3, <2>2
    <2> QED BY <2>1, <2>2
  <1>5. AllOf(all, D \cup {f}, c)
    <2> SUFFICES ASSUME NEW g \in D \cup {f}, NEW k \in 1..Count[g]
                 PROVE  \E i \in 1..Len(all) : all[i] = <<g, k, c>>
      BY DEF AllOf
    <2>1. CASE g \in D
      <3>1. PICK i \in 1..Len(cs) : cs[i] = <<g, k, c>>
        BY <2>1 DEF ExactlyOnce, AllOf
      <3>2. i \in 1..Len(all)
        BY <1>1, <1>2
      <3>3. all[i] = <<g, k, c>>
        BY <1>2, <3>1
      <3> QED BY <3>2, <3>3
    <2>2. CASE g = f
      <3>1. Len(cs) + k \in 1..Len(all) /\ all[Len(cs) + k] = <<f, k, c>>
        BY <1>1, <1>2, <2>2
      <3> QED BY <2>2, <3>1
    <2> QED BY <2>1, <2>2
  <1>6. NoRepeats(all)
    <2> SUFFICES ASSUME NEW i \in 1..Len(all), NEW j \in 1..Len(all), all[i] = all[j]
                 PROVE  i = j
      BY DEF NoRepeats
    <2>1. CASE i \in 1..Len(cs) /\ j \in 1..Len(cs)
      BY <1>2, <2>1 DEF ExactlyOnce, NoRepeats
    <2>2. CASE ~(i \in 1..Len(cs)) /\ ~(j \in 1..Len(cs))
      <3>1. <<f, i - Len(cs), c>> = <<f, j - Len(cs), c>>
        BY <1>3, <2>2
      <3> QED BY <1>2, <3>1
    <2>3. ASSUME NEW m \in 1..Len(cs), NEW n \in 1..Len(all), ~(n \in 1..Len(cs))
          PROVE  all[m] # all[n]
      <3>1. all[m][1] \in D
        BY <1>2 DEF ExactlyOnce, OnlyOf
      <3>2. all[n][1] = f
        BY <1>3, <2>3
      <3> QED BY <3>1, <3>2
    <2>4. CASE i \in 1..Len(cs) /\ ~(j \in 1..Len(cs))
      BY <2>3, <2>4
    <2>5. CASE ~(i \in 1..Len(cs)) /\ j \in 1..Len(cs)
      BY <2>3, <2>5
    <2> QED BY <2>1, <2>2, <2>4, <2>5
  <1> QED BY <1>4, <1>5, <1>6 DEF ExactlyOnce, all, new

LEMMA OnceInit == Init => OnceInv
  BY DEF Init, OnceInv, DiskOnce, MemoryOnce

LEMMA OnceNext ==
  ASSUME "saveManifest" \notin CrashAt
  PROVE  TypeOK /\ OnceInv /\ [Next]_vars => OnceInv'
  <1> SUFFICES ASSUME TypeOK, OnceInv, [Next]_vars PROVE OnceInv'
    OBVIOUS
  <1> USE SentinelAssumption DEF OnceInv, DiskOnce, MemoryOnce, Forget, disk, memory
  <1>1. ASSUME NEW r \in Requests, StartWhole(r) PROVE OnceInv'
    <2>1. /\ manifest \in ManifestRecord /\ chunkFile # NoFile
          /\ manifest.fp.filings = r.filings /\ manifest.fp.cfg = r.cfg
      BY <1>1 DEF StartWhole, Reusable, Fingerprint, TypeOK
    <2> QED BY <1>1, <2>1 DEF StartWhole
  <1>2. ASSUME NEW r \in Requests, StartPartial(r) PROVE OnceInv'
    <2>1. /\ manifest \in ManifestRecord /\ chunkFile # NoFile
          /\ manifest.fp.filings = r.filings /\ manifest.fp.cfg = r.cfg
      BY <1>2 DEF StartPartial, Reusable, Fingerprint, TypeOK
    <2> QED BY <1>2, <2>1 DEF StartPartial
  <1>3. ASSUME NEW r \in Requests, StartFresh(r) PROVE OnceInv'
    BY <1>3, EmptyOnce DEF StartFresh
  <1>4. CASE ClearRows
    BY <1>4 DEF ClearRows
  <1>5. CASE ClearMeta
    BY <1>5 DEF ClearMeta
  <1>6. ASSUME NEW f \in Filings, ChunkOne(f) PROVE OnceInv'
    <2>1. /\ pc = "chunk" /\ f \in todo /\ f \notin done
          /\ ExactlyOnce(chunks, done, req.cfg)
          /\ chunks \in Seq(Chunk) /\ done \subseteq Filings /\ req.cfg \in Cfgs
      BY <1>6, BuildAssumption DEF ChunkOne, TypeOK, Request
    <2>2. ExactlyOnce(chunks', done', req.cfg)
      BY <1>6, <2>1, ExtendOnce DEF ChunkOne
    <2> QED BY <1>6, <2>1, <2>2 DEF ChunkOne
  <1>7. CASE ChunkingDone
    BY <1>7 DEF ChunkingDone
  <1>8. CASE SaveChunks
    BY <1>8 DEF SaveChunks
  <1>9. CASE SaveManifest
    <2>1. /\ manifest'.fp.filings = req.filings /\ manifest'.fp.cfg = req.cfg
          /\ manifest'.completed = done /\ manifest'.whole = (todo = {})
      BY <1>9 DEF SaveManifest, Fingerprint
    <2>2. chunkFile' = chunks
      BY <1>9 DEF SaveManifest
    <2> QED BY <1>9, <2>1, <2>2 DEF SaveManifest
  <1>10. CASE RaiseNoChunks
    BY <1>10 DEF RaiseNoChunks
  <1>11. CASE LoadCheckpointedRows
    BY <1>11 DEF LoadCheckpointedRows
  <1>12. CASE WriteMeta
    BY <1>12 DEF WriteMeta
  <1>13. CASE EmbedOne
    BY <1>13 DEF EmbedOne
  <1>14. CASE EmbeddingDone
    BY <1>14 DEF EmbeddingDone
  <1>15. CASE Publish
    BY <1>15 DEF Publish
  <1>16. CASE DropChunks
    BY <1>16 DEF DropChunks
  <1>17. CASE DropManifest
    BY <1>17 DEF DropManifest
  <1>18. CASE DropRows
    BY <1>18 DEF DropRows
  <1>19. CASE DropMeta
    BY <1>19 DEF DropMeta
  <1>20. CASE Crash
    BY <1>20 DEF Crash
  <1>21. CASE CrashInManifest
    BY <1>21 DEF CrashInManifest
  <1>22. CASE CrashInMeta
    BY <1>22 DEF CrashInMeta
  <1>23. CASE CrashInAppend
    BY <1>23 DEF CrashInAppend
  <1>24. CASE UNCHANGED vars
    BY <1>24 DEF vars
  <1> QED
    BY <1>1, <1>2, <1>3, <1>4, <1>5, <1>6, <1>7, <1>8, <1>9, <1>10, <1>11,
       <1>12, <1>13, <1>14, <1>15, <1>16, <1>17, <1>18, <1>19, <1>20, <1>21,
       <1>22, <1>23, <1>24 DEF Next, Start, Step, Die

LEMMA OnceImpliesChunkedOnce == OnceInv => ChunkedOnce
  <1> SUFFICES ASSUME OnceInv, pc \in {"loadRows", "embed", "publish"}
               PROVE  ExactlyOnce(chunks, req.filings \ Missing, req.cfg)
    BY DEF ChunkedOnce
  <1>1. ExactlyOnce(chunks, done, req.cfg) /\ todo = {}
        /\ done \cup todo = req.filings \ Missing
    BY DEF OnceInv, MemoryOnce
  <1>2. done = req.filings \ Missing
    BY <1>1
  <1> QED BY <1>1, <1>2

(* build_chunks returns each chunk of each filing asked for exactly once,  *)
(* wherever it resumed - provided that no death falls between the two      *)
(* writes of ChunkCheckpoint.save.                                         *)
THEOREM ChunksComeOnce ==
  ASSUME "saveManifest" \notin CrashAt
  PROVE  Spec => []ChunkedOnce
  <1>1. Init => TypeOK /\ OnceInv
    BY TypeInit, OnceInit
  <1>2. TypeOK /\ OnceInv /\ [Next]_vars => (TypeOK /\ OnceInv)'
    BY TypeNext, OnceNext
  <1> QED BY <1>1, <1>2, OnceImpliesChunkedOnce, PTL DEF Spec

-----------------------------------------------------------------------------
LEMMA AlignmentHolds ==
  ASSUME "rows" \notin TornFiles
  PROVE  Spec => [](TypeOK /\ AlignmentInv)
  <1>1. Init => TypeOK /\ AlignmentInv
    BY TypeInit, AlignmentInit
  <1>2. TypeOK /\ AlignmentInv /\ [Next]_vars => (TypeOK /\ AlignmentInv)'
    BY TypeNext, AlignmentNext
  <1> QED BY <1>1, <1>2, PTL DEF Spec

(* "A restart continues from that row": every batch embedded so far would  *)
(* be read back - provided that appends land in whole vectors and the      *)
(* metadata is never cut short.                                            *)
THEOREM EmbeddingStaysDurable ==
  ASSUME "rows" \notin TornFiles, "meta" \notin TornFiles
  PROVE  Spec => []EmbeddingDurable
  <1> DEFINE Untorn == embMeta # TornFile
  <1>1. Init => Untorn
    BY SentinelAssumption DEF Init
  <1>2. ASSUME TypeOK, Untorn, [Next]_vars PROVE Untorn'
    <2>1. CASE WriteMeta
      <3>1. req \in Request /\ Dim[req.cfg] \in Nat
        BY <1>2, <2>1, BuildAssumption DEF WriteMeta, TypeOK, Request
      <3> QED BY <2>1, <3>1, SentinelAssumption DEF WriteMeta
    <2>2. CASE ClearMeta \/ DropMeta
      BY <2>2, SentinelAssumption DEF ClearMeta, DropMeta
    <2>3. CASE CrashInMeta
      BY <2>3 DEF CrashInMeta
    <2>4. CASE Start \/ Crash \/ CrashInManifest \/ CrashInAppend \/ UNCHANGED vars
      BY <1>2, <2>4 DEF Start, StartWhole, StartPartial, StartFresh, Crash,
         CrashInManifest, CrashInAppend, vars, disk
    <2>5. CASE Step /\ ~WriteMeta /\ ~ClearMeta /\ ~DropMeta
      BY <1>2, <2>5 DEF Step, ClearRows, ChunkOne, ChunkingDone, SaveChunks,
         SaveManifest, RaiseNoChunks, LoadCheckpointedRows, EmbedOne, EmbeddingDone,
         Publish, DropChunks, DropManifest, DropRows, disk
    <2> QED BY <1>2, <2>1, <2>2, <2>3, <2>4, <2>5 DEF Next, Die, Step
  <1>3. ASSUME TypeOK, AlignmentInv, Untorn PROVE EmbeddingDurable
    <2> SUFFICES ASSUME pc = "embed", req.ckpt
                 PROVE  LoadRows(Len(chunks), Dim[req.cfg]) = vecs
      BY DEF EmbeddingDurable
    <2>1. /\ chunkFile = chunks /\ manifest.fp.cfg = req.cfg
          /\ embRows = vecs /\ Aligned(vecs, chunks, req.cfg)
      BY <1>3 DEF AlignmentInv, StagesAligned, Fingerprint
    <2>2. req \in Request /\ Dim[req.cfg] \in Nat /\ chunks \in Seq(Chunk)
      BY <1>3, BuildAssumption, SentinelAssumption DEF TypeOK, Request
    <2>3. CASE embMeta \in Nat
      <3>1. chunkFile # NoFile
        BY <2>1, <2>2, SentinelAssumption
      <3>2. embMeta = Dim[req.cfg]
        BY <1>3, <2>1, <2>3, <3>1 DEF AlignmentInv, DiskAligned
      <3> QED BY <2>1, <3>2 DEF LoadRows, Aligned
    <2>4. CASE embMeta = NoFile
      <3>1. embRows = <<>> /\ embMeta # Dim[req.cfg]
        BY <1>3, <2>2, <2>4, SentinelAssumption DEF AlignmentInv, DiskAligned
      <3> QED BY <2>1, <3>1 DEF LoadRows
    <2> QED BY <1>3, <2>3, <2>4 DEF TypeOK
  <1>4. TypeOK /\ Untorn /\ [Next]_vars => Untorn'
    BY <1>2
  <1>5. TypeOK /\ AlignmentInv /\ Untorn => EmbeddingDurable
    BY <1>3
  <1> QED BY <1>1, <1>4, <1>5, AlignmentHolds, PTL DEF Spec

-----------------------------------------------------------------------------
(* Counting turns between two saves.                                       *)
LEMMA NextRemainder ==
  ASSUME NEW n \in Nat, NEW d \in Nat \ {0}
  PROVE  /\ n % d \in Nat /\ (n % d) + 1 <= d /\ 0 % d = 0
         /\ (n + 1) % d # 0 => (n + 1) % d = (n % d) + 1
  <1> DEFINE q == n \div d
             r == n % d
             p == (n + 1) \div d
             s == (n + 1) % d
  <1>1. /\ q \in Int /\ r \in 0..(d - 1) /\ p \in Int /\ s \in 0..(d - 1)
        /\ n = d * q + r /\ n + 1 = d * p + s
    OBVIOUS
  <1>2. 0 % d = 0
    OBVIOUS
  <1> HIDE DEF q, r, p, s
  <1>3. s - r - 1 = d * (q - p)
    BY <1>1
  <1>4. CASE q = p
    BY <1>1, <1>2, <1>3, <1>4 DEF r, s
  <1>5. CASE q > p
    <2>1. d * (q - p) >= d
      BY <1>1, <1>5
    <2> QED BY <1>1, <1>3, <2>1
  <1>6. CASE q < p
    <2>1. d * (q - p) <= - d
      BY <1>1, <1>6
    <2>2. s = 0
      BY <1>1, <1>3, <2>1
    <2> QED BY <1>1, <1>2, <2>2 DEF r, s
  <1> QED BY <1>1, <1>4, <1>5, <1>6

LEMMA DoneCounted ==
  ASSUME TypeOK, NEW f \in Filings
  PROVE  /\ Cardinality(done \ Saved(req)) \in Nat
         /\ Cardinality((done \cup {f}) \ Saved(req)) <= Cardinality(done \ Saved(req)) + 1
  <1> DEFINE D == done \ Saved(req)
  <1>1. IsFiniteSet(D) /\ Cardinality(D) \in Nat
    <2>1. D \in SUBSET Filings
      BY DEF TypeOK
    <2> QED BY <2>1, BuildAssumption, FS_Subset, FS_CardinalityType
  <1>3. (done \cup {f}) \ Saved(req) \in SUBSET (D \cup {f})
    OBVIOUS
  <1> HIDE DEF D
  <1>2. IsFiniteSet(D \cup {f}) /\ Cardinality(D \cup {f}) <= Cardinality(D) + 1
    <2>1. /\ IsFiniteSet(D \cup {f})
          /\ Cardinality(D \cup {f}) = IF f \in D THEN Cardinality(D) ELSE Cardinality(D) + 1
      BY <1>1, FS_AddElement
    <2> QED BY <1>1, <2>1
  <1>4. /\ Cardinality((done \cup {f}) \ Saved(req)) <= Cardinality(D \cup {f})
        /\ Cardinality((done \cup {f}) \ Saved(req)) \in Nat
        /\ Cardinality(D \cup {f}) \in Nat
    BY <1>2, <1>3, FS_Subset, FS_CardinalityType
  <1> QED BY <1>1, <1>2, <1>4 DEF D

LEMMA LossNext == TypeOK /\ LossInv /\ [Next]_vars => LossInv'
  <1> SUFFICES ASSUME TypeOK, LossInv, [Next]_vars PROVE LossInv'
    OBVIOUS
  <1> USE DEF LossInv, Forget, disk, memory
  <1>e. Cardinality({}) = 0 /\ CheckpointEvery \in Nat \ {0} /\ index \in Nat
    BY FS_EmptySet, BuildAssumption DEF TypeOK
  <1>r. 0 % CheckpointEvery = 0
    BY <1>e, NextRemainder
  <1>1. ASSUME NEW r \in Requests, StartWhole(r) PROVE LossInv'
    BY <1>1 DEF StartWhole
  <1>2. ASSUME NEW r \in Requests, StartPartial(r) PROVE LossInv'
    <2>1. /\ pc' = "clearRows" /\ req' = r /\ index' = 0
          /\ Saved(r)' = done' /\ Saved(req)' = Saved(r)'
      BY <1>2 DEF StartPartial, Saved, Reusable
    <2>2. done' \ Saved(req)' = {}
      BY <2>1
    <2> QED BY <1>e, <1>r, <2>1, <2>2
  <1>3. ASSUME NEW r \in Requests, StartFresh(r) PROVE LossInv'
    <2>1. done' = {} /\ index' = 0 /\ pc' \in {"clearRows", "chunk"} /\ req' = r
      BY <1>3 DEF StartFresh
    <2>2. r.ckpt => Saved(req)' = {}
      BY <1>3 DEF StartFresh, Saved, Reusable
    <2>3. r.ckpt => done' \ Saved(req)' = {}
      BY <2>1, <2>2
    <2> QED BY <1>e, <1>r, <2>1, <2>2, <2>3
  <1>4. CASE ClearRows \/ ClearMeta \/ ChunkingDone
    <2>1. UNCHANGED <<chunkFile, manifest, req, done, todo, index>>
      BY <1>4 DEF ClearRows, ClearMeta, ChunkingDone
    <2>2. Saved(req)' = Saved(req)
      BY <2>1 DEF Saved, Reusable
    <2>3. index % CheckpointEvery <= CheckpointEvery
          /\ index % CheckpointEvery \in Nat
      BY <1>e, NextRemainder
    <2>4. CASE ClearRows \/ ClearMeta
      BY <2>1, <2>2, <2>4 DEF ClearRows, ClearMeta
    <2>5. CASE ChunkingDone
      BY <2>1, <2>2, <2>5 DEF ChunkingDone
    <2> QED BY <1>4, <2>4, <2>5
  <1>5. ASSUME NEW f \in Filings, ChunkOne(f) PROVE LossInv'
    <2>1. /\ pc = "chunk" /\ f \in todo /\ done' = done \cup {f} /\ index' = index + 1
          /\ req' = req /\ pc' \in {"chunk", "saveChunks"}
          /\ pc' = "chunk" /\ req.ckpt => index' % CheckpointEvery # 0 \/ todo' = {}
          /\ UNCHANGED <<chunkFile, manifest>>
      BY <1>5 DEF ChunkOne
    <2>2. Saved(req)' = Saved(req)
      BY <2>1 DEF Saved, Reusable
    <2> SUFFICES ASSUME req.ckpt
                 PROVE  /\ Saved(req) \subseteq done'
                        /\ \/ Cardinality(done' \ Saved(req)) <= index' % CheckpointEvery
                           \/ /\ pc' = "saveChunks" \/ todo' = {}
                              /\ Cardinality(done' \ Saved(req)) <= CheckpointEvery
      BY <2>1, <2>2
    <2>3. /\ Saved(req) \subseteq done
          /\ Cardinality(done \ Saved(req)) <= index % CheckpointEvery
      BY <2>1
    <2>4. Cardinality(done' \ Saved(req)) <= Cardinality(done \ Saved(req)) + 1
          /\ Cardinality(done \ Saved(req)) \in Nat
      BY <2>1, DoneCounted
    <2>5. done' \ Saved(req) \in SUBSET Filings
      BY <2>1 DEF TypeOK
    <2>6. Cardinality(done' \ Saved(req)) \in Nat
      BY <2>5, BuildAssumption, FS_Subset, FS_CardinalityType
    <2>7. /\ index % CheckpointEvery \in Nat /\ (index % CheckpointEvery) + 1 <= CheckpointEvery
          /\ index' % CheckpointEvery # 0 =>
               index' % CheckpointEvery = (index % CheckpointEvery) + 1
      BY <1>e, <2>1, NextRemainder
    <2>8. Cardinality(done' \ Saved(req)) <= (index % CheckpointEvery) + 1
      BY <2>3, <2>4, <2>6, <2>7
    <2>9. Cardinality(done' \ Saved(req)) <= CheckpointEvery
      BY <1>e, <2>6, <2>7, <2>8
    <2> QED BY <2>1, <2>3, <2>7, <2>8, <2>9
  <1>6. CASE SaveChunks
    <2>1. /\ pc = "saveChunks" /\ pc' = "saveManifest" /\ chunkFile' = chunks
          /\ UNCHANGED <<manifest, req, done, chunks>>
      BY <1>6 DEF SaveChunks
    <2>2. req.ckpt => Cardinality(done \ Saved(req)) <= CheckpointEvery
      <3>1. index % CheckpointEvery \in Nat /\ (index % CheckpointEvery) + 1 <= CheckpointEvery
        BY <1>e, NextRemainder
      <3>2. done \ Saved(req) \in SUBSET Filings
        BY DEF TypeOK
      <3>3. Cardinality(done \ Saved(req)) \in Nat
        BY <3>2, BuildAssumption, FS_Subset, FS_CardinalityType
      <3> QED BY <1>e, <2>1, <3>1, <3>3
    <2>3. Saved(req) \subseteq Saved(req)'
      BY <2>1, SentinelAssumption DEF Saved, Reusable, TypeOK
    <2>4. (done \ Saved(req))' \subseteq done \ Saved(req)
      BY <2>1, <2>3
    <2>5. IsFiniteSet(done \ Saved(req))
      <3>1. done \ Saved(req) \subseteq Filings
        BY DEF TypeOK
      <3> QED BY <3>1, BuildAssumption, FS_Subset
    <2>6. /\ Cardinality((done \ Saved(req))') <= Cardinality(done \ Saved(req))
          /\ Cardinality((done \ Saved(req))') \in Nat
          /\ Cardinality(done \ Saved(req)) \in Nat
      BY <2>4, <2>5, FS_Subset, FS_CardinalityType
    <2>7. req'.ckpt => Cardinality((done \ Saved(req))') <= CheckpointEvery
      BY <1>e, <2>1, <2>2, <2>6
    <2> QED BY <2>1, <2>7
  <1>7. CASE SaveManifest
    <2>1. CASE todo = {}
      BY <1>7, <2>1 DEF SaveManifest
    <2>2. CASE todo # {}
      <3>1. pc' = "chunk" /\ req' = req /\ done' = done /\ chunkFile' = chunks
            /\ manifest' = [fp |-> Fingerprint(req), whole |-> todo = {}, completed |-> done]
        BY <1>7, <2>2 DEF SaveManifest
      <3>2. NoFile # chunkFile' /\ manifest' \in ManifestRecord
        <4>1. req \in Request
          BY <1>7, BuildAssumption DEF SaveManifest, TypeOK
        <4> QED BY <3>1, <4>1, SentinelAssumption
            DEF TypeOK, ManifestRecord, Fingerprints, Fingerprint, Request
      <3>3. manifest' # NoFile /\ manifest' # TornFile
        BY <3>2, SentinelAssumption
      <3>4. Saved(req)' = done
        BY <3>1, <3>2, <3>3 DEF Saved, Reusable, Fingerprint
      <3>5. done' \ Saved(req)' = {}
        BY <3>1, <3>4
      <3>6. index' % CheckpointEvery \in Nat
        BY <1>7, <1>e, NextRemainder DEF SaveManifest
      <3> QED BY <1>e, <3>1, <3>4, <3>5, <3>6
    <2> QED BY <2>1, <2>2
  <1>8. CASE LoadCheckpointedRows \/ WriteMeta \/ EmbedOne \/ EmbeddingDone
             \/ DropChunks \/ DropManifest \/ DropRows
    BY <1>8 DEF LoadCheckpointedRows, WriteMeta, EmbedOne, EmbeddingDone,
       DropChunks, DropManifest, DropRows
  <1>9. CASE RaiseNoChunks \/ DropMeta \/ Die
    BY <1>9 DEF RaiseNoChunks, DropMeta, Die, Crash, CrashInManifest, CrashInMeta,
       CrashInAppend
  <1>10. CASE Publish
    BY <1>10 DEF Publish
  <1>11. CASE UNCHANGED vars
    BY <1>11 DEF vars, Saved, Reusable
  <1> QED
    BY <1>1, <1>2, <1>3, <1>4, <1>5, <1>6, <1>7, <1>8, <1>9, <1>10, <1>11
    DEF Next, Start, Step

(* An interruption of chunking by a death leaves the chunk file as it was. *)
LEMMA DeathKeepsChunks ==
  ASSUME TypeOK, [Next]_vars, pc \in Chunking, pc' = "idle"
  PROVE  UNCHANGED chunkFile
  <1> USE DEF Chunking
  <1>1. CASE Start
    BY <1>1 DEF Start, StartWhole, StartPartial, StartFresh
  <1>2. CASE Step
    BY <1>2 DEF Step, ClearRows, ClearMeta, ChunkOne, ChunkingDone, SaveChunks,
      SaveManifest, RaiseNoChunks, LoadCheckpointedRows, WriteMeta, EmbedOne,
      EmbeddingDone, Publish, DropChunks, DropManifest, DropRows, DropMeta
  <1>3. CASE Die
    BY <1>3 DEF Die, Crash, CrashInManifest, CrashInMeta, CrashInAppend, disk
  <1>4. CASE UNCHANGED vars
    BY <1>4 DEF vars, disk
  <1> QED BY <1>1, <1>2, <1>3, <1>4 DEF Next

(* A death during chunking costs at most CHUNK_CHECKPOINT_EVERY filings of *)
(* work, whatever was asked for and wherever builds died before, unless it *)
(* tears the manifest.                                                     *)
THEOREM LossStaysBounded == Spec => BoundedLoss
  <1>1. Init => LossInv
    BY DEF Init, LossInv
  <1>2. ASSUME TypeOK, LossInv, [Next]_vars, NEW r \in Requests,
               req = r, r.ckpt, pc \in Chunking, pc' = "idle", UNCHANGED manifest
        PROVE  Cardinality(done \ Saved(r)') <= CheckpointEvery
    <2>1. \/ Cardinality(done \ Saved(req)) <= index % CheckpointEvery
          \/ Cardinality(done \ Saved(req)) <= CheckpointEvery
      BY <1>2 DEF LossInv, Chunking
    <2>2. index % CheckpointEvery \in Nat /\ (index % CheckpointEvery) + 1 <= CheckpointEvery
          /\ CheckpointEvery \in Nat
      BY <1>2, BuildAssumption, NextRemainder DEF TypeOK
    <2>3. done \ Saved(req) \in SUBSET Filings
      BY <1>2 DEF TypeOK
    <2>4. Cardinality(done \ Saved(req)) \in Nat
      BY <2>3, BuildAssumption, FS_Subset, FS_CardinalityType
    <2>5. UNCHANGED chunkFile
      BY <1>2, DeathKeepsChunks
    <2>6. Saved(r)' = Saved(req)
      BY <1>2, <2>5 DEF Saved, Reusable
    <2> QED BY <2>1, <2>2, <2>4, <2>6
  <1>3. TypeOK /\ LossInv /\ [Next]_vars =>
          [\A r \in Requests :
             /\ req = r /\ r.ckpt /\ pc \in Chunking
             /\ pc' = "idle" /\ UNCHANGED manifest
             => Cardinality(done \ Saved(r)') <= CheckpointEvery]_vars
    BY <1>2
  <1> QED BY <1>1, <1>3, LossNext, TypeCorrect, PTL DEF Spec, BoundedLoss

-----------------------------------------------------------------------------
(* Chunking one more filing leaves no chunk of it out.                     *)
LEMMA ExtendAll ==
  ASSUME NEW cs \in Seq(Chunk), NEW D \in SUBSET Filings, NEW c \in Cfgs,
         NEW f \in Filings, AllOf(cs, D, c)
  PROVE  AllOf(cs \o ChunkFiling(f, c), D \cup {f}, c)
  <1> DEFINE new == ChunkFiling(f, c)
             all == cs \o new
  <1>1. /\ Count[f] \in Nat
        /\ new \in Seq(Chunk)
        /\ Len(new) = Count[f]
        /\ \A k \in 1..Count[f] : new[k] = <<f, k, c>>
    BY BuildAssumption, ChunkFilingType DEF ChunkFiling
  <1> HIDE DEF new
  <1>2. /\ Len(all) = Len(cs) + Len(new)
        /\ \A i \in 1..Len(cs) : i \in 1..Len(all) /\ all[i] = cs[i]
        /\ \A k \in 1..Len(new) :
             Len(cs) + k \in 1..Len(all) /\ all[Len(cs) + k] = new[k]
    BY <1>1
  <1> HIDE DEF all
  <1> SUFFICES ASSUME NEW g \in D \cup {f}, NEW k \in 1..Count[g]
               PROVE  \E i \in 1..Len(all) : all[i] = <<g, k, c>>
    BY DEF AllOf, all, new
  <1>3. CASE g \in D
    <2>1. PICK i \in 1..Len(cs) : cs[i] = <<g, k, c>>
      BY <1>3 DEF AllOf
    <2>2. i \in 1..Len(all) /\ all[i] = <<g, k, c>>
      BY <1>2, <2>1
    <2> QED BY <2>2
  <1>4. CASE g = f
    <2>1. Len(cs) + k \in 1..Len(all) /\ all[Len(cs) + k] = <<g, k, c>>
      BY <1>1, <1>2, <1>4
    <2> QED BY <2>1
  <1> QED BY <1>3, <1>4

LEMMA CompleteNext ==
  ASSUME "dropManifest" \notin CrashAt,
         \A r, s \in Requests : Fingerprint(r) = Fingerprint(s)
  PROVE  TypeOK /\ CompleteInv /\ [Next]_vars => CompleteInv'
  <1> SUFFICES ASSUME TypeOK, CompleteInv, [Next]_vars PROVE CompleteInv'
    OBVIOUS
  <1> USE SentinelAssumption
      DEF CompleteInv, DiskComplete, MemoryComplete, Forget, disk, memory
  <1>1. ASSUME NEW r \in Requests, StartWhole(r) PROVE CompleteInv'
    <2>1. /\ manifest \in ManifestRecord /\ chunkFile # NoFile
          /\ manifest.fp.filings = r.filings /\ manifest.fp.cfg = r.cfg
      BY <1>1 DEF StartWhole, Reusable, Fingerprint, TypeOK
    <2> QED BY <1>1, <2>1 DEF StartWhole
  <1>2. ASSUME NEW r \in Requests, StartPartial(r) PROVE CompleteInv'
    <2>1. /\ manifest \in ManifestRecord /\ chunkFile # NoFile
          /\ manifest.fp.filings = r.filings /\ manifest.fp.cfg = r.cfg
      BY <1>2 DEF StartPartial, Reusable, Fingerprint, TypeOK
    <2> QED BY <1>2, <2>1 DEF StartPartial
  <1>3. ASSUME NEW r \in Requests, StartFresh(r) PROVE CompleteInv'
    <2>1. ASSUME r.ckpt, manifest \in ManifestRecord PROVE FALSE
      <3>1. chunkFile # NoFile /\ manifest \notin {NoFile, TornFile}
        BY <1>3, <2>1 DEF StartFresh
      <3>2. manifest.fp = Fingerprint(r)
        BY <2>1
      <3> QED BY <1>3, <2>1, <3>1, <3>2 DEF StartFresh, Reusable
    <2> QED BY <1>3, <2>1 DEF StartFresh, AllOf
  <1>4. CASE ClearRows \/ ClearMeta
    BY <1>4 DEF ClearRows, ClearMeta
  <1>6. ASSUME NEW f \in Filings, ChunkOne(f) PROVE CompleteInv'
    <2>1. /\ pc = "chunk" /\ f \in todo /\ AllOf(chunks, done, req.cfg)
          /\ chunks \in Seq(Chunk) /\ done \in SUBSET Filings /\ req.cfg \in Cfgs
      BY <1>6, BuildAssumption DEF ChunkOne, TypeOK, Request
    <2>2. AllOf(chunks', done', req.cfg)
      BY <1>6, <2>1, ExtendAll DEF ChunkOne
    <2> QED BY <1>6, <2>1, <2>2 DEF ChunkOne
  <1>7. CASE ChunkingDone
    BY <1>7 DEF ChunkingDone
  <1>8. CASE SaveChunks
    <2>1. /\ pc = "saveChunks" /\ req.ckpt /\ req \in Requests
          /\ chunkFile' = chunks /\ chunks \in Seq(Chunk) /\ AllOf(chunks, done, req.cfg)
      BY <1>8 DEF SaveChunks, TypeOK
    <2>2. manifest \in ManifestRecord =>
            manifest.fp.cfg = req.cfg /\ manifest.completed \subseteq done
      <3> SUFFICES ASSUME manifest \in ManifestRecord
                   PROVE  manifest.fp.cfg = req.cfg /\ manifest.completed \subseteq done
        OBVIOUS
      <3>1. PICK r \in Requests : manifest.fp = Fingerprint(r)
        OBVIOUS
      <3>2. manifest.fp = Fingerprint(req)
        BY <2>1, <3>1
      <3> QED BY <2>1, <3>2 DEF Fingerprint
    <2>3. manifest \in ManifestRecord => AllOf(chunks, manifest.completed, manifest.fp.cfg)
      BY <2>1, <2>2 DEF AllOf
    <2> QED BY <1>8, <2>1, <2>3 DEF SaveChunks
  <1>9. CASE SaveManifest
    <2>1. /\ manifest'.fp = Fingerprint(req) /\ manifest'.fp.cfg = req.cfg
          /\ manifest'.fp.filings = req.filings /\ req \in Requests
          /\ manifest'.completed = done /\ manifest'.whole = (todo = {})
      BY <1>9 DEF SaveManifest, Fingerprint, TypeOK
    <2>2. chunkFile' = chunks /\ chunks # NoFile
      BY <1>9 DEF SaveManifest, TypeOK
    <2> QED BY <1>9, <2>1, <2>2 DEF SaveManifest
  <1>10. CASE RaiseNoChunks
    BY <1>10 DEF RaiseNoChunks
  <1>11. CASE LoadCheckpointedRows \/ WriteMeta \/ EmbedOne \/ EmbeddingDone
    BY <1>11 DEF LoadCheckpointedRows, WriteMeta, EmbedOne, EmbeddingDone
  <1>12. CASE Publish
    BY <1>12 DEF Publish
  <1>13. CASE DropChunks
    BY <1>13 DEF DropChunks
  <1>14. CASE DropManifest
    BY <1>14 DEF DropManifest
  <1>15. CASE DropRows
    BY <1>15 DEF DropRows
  <1>16. CASE DropMeta
    BY <1>16 DEF DropMeta
  <1>17. CASE Crash
    BY <1>17 DEF Crash
  <1>18. CASE CrashInManifest
    BY <1>18 DEF CrashInManifest
  <1>19. CASE CrashInMeta
    BY <1>19 DEF CrashInMeta
  <1>20. CASE CrashInAppend
    BY <1>20 DEF CrashInAppend
  <1>21. CASE UNCHANGED vars
    BY <1>21 DEF vars
  <1> QED
    BY <1>1, <1>2, <1>3, <1>4, <1>6, <1>7, <1>8, <1>9, <1>10, <1>11, <1>12, <1>13,
       <1>14, <1>15, <1>16, <1>17, <1>18, <1>19, <1>20, <1>21
    DEF Next, Start, Step, Die

(* Where builds of one fingerprint are started over and over and none dies *)
(* between the removal of the chunk file and that of its manifest, resumed *)
(* builds skip no chunk: deaths between the two writes of a save, or       *)
(* inside the second, do no harm then.                                     *)
THEOREM NothingEverLost ==
  ASSUME "dropManifest" \notin CrashAt,
         \A r, s \in Requests : Fingerprint(r) = Fingerprint(s)
  PROVE  Spec => []NothingLost
  <1>1. Init => CompleteInv
    BY SentinelAssumption DEF Init, CompleteInv, DiskComplete, MemoryComplete
  <1>2. CompleteInv => NothingLost
    BY DEF CompleteInv, MemoryComplete, NothingLost, AllOf
  <1> QED BY <1>1, <1>2, CompleteNext, TypeCorrect, PTL DEF Spec

-----------------------------------------------------------------------------
(* Handing over complete chunks with aligned rows is what was promised.    *)
LEMMA PublishPromised ==
  ASSUME TypeOK, RowsAligned, ChunkedOnce, Publish
  PROVE  Promise!Next
  <1>1. /\ handed' = [req |-> req, chunks |-> chunks, vecs |-> vecs]
        /\ pc = "publish"
    BY DEF Publish
  <1>2. req \in Requests /\ chunks \in Seq(Chunk) /\ vecs \in Seq(Row)
    BY <1>1 DEF TypeOK
  <1>3. handed' # NoBuild
    BY <1>1, <1>2, SentinelAssumption
  <1>4. ExactlyOnce(chunks, req.filings \ Missing, req.cfg)
    BY <1>1 DEF ChunkedOnce
  <1>5. Len(vecs) = Len(chunks) /\ Aligned(vecs, chunks, req.cfg)
    BY <1>1 DEF RowsAligned
  <1>6. Promise!Hands(req, chunks, vecs)
    BY <1>4, <1>5
    DEF Promise!Hands, ExactlyOnce, OnlyOf, AllOf, NoRepeats, Aligned
  <1> QED BY <1>1, <1>2, <1>3, <1>6 DEF Promise!Next, Promise!HandOver

(* Only Publish hands anything to the index.                               *)
LEMMA OnlyPublishHands == [Next]_vars /\ ~Publish => UNCHANGED handed
  <1> SUFFICES ASSUME [Next]_vars, ~Publish PROVE UNCHANGED handed
    OBVIOUS
  <1>1. CASE Start
    BY <1>1 DEF Start, StartWhole, StartPartial, StartFresh
  <1>2. CASE Step
    BY <1>2 DEF Step, ClearRows, ClearMeta, ChunkOne, ChunkingDone, SaveChunks,
      SaveManifest, RaiseNoChunks, LoadCheckpointedRows, WriteMeta, EmbedOne,
      EmbeddingDone, DropChunks, DropManifest, DropRows, DropMeta
  <1>3. CASE Die
    BY <1>3 DEF Die, Crash, CrashInManifest, CrashInMeta, CrashInAppend
  <1>4. CASE UNCHANGED vars
    BY <1>4 DEF vars
  <1> QED BY <1>1, <1>2, <1>3, <1>4 DEF Next

(* The checkpointed build, with its crashes and resumptions, implements    *)
(* the build that is never interrupted.                                    *)
THEOREM BuildKeepsPromise ==
  ASSUME "rows" \notin TornFiles, "saveManifest" \notin CrashAt
  PROVE  Spec => KeepsPromise
  <1>1. Spec => []TypeOK /\ []RowsAligned /\ []ChunkedOnce
    BY TypeCorrect, RowsStayAligned, ChunksComeOnce
  <1>2. Init => Promise!Init
    BY DEF Init, Promise!Init
  <1>3. TypeOK /\ RowsAligned /\ ChunkedOnce /\ [Next]_vars
          => [Promise!Next]_handed
    BY PublishPromised, OnlyPublishHands
  <1> QED BY <1>1, <1>2, <1>3, PTL DEF Spec, KeepsPromise, Promise!Spec

=============================================================================
