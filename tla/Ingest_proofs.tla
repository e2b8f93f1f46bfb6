----------------------------- MODULE Ingest_proofs -----------------------------
(* Proofs about Ingest, for any filings, tickers, listings and years.      *)
EXTENDS Ingest, TLAPS

-----------------------------------------------------------------------------
LEMMA KeyOfFiling ==
  ASSUME NEW f \in Filings, NEW y \in Years[f]
  PROVE  [filing |-> f, year |-> y] \in Key
  BY DEF Key

LEMMA KeyNotNoKey == NoKey \notin Key
  BY IngestAssumption

(* A key is its filing and its year.                                       *)
LEMMA SameKey ==
  ASSUME NEW k \in Key, NEW x \in Key, k.filing = x.filing, k.year = x.year
  PROVE  k = x
  BY DEF Key

(* Adding a filing to a set of keys keeps the filings recorded in it.      *)
LEMMA AddedRecords ==
  ASSUME NEW m \in SUBSET Key, NEW k \in Key
  PROVE  /\ Added(m, k) \in SUBSET Key
         /\ Recorded(Added(m, k)) = Recorded(m) \cup {k.filing}
  BY DEF Added, Recorded

-----------------------------------------------------------------------------
(* Type correctness.                                                       *)

LEMMA TypeInit == Init => TypeOK
  <1> SUFFICES ASSUME Init PROVE TypeOK
    OBVIOUS
  <1>1. \A f \in Filings : (CHOOSE y \in Years[f] : TRUE) \in Years[f]
    BY IngestAssumption
  <1> QED BY <1>1 DEF Init, TypeOK, Places

LEMMA TypeNext == TypeOK /\ [Next]_vars => TypeOK'
  <1> SUFFICES ASSUME TypeOK, [Next]_vars PROVE TypeOK'
    OBVIOUS
  <1> USE DEF TypeOK, Places, Ends
  <1>1. ASSUME NEW f \in Filings, NEW y \in Years[f], YearMoves(f, y) PROVE TypeOK'
    BY <1>1 DEF YearMoves, disk, work
  <1>2. ASSUME NEW list \in Lists, Start(list) PROVE TypeOK'
    BY <1>2, IngestAssumption DEF Start, disk
  <1>3. ASSUME Done PROVE TypeOK'
    BY <1>3 DEF Done, disk, work
  <1>4. ASSUME List PROVE TypeOK'
    <2>1. listed' \subseteq Key
      BY <1>4, KeyOfFiling, IngestAssumption DEF List
    <2>2. todo' \in Seq(Tickers)
      BY <1>4 DEF List
    <2> QED BY <1>4, <2>1, <2>2 DEF List, disk
  <1>5. ASSUME ListingUnknown PROVE TypeOK'
    BY <1>5 DEF ListingUnknown, disk, work
  <1>6. ASSUME FilingsDone PROVE TypeOK'
    BY <1>6 DEF FilingsDone, disk, work
  <1>7. ASSUME NEW k \in listed, Skip(k) PROVE TypeOK'
    BY <1>7 DEF Skip, disk, work
  <1>8. ASSUME NEW k \in listed, FetchFails(k) PROVE TypeOK'
    BY <1>8 DEF FetchFails, disk, work
  <1>9. ASSUME NEW k \in listed, Fetch(k) PROVE TypeOK'
    BY <1>9 DEF Fetch, disk, work
  <1>10. ASSUME PutWrite PROVE TypeOK'
    BY <1>10 DEF PutWrite, disk, work
  <1>11. ASSUME PutRename PROVE TypeOK'
    <2>1. key \in Key
      BY <1>11 DEF PutRename
    <2>2. mem' \subseteq Key
      BY <1>11, <2>1, AddedRecords DEF PutRename
    <2> QED BY <1>11, <2>1, <2>2 DEF PutRename
  <1>12. ASSUME SaveManifest PROVE TypeOK'
    BY <1>12 DEF SaveManifest, disk, work
  <1>13. ASSUME PublishManifest PROVE TypeOK'
    BY <1>13 DEF PublishManifest, disk, work
  <1>14. ASSUME Dies PROVE TypeOK'
    BY <1>14 DEF Dies, disk, work
  <1>15. ASSUME UNCHANGED vars PROVE TypeOK'
    BY <1>15 DEF vars, disk, work
  <1> QED
    BY <1>1, <1>2, <1>3, <1>4, <1>5, <1>6, <1>7, <1>8, <1>9, <1>10,
             <1>11, <1>12, <1>13, <1>14, <1>15
    DEF Next

(* The files and the run keep their types.                                 *)
THEOREM TypeCorrect == Spec => []TypeOK
  BY TypeInit, TypeNext, PTL DEF Spec

-----------------------------------------------------------------------------
(* What is on the disk, and how far the run's copy of the manifest is      *)
(* ahead of it.                                                            *)
DiskWhole ==
  /\ DocsWhole
  /\ \A k \in manifest : doc[k] = Whole
  /\ pc = "rename" => docTmp[key] = Whole

CopyAhead ==
  /\ \A k \in mem : doc[k] = Whole
  /\ pc = "publish" => manTmp = mem
  /\ pc # "idle" => Recorded(manifest) \subseteq Recorded(mem)
  /\ pc \in {"save", "publish"} => key \in mem /\ doc[key] = Whole

(* Every document downloaded is at hand, or is the one the run is at.      *)
FetchedAtHand ==
  \A k \in fetched :
    k = key \/ (doc[k] = Whole /\ k.filing \in Recorded(manifest))

IngestInv == DiskWhole /\ CopyAhead /\ FetchedAtHand

LEMMA WholeIsFile == Whole # NoFile /\ Whole # Torn /\ Torn # NoFile
  BY IngestAssumption

LEMMA InvInit == Init => IngestInv
  BY WholeIsFile DEF Init, IngestInv, DiskWhole, DocsWhole, CopyAhead, FetchedAtHand

LEMMA InvNext == TypeOK /\ IngestInv /\ [Next]_vars => IngestInv'
  <1> SUFFICES ASSUME TypeOK, IngestInv, [Next]_vars PROVE IngestInv'
    OBVIOUS
  <1> USE WholeIsFile
      DEF TypeOK, IngestInv, DiskWhole, DocsWhole, CopyAhead, FetchedAtHand, Ends
  <1>1. ASSUME NEW f \in Filings, NEW y \in Years[f], YearMoves(f, y) PROVE IngestInv'
    BY <1>1 DEF YearMoves, disk, work
  <1>2. ASSUME NEW list \in Lists, Start(list) PROVE IngestInv'
    BY <1>2 DEF Start, disk, work
  <1>3. ASSUME Done PROVE IngestInv'
    BY <1>3 DEF Done, disk, work
  <1>4. ASSUME List PROVE IngestInv'
    BY <1>4 DEF List, disk, work
  <1>5. ASSUME ListingUnknown PROVE IngestInv'
    BY <1>5 DEF ListingUnknown, disk, work
  <1>6. ASSUME FilingsDone PROVE IngestInv'
    BY <1>6 DEF FilingsDone, disk, work
  <1>7. ASSUME NEW k \in listed, Skip(k) PROVE IngestInv'
    BY <1>7 DEF Skip, disk, work
  <1>8. ASSUME NEW k \in listed, FetchFails(k) PROVE IngestInv'
    BY <1>8 DEF FetchFails, disk, work
  <1>9. ASSUME NEW k \in listed, Fetch(k) PROVE IngestInv'
    <2>1. key = NoKey /\ \A x \in fetched : x # NoKey
      BY <1>9, KeyNotNoKey DEF Fetch
    <2> QED BY <1>9, <2>1 DEF Fetch, disk
  <1>10. ASSUME PutWrite PROVE IngestInv'
    BY <1>10 DEF PutWrite, disk, work
  <1>11. ASSUME PutRename PROVE IngestInv'
    <2>1. /\ key \in Key /\ docTmp[key] = Whole
          /\ doc' = [doc EXCEPT ![key] = Whole]
      BY <1>11 DEF PutRename
    <2>2. /\ mem' = Added(mem, key) /\ mem' \subseteq mem \cup {key} /\ key \in mem'
          /\ Recorded(mem) \subseteq Recorded(mem')
      BY <1>11, <2>1, AddedRecords DEF PutRename, Added
    <2>3. doc'[key] = Whole /\ \A k \in Key : doc[k] = Whole => doc'[k] = Whole
      BY <2>1
    <2>4. DiskWhole'
      BY <1>11, <2>1, <2>3 DEF PutRename
    <2>5. CopyAhead'
      BY <1>11, <2>2, <2>3 DEF PutRename
    <2>6. FetchedAtHand'
      BY <1>11, <2>3 DEF PutRename
    <2> QED BY <2>4, <2>5, <2>6
  <1>12. ASSUME SaveManifest PROVE IngestInv'
    BY <1>12 DEF SaveManifest, disk, work
  <1>13. ASSUME PublishManifest PROVE IngestInv'
    <2>1. /\ manifest' = mem /\ doc' = doc /\ mem' = mem /\ pc' = "filings"
          /\ fetched' = fetched
      BY <1>13 DEF PublishManifest
    <2>2. key \in mem /\ key.filing \in Recorded(mem)
      BY <1>13 DEF PublishManifest, Recorded
    <2>3. Recorded(manifest) \subseteq Recorded(mem)
      BY <1>13 DEF PublishManifest
    <2>4. FetchedAtHand'
      BY <1>13, <2>1, <2>2, <2>3 DEF PublishManifest
    <2> QED BY <1>13, <2>1, <2>4 DEF PublishManifest
  <1>14. ASSUME Dies PROVE IngestInv'
    BY <1>14 DEF Dies, disk, work
  <1>15. ASSUME UNCHANGED vars PROVE IngestInv'
    BY <1>15 DEF vars, disk, work
  <1> QED
    BY <1>1, <1>2, <1>3, <1>4, <1>5, <1>6, <1>7, <1>8, <1>9, <1>10,
             <1>11, <1>12, <1>13, <1>14, <1>15
    DEF Next

LEMMA InvHolds == Spec => [](TypeOK /\ IngestInv)
  BY TypeInit, TypeNext, InvInit, InvNext, PTL DEF Spec

(* What the manifest records is in the store, complete, whatever run was   *)
(* interrupted wherever.                                                   *)
THEOREM RecordedIsBacked == Spec => []Backed
  <1>1. IngestInv => Backed
    BY DEF IngestInv, DiskWhole, Backed
  <1> QED BY <1>1, InvHolds, PTL

(* No half-written document stands where a whole one is looked for.        *)
THEOREM DocumentsAreWhole == Spec => []DocsWhole
  <1>1. IngestInv => DocsWhole
    BY DEF IngestInv, DiskWhole
  <1> QED BY <1>1, InvHolds, PTL

(* The two together: the store can be relied on.                           *)
THEOREM StoreIsWhole == Spec => []Stored
  <1>1. Backed /\ DocsWhole => Stored
    BY DEF Stored
  <1> QED BY <1>1, RecordedIsBacked, DocumentsAreWhole, PTL

(* Only a manifest that is ahead of the one on the disk takes its place.   *)
LEMMA ManifestGrows ==
  TypeOK /\ IngestInv /\ [Next]_vars => Recorded(manifest) \subseteq Recorded(manifest')
  <1> SUFFICES ASSUME TypeOK, IngestInv, [Next]_vars
               PROVE  Recorded(manifest) \subseteq Recorded(manifest')
    OBVIOUS
  <1>1. CASE PublishManifest
    BY <1>1 DEF PublishManifest, IngestInv, CopyAhead
  <1>2. CASE ~PublishManifest
    <2>1. manifest' = manifest
      BY <1>2 DEF Next, YearMoves, Start, Done, List, ListingUnknown, FilingsDone,
         Skip, FetchFails, Fetch, PutWrite, PutRename, SaveManifest, Dies, vars, disk
    <2> QED BY <2>1
  <1> QED BY <1>1, <1>2

(* No run and no death takes a filing off the manifest.                    *)
THEOREM NothingIsForgotten == Spec => NothingForgotten
  <1>1. TypeOK /\ IngestInv /\ [Next]_vars
          => [Recorded(manifest) \subseteq Recorded(manifest')]_vars
    BY ManifestGrows
  <1> QED BY <1>1, InvHolds, PTL DEF Spec, NothingForgotten

(* Only a download sets the key the run is at, and it finds no document.   *)
LEMMA OnceStep ==
  TypeOK /\ IngestInv /\ [Next]_vars
    => \A k \in Key :
         key = NoKey /\ key' = k =>
           /\ k \notin fetched
           /\ k.filing \in Recorded(manifest) =>
                \E x \in manifest : x.filing = k.filing /\ x.year # k.year
  <1> SUFFICES ASSUME TypeOK, IngestInv, [Next]_vars,
                      NEW k \in Key, key = NoKey, key' = k
               PROVE  /\ k \notin fetched
                      /\ k.filing \in Recorded(manifest) =>
                           \E x \in manifest : x.filing = k.filing /\ x.year # k.year
    OBVIOUS
  <1>1. k # NoKey
    BY KeyNotNoKey
  <1>2. PICK x \in listed : Fetch(x)
    BY <1>1 DEF Next, YearMoves, Start, Done, List, ListingUnknown, FilingsDone,
       Skip, FetchFails, PutWrite, PutRename, SaveManifest, PublishManifest,
       Dies, Ends, vars, work
  <1>3. x = k /\ ~OnHand(k) /\ Recorded(manifest) \subseteq Recorded(mem)
    BY <1>2 DEF Fetch, IngestInv, CopyAhead
  <1>4. k \notin fetched
    <2> SUFFICES ASSUME k \in fetched PROVE FALSE
      OBVIOUS
    <2>1. doc[k] = Whole /\ k.filing \in Recorded(manifest)
      BY <1>1 DEF TypeOK, IngestInv, FetchedAtHand
    <2> QED BY <2>1, <1>3, WholeIsFile DEF OnHand
  <1>5. ASSUME k.filing \in Recorded(manifest)
        PROVE  \E y \in manifest : y.filing = k.filing /\ y.year # k.year
    <2>1. PICK y \in manifest : y.filing = k.filing
      BY <1>5 DEF Recorded
    <2>2. doc[k] = NoFile
      BY <1>3, <1>5 DEF OnHand
    <2>3. doc[y] = Whole /\ y \in Key
      BY DEF IngestInv, DiskWhole, TypeOK
    <2>4. y # k
      BY <2>2, <2>3, WholeIsFile
    <2>5. y.year # k.year
      BY <2>1, <2>3, <2>4, SameKey
    <2> QED BY <2>1, <2>5
  <1> QED BY <1>4, <1>5

(* No document is downloaded twice under one year, but where a death kept  *)
(* it from being recorded, and no recorded filing again unless its year    *)
(* has moved.                                                              *)
THEOREM EachDownloadedOnce == Spec => DownloadedOnce
  <1>1. TypeOK /\ IngestInv /\ [Next]_vars
          => [\A k \in Key :
                key = NoKey /\ key' = k =>
                  /\ k \notin fetched
                  /\ k.filing \in Recorded(manifest) =>
                       \E x \in manifest : x.filing = k.filing /\ x.year # k.year]_vars
    BY OnceStep
  <1> QED BY <1>1, InvHolds, PTL DEF Spec, DownloadedOnce
=============================================================================
