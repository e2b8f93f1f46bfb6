------------------------------- MODULE Ingest -------------------------------
(***************************************************************************)
(* Downloading filings: ingest() over a list of tickers, with the raw      *)
(* documents in the local object store and the manifest that records them. *)
(* The command may die between any two writes and inside each of them.     *)
(*                                                                         *)
(* A document is known by its storage key, the filing and the fiscal year  *)
(* that the key carries.  That year is derived from what EDGAR says of the *)
(* company's year end today, which may change.                             *)
(***************************************************************************)
EXTENDS Integers, Sequences

CONSTANTS
  Tickers, Filings,
  Years,      \* Years[f]: the fiscal years f may come to be filed under
  Listing,    \* Listing[t]: the filings EDGAR lists for t
  Lists,      \* the ticker lists the command is run with
  NoFile, Torn, Whole, NoKey

Key == UNION {[filing : {f}, year : Years[f]] : f \in Filings}
Places == {"idle", "tickers", "filings", "write", "rename", "save", "publish"}

ASSUME IngestAssumption ==
  /\ DOMAIN Years = Filings /\ \A f \in Filings : Years[f] \in (SUBSET Nat) \ {{}}
  /\ Listing \in [Tickers -> SUBSET Filings]
  /\ Lists \subseteq Seq(Tickers)
  /\ NoFile # Torn /\ Torn # Whole /\ Whole # NoFile
  /\ \A m \in SUBSET Key : m # NoFile /\ m # Torn
  /\ \A k \in Key : k # NoKey

VARIABLES
  year,               \* the fiscal year each filing is filed under today
  doc, docTmp,        \* documents in the store, and their temporary files
  manifest, manTmp,   \* manifest.json and its temporary file, sets of keys
  pc, mem,            \* where ingest() stands, its copy of the manifest,
  todo, listed, key,  \* the tickers and keys to go, the key it is at
  fetched             \* documents downloaded, but for those whose recording
                      \* a death prevented (history)

disk == <<doc, docTmp, manifest, manTmp>>
work == <<pc, mem, todo, listed, key>>
vars == <<year, disk, work, fetched>>

-----------------------------------------------------------------------------
Recorded(m) == {k.filing : k \in m}

(* Mutant of Added: an entry takes the place of all others.                *)
AddedAlone(m, k) == {k}

(* Manifest.add: an entry takes the place of an earlier one of the filing. *)
Added(m, k) == {x \in m : x.filing # k.filing} \cup {k}

(* Mutant of OnHand: the store alone decides.                              *)
OnHandByStore(k) == doc[k] # NoFile

(* The filing is in the manifest and a document is stored under this key.  *)
OnHand(k) == k.filing \in Recorded(mem) /\ doc[k] # NoFile

Init ==
  /\ year = [f \in Filings |-> CHOOSE y \in Years[f] : TRUE]
  /\ doc = [k \in Key |-> NoFile] /\ docTmp = [k \in Key |-> NoFile]
  /\ manifest = {} /\ manTmp = NoFile
  /\ pc = "idle" /\ mem = {} /\ todo = <<>> /\ listed = {} /\ key = NoKey
  /\ fetched = {}

(* A change of the company's year end shows in its next listing.           *)
YearMoves(f, y) ==
  /\ y \in Years[f] \ {year[f]}
  /\ year' = [year EXCEPT ![f] = y]
  /\ UNCHANGED <<disk, work, fetched>>

Start(list) ==
  /\ pc = "idle"
  /\ pc' = "tickers" /\ todo' = list /\ mem' = manifest
  /\ UNCHANGED <<year, disk, listed, key, fetched>>

(* ingest() ends, by itself or with its process.                           *)
Ends == pc' = "idle" /\ mem' = {} /\ todo' = <<>> /\ listed' = {} /\ key' = NoKey

Done ==
  /\ pc = "tickers" /\ todo = <<>>
  /\ Ends
  /\ UNCHANGED <<year, disk, fetched>>

(* Mutant of List: the fiscal year is one too late.                        *)
ListYearLate ==
  /\ pc = "tickers" /\ todo # <<>>
  /\ todo' = Tail(todo)
  /\ listed' = {[filing |-> f, year |-> year[f] + 1] : f \in Listing[Head(todo)]}
  /\ pc' = "filings"
  /\ UNCHANGED <<year, disk, mem, key, fetched>>

List ==
  /\ pc = "tickers" /\ todo # <<>>
  /\ todo' = Tail(todo)
  /\ listed' = {[filing |-> f, year |-> year[f]] : f \in Listing[Head(todo)]}
  /\ pc' = "filings"
  /\ UNCHANGED <<year, disk, mem, key, fetched>>

(* A KeyError, which stands for an unknown ticker, skips the ticker; any   *)
(* other exception of the listing ends the run (see Dies).                 *)
ListingUnknown ==
  /\ pc = "tickers" /\ todo # <<>>
  /\ todo' = Tail(todo)
  /\ UNCHANGED <<year, disk, pc, mem, listed, key, fetched>>

FilingsDone ==
  /\ pc = "filings" /\ listed = {}
  /\ pc' = "tickers"
  /\ UNCHANGED <<year, disk, mem, todo, listed, key, fetched>>

Skip(k) ==
  /\ pc = "filings" /\ k \in listed /\ OnHand(k)
  /\ listed' = listed \ {k}
  /\ UNCHANGED <<year, disk, pc, mem, todo, key, fetched>>

(* One filing that cannot be had must not stop the run.                    *)
FetchFails(k) ==
  /\ pc = "filings" /\ k \in listed /\ ~OnHand(k)
  /\ listed' = listed \ {k}
  /\ UNCHANGED <<year, disk, pc, mem, todo, key, fetched>>

Fetch(k) ==
  /\ pc = "filings" /\ k \in listed /\ ~OnHand(k)
  /\ listed' = listed \ {k} /\ key' = k
  /\ fetched' = fetched \cup {k}
  /\ pc' = "write"
  /\ UNCHANGED <<year, disk, mem, todo>>

(* Mutant of PutWrite: the document is written where it is to stand.       *)
PutWriteInPlace ==
  /\ pc = "write"
  /\ doc' = [doc EXCEPT ![key] = Torn]
  /\ docTmp' = [docTmp EXCEPT ![key] = Whole]
  /\ pc' = "rename"
  /\ UNCHANGED <<year, manifest, manTmp, mem, todo, listed, key, fetched>>

(* LocalObjectStore.put_bytes writes a temporary file ...                  *)
PutWrite ==
  /\ pc = "write"
  /\ docTmp' = [docTmp EXCEPT ![key] = Whole]
  /\ pc' = "rename"
  /\ UNCHANGED <<year, doc, manifest, manTmp, mem, todo, listed, key, fetched>>

(* ... and renames it; then the filing is added to the manifest ...        *)
PutRename ==
  /\ pc = "rename"
  /\ doc' = [doc EXCEPT ![key] = docTmp[key]]
  /\ docTmp' = [docTmp EXCEPT ![key] = NoFile]
  /\ mem' = Added(mem, key)
  /\ pc' = "save"
  /\ UNCHANGED <<year, manifest, manTmp, todo, listed, key, fetched>>

(* Mutant of SaveManifest: the manifest is saved before the filing is in.  *)
SaveManifestBeforeAdd ==
  /\ pc = "save"
  /\ manTmp' = mem \ {key}
  /\ pc' = "publish"
  /\ UNCHANGED <<year, doc, docTmp, manifest, mem, todo, listed, key, fetched>>

(* ... which is saved in the same way.                                     *)
SaveManifest ==
  /\ pc = "save"
  /\ manTmp' = mem
  /\ pc' = "publish"
  /\ UNCHANGED <<year, doc, docTmp, manifest, mem, todo, listed, key, fetched>>

PublishManifest ==
  /\ pc = "publish"
  /\ manifest' = manTmp /\ manTmp' = NoFile
  /\ key' = NoKey /\ pc' = "filings"
  /\ UNCHANGED <<year, doc, docTmp, mem, todo, listed, fetched>>

(* The process dies, or an exception of the listing, the store or the      *)
(* manifest ends it; a temporary file may be left half-written.            *)
Dies ==
  /\ pc # "idle"
  /\ Ends
  /\ docTmp' \in {docTmp} \cup
       (IF pc = "write" THEN {[docTmp EXCEPT ![key] = Torn]} ELSE {})
  /\ manTmp' \in {manTmp} \cup (IF pc = "save" THEN {Torn} ELSE {})
  /\ fetched' = fetched \ {key}
  /\ UNCHANGED <<year, doc, manifest>>

-----------------------------------------------------------------------------
Next ==
  \/ \E f \in Filings : \E y \in Years[f] : YearMoves(f, y)
  \/ \E list \in Lists : Start(list)
  \/ Done \/ List \/ ListingUnknown \/ FilingsDone
  \/ \E k \in listed : Skip(k) \/ FetchFails(k) \/ Fetch(k)
  \/ PutWrite \/ PutRename \/ SaveManifest \/ PublishManifest
  \/ Dies

Spec == Init /\ [][Next]_vars

AtFiling(f) == key # NoKey /\ key.filing = f

(* A download that is begun over and over is survived to the end.          *)
Survives(f) ==
  []<>AtFiling(f) => []<><<AtFiling(f) /\ PublishManifest>>_vars

(* Of the runs over a list some get as far as its i-th ticker.             *)
GetsTo(list, i) == []<>(pc = "tickers" /\ todo = SubSeq(list, i, Len(list)))

(* The command is run again and again; runs may be cut off anywhere, but   *)
(* not all of them before the same ticker; and no listing, no download and *)
(* no record fails for ever.                                               *)
Fairness ==
  /\ \A list \in Lists : \A i \in DOMAIN list : GetsTo(list, i)
  /\ \A t \in Tickers : SF_vars(todo # <<>> /\ Head(todo) = t /\ List)
  /\ \A f \in Filings :
       /\ SF_vars(\E k \in listed : k.filing = f /\ Fetch(k))
       /\ Survives(f)

FairSpec == Spec /\ Fairness

-----------------------------------------------------------------------------
(* Types: a key in work or recorded always carries a year EDGAR has given. *)
TypeOK ==
  /\ DOMAIN year = Filings /\ \A f \in Filings : year[f] \in Years[f]
  /\ doc \in [Key -> {NoFile, Torn, Whole}]
  /\ docTmp \in [Key -> {NoFile, Torn, Whole}]
  /\ manifest \subseteq Key /\ mem \subseteq Key /\ listed \subseteq Key
  /\ manTmp \in {NoFile, Torn} \/ manTmp \subseteq Key
  /\ pc \in Places /\ todo \in Seq(Tickers)
  /\ IF pc \in {"write", "rename", "save", "publish"}
       THEN key \in Key ELSE key = NoKey
  /\ pc = "publish" => manTmp \subseteq Key
  /\ fetched \subseteq Key

(* What the manifest records can be parsed: the document is in the store   *)
(* under the key that is recorded, complete, whatever run was interrupted; *)
(* "an interrupted run never leaves a half-written filing".                *)
Backed == \A k \in manifest : doc[k] = Whole

(* A half-written document is never taken for a stored one, recorded or    *)
(* not, although the temporary file of an earlier death may lie around.    *)
DocsWhole == \A k \in Key : doc[k] # Torn

(* The store is what the manifest and later runs take it for.              *)
Stored == Backed /\ DocsWhole

(* A filing is downloaded once for each fiscal year that it is listed      *)
(* under, but for downloads that a death kept from being recorded, also    *)
(* when two tickers list it and when its year moves to and fro; and one    *)
(* that is recorded is downloaded again only if its year has moved since.  *)
(* Manifest says that what is recorded is never downloaded again: that is  *)
(* so for filings whose year stays.                                        *)
DownloadedOnce ==
  [][\A k \in Key :
       key = NoKey /\ key' = k =>
         /\ k \notin fetched
         /\ k.filing \in Recorded(manifest) =>
              \E x \in manifest : x.filing = k.filing /\ x.year # k.year]_vars

(* No run, and no death, takes a filing off the manifest: later stages     *)
(* build on it filing by filing.                                           *)
NothingForgotten == [][Recorded(manifest) \subseteq Recorded(manifest')]_vars

(* Every filing that EDGAR lists for a ticker of the lists is recorded in  *)
(* the end, although runs die, listings are skipped and downloads fail.    *)
AllRecorded ==
  \A list \in Lists : \A i \in DOMAIN list : \A f \in Listing[list[i]] :
    <>[](f \in Recorded(manifest))
=============================================================================
