# Verification of edgar-rag

TLA+ modules, TLC configurations and TLAPS proofs about edgar-rag, a retrieval-augmented
question answering system over SEC filings: filings are downloaded, parsed, chunked, embedded
and indexed in batches that may be interrupted anywhere, and a service answers questions over
the index with an LLM, under a budget and with a response cache.

## The system

| component | state it keeps | operations | hard because |
|---|---|---|---|
| ingestion (`ingest/pipeline.py`, `manifest.py`) | `manifest.json`, raw documents in the object store | list, skip, download, store, record | dies between two writes; keys that depend on data that may change |
| EDGAR client, rate limiter (`ingest/client.py`, `rate_limit.py`) | ticker map, next allowed time | throttled requests with retries, fiscal periods | threads that oversleep, retries, calendar boundaries |
| object storage (`storage/`) | files or S3 objects | put, get, exists | a write is interrupted |
| parsing (`parsing/`) | none | HTML to text, section headings, cutting into sections | headings that occur several times, tables of contents that look like sections |
| chunking (`chunking/`) | the chunk at work | sentences, breakpoints, packing, overlap, ids | token budget at a boundary, text dropped or repeated between chunks |
| embeddings (`embeddings/`) | a loaded model | embed documents, embed query | – |
| index build (`index/builder.py`, `checkpoint.py`) | chunk checkpoint (file + manifest), embedding checkpoint (rows + metadata) | chunk, embed, resume, publish, clear | dies anywhere, is restarted with the same or another request |
| persisted index (`index/faiss_index.py`, `chunk_store.py`, `retrieval/bm25.py`, `postings.py`) | five files | save, load, append, retrain | files are replaced one by one while a server reads them |
| growth (`scripts/scale.py`, `scripts/index.py`) | none of its own | batch, reindex, build | decides from the files above what to do next |
| retrieval (`retrieval/`, `index/metadata.py`, `index/faiss_index.py`) | loaded index, metadata filter, term statistics | add, upgrade, retrain, load; dense, sparse, hybrid search with filters | three numberings that must agree after any history; ties and ids that repeat |
| generation (`generation/`) | budget, response cache | complete, check, record, get, put | shared by all threads of the service |
| query service (`api/main.py`) | running totals | `/query`, `/health` | requests overlap |
| database (`db/`), evaluation (`eval/`) | tables; reports | record an answer; score a run | – |

Ingestion leaves documents and the manifest to the index build; `scale.py` reads the manifest and
the index to choose a batch and calls the index build; the build returns chunks and vectors to
`build_index`, which appends them and saves the files; the query service loads the files once
(and reads chunk text from them for ever) and calls the LLM through one client that all its
worker threads share.

What makes each component correct:

* ingestion: what is recorded is stored, whole, and never forgotten; nothing is downloaded twice but
  after a death or when its year moves; every listed filing gets there in the end;
* index build: vector i belongs to chunk i, every wanted chunk is there once, an interruption
  costs little, and interrupted builds add up to finished ones;
* EDGAR client: requests that are sent on time keep their distance, the rate holds in the long run whatever threads do, every call ends, a report carries the
  fiscal year and quarter its company gives it;
* parsing and chunking: every line of a section that is long enough is in a chunk, labelled with its
  own item under an id of its own, within the token budget;
* retrieval: row, chunk, filter entry and statistics of one number belong together, a hit passes the
  filter, what both retrievers like comes first;
* persisted index: the files describe the same chunks, a hit has its own text and statistics,
  growth loses nothing and repeats nothing, and what is ingested is indexed in the end;
* service: an answer is to the question asked, the accounts are exact, the ceiling for one request
  never falls on another, and what is in the cache is not paid for again.

## Modules

| module | what it is | code |
|---|---|---|
| `IndexBuild` | the resumable build, its four checkpoint files, deaths and restarts | `index/builder.py`, `index/checkpoint.py` |
| `BuildPromise` | abstract: what `build_index` promises, with no checkpoint and no death | `index/builder.py` |
| `IndexStore` | the five index files, the batches, rebuilds and reindexing that write them, the process that loads and reads them | `scripts/scale.py`, `scripts/index.py`, `index/faiss_index.py`, `index/chunk_store.py`, `retrieval/bm25.py` |
| `Corpus` | abstract: a corpus that grows batch by batch, with no files and no saves | `scripts/scale.py` |
| `Ingest` | the ingest command over the object store and the manifest | `ingest/pipeline.py`, `ingest/manifest.py`, `storage/local.py` |
| `Fiscal` | dates, fiscal years and quarters as operators | `ingest/client.py` |
| `EdgarClient` | threads over one rate limiter: listing, fetching, retries; EXTENDS `Fiscal` | `ingest/client.py`, `ingest/rate_limit.py` |
| `Splitter` | packing sentences into overlapping chunks | `chunking/splitter.py` |
| `Sections` | which headings start a section, as operators | `parsing/sections.py` |
| `ChunkFiling` | composition: one filing is cut by `Sections`, its sections are packed by `Splitter`, the chunks are filed | `parsing/pipeline.py`, `chunking/pipeline.py` |
| `Fusion`, `Bm25` | reciprocal rank fusion; the signs of BM25 scores | `retrieval/fusion.py`, `retrieval/postings.py` |
| `Retrieval` | how an index comes about and what a query finds in it; EXTENDS `Fusion`, `Bm25` | `index/faiss_index.py`, `index/metadata.py`, `retrieval/bm25.py`, `retrieval/hybrid.py` |
| `AnswerService` | worker threads over one budget, one running total and one response cache | `api/main.py`, `generation/budget.py`, `generation/cache.py`, the two LLM clients |
| `MC…` | the small instances for TLC, with one `.cfg` per run | |
| `…_proofs` | the theorems and their proofs | |

### IndexBuild

State: the chunk file and its manifest, the rows, the stray floats and the metadata of the
embedding checkpoint; the request, the chunk list, the filings done and to do, the vectors; and,
as history, what was last handed to the index. A chunk is `<<filing, k, cfg>>`, a row
`<<chunk, cfg>>` or `Garbled`. Every write of a file is an action, in the order of the code
(`SaveChunks` is the rename, `SaveManifest` the write in place after it, `DropChunks`,
`DropManifest`, `DropRows`, `DropMeta` are `clear()`). `Crash` may happen before each step named in
`CrashAt`, and inside the writes named in `TornFiles`. Filings whose document is missing are
skipped, filings without chunks are allowed, and requests may differ in filings, settings and in
whether checkpoints are used at all. Chunking and embedding are deterministic functions of their
inputs here.

### IndexStore

State: the five files (`NoFile`, `TornFile` or contents), the filings ingested, the writer (the save
it is at, the index it holds) and a reader (what it has loaded). The chunks of one filing enter and
leave together, so a file is a sequence of filings. `layout` is the text file that the offsets of a
metadata file were computed over; `TextAt` says what a reader finds at such an offset in the text
file of today. The writer runs a batch (`IngestWave`, `StartBatch`), a full build or a reindex, then
saves file by file; it may die before a save (`CrashAt`) or inside one (`TornFiles`). The index
build itself is the constant `ListOf` here: `IndexBuild` is about how it is obtained.
`StartReindex` always saves; for a flat index the code does nothing, which is the same as not
taking the action. Filings belong to tickers (`TickerOf`). `IngestWave` draws at most `TickerWave` tickers, none
of which has a filing recorded, and records any of their filings: that covers every order of the ticker
universe, listings and downloads that fail, and a command that dies in between. What it leaves out of a
ticker is never drawn again, as in `scale.py:85-91`. A batch may be smaller than `BatchSize`, as it is when the
tickers are used up. `rebuilt` (history) tells whether `scripts/index.py` has replaced the index.

### Retrieval

State: the index in memory (its kind, the kind asked for, the rows in the order they were added, the
vectors its centroids were fitted to), the chunk store, the metadata filter's entries, the
statistics' corpus, the saved copy, the command at work and the last answer. `AddBatch` is
`FaissIndex.add` with the upgrade to IVF, `StartBuild`/`StartAppend`/`Retrain`/`Save`/`Serve` are
the paths of `builder.py` and `load_retrievers`, `Retrieve` is a hybrid query. Commands run one
after the other: deaths between writes are the subject of `IndexStore`. A batch lists each
chunk once, since ids differ (`IdsUnique`), and the threshold for IVF is at least 1. Similarities are not
modelled; a dense ranking is any order of the chunks the filter lets through, an IVF index may
return fewer. Of a BM25 score the sign decides what is found: `Bm25` gets it from the document
frequencies by comparing fractions, without logarithms, the floor included; where positive and
negative weights meet in one chunk both outcomes are possible. `Fusion` compares scores as fractions
and keeps the order of insertion among equals: a chunk's place is the number of those before it.

### Ingest

One command at a time. Documents are known by their storage key, that is the filing and the
fiscal year in it; `YearMoves` changes the year EDGAR's data gives for a filing. A write is a
temporary file and a rename, and `Dies` may come anywhere, leaving a torn temporary file.
`Dies` also stands for an exception that ends the run. The order of filings inside one listing is
left open. The ticker under which a filing is recorded, limits and form types are left out.

### EdgarClient and Fiscal

Time is measured from now: `lead` is how far the limiter's next slot lies ahead, `rest` what a
thread has left to sleep. History are `ages`, how long ago each request was sent, `overslept`, who is still asleep
after its slot, and `quiet`, for how long nothing was sent on time. `Acquire` reserves a
slot and sets the time to sleep, in one step as the lock does; `Tick` lets time pass, also for a
thread that has nothing left to sleep, so that it may oversleep by any amount. Responses, refusals,
transient failures, backoff and the last error are actions of their own; a request without an answer
ends by the HTTP client's timeout, which is one of the failures. A listing applies the operators of
`Fiscal` to a company's reports. EDGAR's data is external: a year that ends `early` days before (or after) the
end of a month (`YearEnd`), quarters of 13 weeks, 14 in the last quarter of a long year (`PeriodEnd`), a
year end that may not be on record and reports that may lack their date (`undated`). What the code makes of these is
`EndMonth`, with its default of December, and `ReportDate`, with the filing date, `lag` days later, as
its default. A date is a day number, with leap years.

### Splitter, Sections and ChunkFiling

A text is the function `upto` (tokens in the first i sentences), a chunk the pair of its first and
last sentence. The loop of `_pack` is taken apart where the code decides: `CloseFull`/`KeepOpen`
before a sentence is taken, `Take`, then `CloseAtBreak`/`GoOn`; `Close` carries the overlap. `bound`
is the running sum of sizes that spares counting the joined text; a count is the tokens plus the
`Special` ones that every counted string gets, so that a sum is never below the count of the joined
text. Breakpoints, which come from similarities, are any set the thresholds can yield.

`Sections` works on a document given as a sequence of lines with a size, a kind and, for headings
and PART lines, the item or part named: `DropContents` takes away the runs of a table of contents,
`DropUndersized` decides between repeated headings. `ChunkFiling` cuts a filing (`SectionsOf`, a set: sections know where they
begin), strips the headings, leaves out the bodies that are too short (`Usable`), starts the splitter on one body after the
other in the order of the text (`Current`), numbers the chunks (`Made`) and records those that are long enough (`Kept`). One line is one sentence. It has a number
of characters (`size`), by which sections and `MIN_CHUNK_CHARS` are measured, and independently of that a number of tokens
(`tokens`), which the splitter counts (`InTokens`, `Upto`).

### AnswerService

Per worker thread the step, the question and the reply; per cache key the file and the
temporary file, and per thread which of the two the file it has opened goes by now: two threads
that write one key share the temporary file, and one may rename it while the other still
writes. `Arrive` is `start_request` with the retrieval, `AbsorbCalls`/`AbsorbCost` are the unlocked
reads of `absorb`. `cached_calls` and token counts are left out. Calls may fail, cache writes may
fail, the process may be restarted.

## Refinements

* `IndexBuild` implements `BuildPromise` (`KeepsPromise`; the refinement mapping is the identity on
  `handed`, which records what is handed to the index). Every crash and every resumption is a stutter: only
  `Publish` is a step of the promise, and it must hand over exactly what was asked for.
* `IndexStore` implements `Corpus` (`GrowsAsPromised`; `known` is the filings ingested, `held`
  the filings a load would find by the metadata, `out` that a full build has replaced the index or a death has torn one of
  the three files a load needs). Until then every death between and inside the five saves is a stutter, and the index
  never gets shorter, changes its order or holds a filing twice. With `out` the promise ends: nothing is said of an index
  that another command has put there or that cannot be loaded. `NothingIsTorn` shows that a death inside
  a write is the only way to the latter.

## Runs

| run | instance | what it shows |
|---|---|---|
| `build_resumed` | 6 filings (one without document, one without and one with two chunks), an interval of 2, 2 settings, 5 requests; deaths before any step but the write of the chunk manifest, and inside the two files written in place | `RowsAligned`, `ChunkedOnce`, `BoundedLoss`; the build implements `BuildPromise` (`KeepsPromise`) |
| `build_one_request` | the same filings, one request for ever, deaths before any step but the middle of `clear()`, fairness | `RowsAligned`, `NothingLost`, `EmbeddingDurable`, `BoundedLoss`, `GetsThrough` |
| `build_torn_rows` | one request, an append of rows that is torn | `RowsAligned` fails |
| `build_half_cleared` | one request, deaths before any step | `NothingLost` fails |
| `store_grow` | 4 filings of 3 tickers, one filing without chunks, batches of 2, a reader; deaths that leave the files as they were or all new, fairness | `RightHits`, `RightPostings`, `AllIndexed` |
| `store_any_crash` | the same tickers, a full build of one filing, deaths before and inside every save, loads that overlap saves | types, `IndexedOnce`, `TextBacked`; the store implements `Corpus` (`GrowsAsPromised`) |
| `store_interrupted` | batches and reindexing, deaths before every save | `FilesAgree` fails |
| `ingest` | 2 tickers of one company that share a filing, whose year moves, and a filing that only the second lists, fairness | types, `Stored`, `NothingForgotten`, `DownloadedOnce`, `AllRecorded` |
| `client` | 2 threads, an interval of 2, 2 attempts with a backoff of 3; 8 companies whose year ends before, on and after the month end, one leap year, long years, reports without their date, year ends not on record | `RateKept`, `OnTimeSpaced`, `LabelsRight`, `EachCallEnds` |
| `document` | filings of 3 or 4 items, as 10-K and 10-Q number them, with and without contents and PART lines, with bodies of five shapes (empty, short, long, one that names its item again); one section of up to 5 sentences of five sizes, with fewer, as many and more tokens than characters; filings without headings; up to 2 breakpoints anywhere | types, `BudgetKept`, `Covers`, `IdsUnique`, `RightItem`, `NothingSkipped` |
| `retrieval` | 4 chunks of 2 companies and 2 years in batches of one and two, an upgrade at 3 vectors, 3 filters, 3 queries | `InStep`, `HitsRight`, `BothBeatOne` |
| `service` | 2 threads (symmetric), 2 questions that are answered and one that is not, ceilings of 1 call and cost 2, restarts | types, `CallsBounded`, `NoForeignCeiling`, `SpendExact`, `ServedOwn`, `BilledOnce` |

Bounds. `MaxItems` and `MaxVectors` stop deaths (and, in the store, saves that raise) once a file has grown past every
length a correct run reaches (5 rows and chunks, where a build has 5 chunks; 3 vectors), so that files that grow wrongly
can still be told from those that do not. `CheckpointEvery = 2` with five filings to chunk makes a resumed run
count from its own start and save once more, with one filing left over; embedding batches of 2 end
inside a filing. `MaxBilled = 3` calls per process are enough for a call,
its repetition from the cache, and a call by the other thread. `Window = 5` keeps sends for two
and a half intervals: four sends of two threads must take one of them, five must take two. `MaxBreaks = 2` lets a chunk be closed at a break
right after it was closed for size, and at a second one after that; the theorems about `Splitter` need no such bound. In
`document` the sizes stand to each other as in the code (a contents row is small, the gap of a contents run is as large as the smallest
section) at a tenth or less of the scale, and the texts too short for a chunk (less than 3 characters) come with
2 tokens, which the overlap of 4 takes, with special ones, and with more than it takes. `RrfK = 1` makes
rank differences count. Nothing else is bounded: the instances are finite by themselves. Two
settings are needed for a resumption under the wrong fingerprint, two chunks in a filing for a batch
boundary inside a filing, three filings with chunks for a batch that meets an index of more than one predecessor, a ticker
of two filings for a wave that leaves one of them out, two threads
for every race on a cache file (a file has two names, the third writer of a key could only repeat
what the second does).

`CHECK_DEADLOCK FALSE` stands in the cfgs of `IndexStore`, where growth does end (everything is
indexed, or nothing can be loaded any more), and in `MCDocument.cfg`, where a filing is finished.

### What the preconditions of properties leave out

`RightItem`, and `NothingSkipped` as far as it is about the real sections, speak of *regular* filings
(`Regular`). There sections do not name their own item again in a line of its own, no PART line is missing and a
heading line is shorter than a chunk (`Plain`); no `TOC_MIN_ENTRIES` sections in a row are as close together as contents rows
(`NoShortRun`); contents stand in front of all sections, are packed closely, and behind them the items start over
(`ContentsInFront`); and contents rows that are in no long ascending list name a section that is
at least `MIN_SECTION_CHARS` long while they are shorter themselves (`ContentsTellApart`). The last is what a proof needs: in a 10-Q
a Part I of four rows in front of a longer Part II stays behind when Part II is dropped, its last row reaches
over all of it, and the heading search would prefer it to a shorter section. The irregular filings are in the instance all the same, for
`IdsUnique`, `Covers`, `BudgetKept` and the other half of `NothingSkipped` (`BodiesFiled`): whatever
sections are found, they are filed whole, but for two cases that `FiledUnder` names. A section's end may be too short for a
chunk. And a text below `MIN_CHUNK_CHARS` (200 characters) in the middle of a section is left out for good
if it has more tokens than the overlap (64), since then it is not carried into the next chunk (`CarriedOn`): a row of figures, say,
closed by a break. The second case is in the instance, too.

Of the build, `BoundedLoss` leaves out a death that tears the chunk manifest; of the labels, `LabelsRight` leaves out
companies whose year end is wrong for want of a record and annual reports that end late or lack their date; of the store, the properties that begin
with `~rebuilt` leave out what a full build does to a process that has loaded another index.
`SpendExact`, `NoForeignCeiling` and `BilledOnce` speak of requests that do not
overlap; the other two properties of the service hold for all. `HitsRight` promises lexical hits for terms in fewer
than half of the chunks.

## Fairness

* `IndexBuild`: the build is run again after every death (`WF(Start)`), and every step is survived
  at some time although it may be interrupted any number of times (`SF` per step, and per turn of the chunking loop
  between two saves). The code has no
  scheduler of its own: the operator repeats the command, which is what the module docstring of
  `builder.py` describes.
* `IndexStore`: the same for batches (`SF(StartBatch)`, `SF` for each save of
  a batch that has something new to record); a save that is under way goes on
  unless the writer dies (`WF(Save)`). Nothing is asked of ingestion, reader and reindexing.
* `Ingest`: the command is run again and again; it may die anywhere, but not always before the same ticker of its list (`GetsTo`);
  no ticker's listing and no filing's download fails
  for ever, and of the downloads of one filing that are begun one is survived to the end
  (`Survives`).
* `EdgarClient`: time passes (`WF(Tick)`) and every thread that can go on does (`WF(Call(t))`): the
  operating system schedules it, and a request ends with a response or with the timeout that the
  client is built with. Nothing is assumed about what the server answers.

## Where the code does not do what its words say

Three runs show a disagreement and are among the findings of `PROJECT.json`.

* `build_torn_rows`: `EmbeddingCheckpoint.load` drops a trailing partial row from the array
  it returns, but the file keeps it. The next append writes behind it, and a later load reshapes
  everything after it into misaligned rows, which are used as vectors of the wrong chunks.
* `build_half_cleared`: `clear()` removes the chunk file before its manifest. If the process dies in between, the complete
  manifest of the finished build survives and vouches for the first partial chunk file that a later
  build of the same filings renames into place and dies: the rest is never chunked.
* `store_interrupted`: `FaissIndex.save` replaces `index.faiss` first and the text and metadata later; `scale.py:14-16` says
  that an interrupted batch leaves the index untouched.

The models reproduce the following as well, if the property in brackets is checked with the change
that is named; they are among the hazards of `PROJECT.json`.

* A death between the rename of the chunk file and the write of its manifest duplicates chunks,
  where `checkpoint.py:119-121` speaks of a consistent manifest (`ChunkedOnce`, with `CrashAt <- AllSteps`).
* The chunk manifest is written in place, and a torn one costs all chunk progress, where `builder.py:144-145`
  speaks of minutes (`BoundedLoss` without `UNCHANGED manifest`).
* Torn metadata of the embedding checkpoint is never repaired (`EmbeddingDurable`, with `"meta"` in `TornFiles`).
* A torn `index.faiss`, metadata or settings file makes the whole index unloadable (`GrowsAsPromised` without `Broken`).
* A ticker with one filing recorded is never drawn again, so what a failed download or an interrupted ingest has missed of it
  stays out of the corpus (`AllIndexed` of all filings instead of those ingested).
* Filings that yield no chunk stay pending, are sorted into every batch, and when they fill one
  `build_index` raises before anything changes, in this and in every later batch (`AllIndexed`, with
  two filings in `Empty`, and `CrashAt = {}`).
* A thread that oversleeps its slot sends right before the next one: the limiter does not space
  requests as `rate_limit.py:14` says, but those that are on time (`OnTimeSpaced`), and it bounds the number of others (`RateKept`).
* A 10-K whose year ends after the last day of the month on record is labelled with the next fiscal
  year; so is one without its date that is filed in that year; and a company whose year end is not on record is
  taken to end in December (`LabelsRight` without its guards).
* Five sections in a row that are as close as contents rows, as items 10 to 14 of many 10-Ks are,
  are taken for a table of contents; of a heading that is repeated inside its section the larger
  piece wins (`RightItem` without `NoShortRun` or `Plain`). A contents row that is left behind wins over a section that is shorter
  than what follows the row up to the first heading (`RightItem` without `ContentsTellApart`).
* A sentence that meets only carried ones joins them without a look at the budget
  (`OverBudgetOnlyByCarry` names this case), so a chunk can exceed the model's limit, too.
* The end of a section is dropped if it is shorter than a chunk, and so are a text in its middle that is short and has many tokens
  (`NothingSkipped` without `CarriedOn`) and a filing's text before its first heading.
* An index that was loaded as flat is never upgraded (`InStep` asks for the upgrade by
  `requested`, which a load sets to the kind it found).
* A term in exactly half of the chunks weighs nothing, and in a small corpus the floor for common terms
  can itself be negative (`HitsRight` without `Common`).
* Postings are matched with the store by size only, and unreadable ones end the load.
* A change of a company's fiscal year end downloads recorded filings again, under a second key, where `manifest.py:3-4` says that
  what is recorded is never downloaded again (`DownloadedOnce` without its last line).
* Requests that overlap wipe each other's counts from the shared budget or bank them twice, so the
  totals of `/health` are exact only for a service used by one client at a time.

## Proofs

All theorems hold for every value of the constants that the named `ASSUME`s of the modules allow.

`IndexBuild_proofs`
* `TypeCorrect`: one step per action.
* `RowsStayAligned`, if appends are not torn. `RowsAligned` alone is not inductive: it speaks of the
  moment of publishing. `AlignmentInv` adds that embedding metadata on the disk beside a chunk file
  implies a complete manifest and rows that belong to that chunk file (`DiskAligned`), and that a
  chunk file is rewritten only after rows and metadata are gone (`StagesAligned`); that is the reason
  for `clear_embeddings`.
* `ChunksComeOnce`, if no death falls between rename and manifest: `OnceInv` says the chunk file
  holds exactly the filings its manifest lists, and the list in memory exactly those done.
* `BuildKeepsPromise`: under both assumptions every step of the build is a step of `BuildPromise`
  or leaves `handed` alone.
* `LossStaysBounded`, without assumptions (a torn manifest is excepted by the property): `LossInv` says that while chunks are made, what a restart would resume is
  part of the filings done, and the others are no more than the filings counted since the last multiple of the interval.
* `EmbeddingStaysDurable`, if neither rows nor their metadata are torn; a corollary of `AlignmentInv`.
* `NothingEverLost`, if all requests have one fingerprint and none dies inside `clear()` between chunk
  file and manifest. `CompleteInv` relates manifest, chunk file and list: under one
  fingerprint what a manifest lists is in the file beside it, also between the two writes of a save.

`Ingest_proofs`
* `TypeCorrect`, `StoreIsWhole` (with its halves `RecordedIsBacked` and `DocumentsAreWhole`),
  `NothingIsForgotten`, `EachDownloadedOnce`, all from `IngestInv`: what the run's copy of the
  manifest holds is stored whole, the copy is never behind the file, and what was downloaded is at
  hand or is the document in work.

`AnswerService_proofs`
* `TypeCorrect`; `CallsStayBounded`, inductive as it stands because it counts the calls under way
  together with those recorded, and its corollary `CallCeilingUnreached`.
* `OwnAnswers`, if the key tells questions apart: files hold responses under their own key, and a
  thread writes only the response it got (`OwnInv`).
* `SpendIsExact` and `NoneRejected` from `BankingInv`, which says at each step of the one request in
  progress how budget, totals and charges stand to each other.
* `QuestionsBilledOnce`, from `PaidInv`: where requests do not overlap and cache writes do not fail, a
  question that was charged has a whole file under its key, or the thread that was charged is
  on its way to write one.

`IndexStore_proofs`
* `TypeCorrect` with `TextInv` (whoever holds metadata finds a text file); `EachIndexedOnce` from
  `OnceInv`, which is about the index the writer holds too: a batch is disjoint from what was loaded.
* `TextsStayBacked`, `PostingsStayRight` and `GrowthKeepsPromise`, for any crash points and torn files; the properties speak of an index
  that no full build has replaced (`rebuilt`), and so does the invariant (`Grown`). They share `GrowthInv`:
  the texts of whatever metadata is on the disk or loaded are a beginning of the text file (`DiskInv`), the writer
  has buffered just what the text file does not have (`WriterInv`), and it holds what a load would find
  and at most a batch of new filings behind that (`BatchInv`). `TextBacked` alone is not inductive: the next load may
  find any files; that files replaced one by one agree enough rests on
  the text file being replaced before the metadata and growing only at its end.
* `NothingIsTorn`: if deaths tear at most the postings, no file a load needs is ever torn, so that `GrowsAsPromised` ends with a
  full build only.
* `HitsStayRight`, if the writer does not die between vectors and metadata, tears at most the postings, and nothing loads during a
  save: `CleanInv` says at each save which files are new, `LoadedInv` that vectors loaded are the first of the metadata.
  With a death between vectors and metadata the property fails, as `FilesAgree` does.

`EdgarClient_proofs` (and the calendar)
* `TypeCorrect`, with `AttemptInv` and `AgesInv`.
* `RateAlwaysKept`, for any number of threads, any interval, backoff, and any time overslept. `RateKept` speaks of sends
  only; `SlotInv` brings in the limiter: its next slot lies ahead of a send by an interval for each request
  that was given one since, but for one per thread; `WaitInv` says that each slot to come is
  waited for. The proof counts sleepers.
* `OnTimeStaysSpaced`, from `SpacedInv`: the slots of those who are not late are an interval apart from each other, from the last request
  on time and from the next slot to be given. What is sent late is bounded by `RateAlwaysKept`, no more.
* `LabelsStayRight`, for every company whose year ends between 38 days before and 44 days after the end of its month, on record or not,
  with 52 or 53 weeks, in 2001 to 2099, and reports that lack their date if they are filed so soon that the year, moved by the
  delay, would still end within 44 days after its month. The invariant (`LatestInv`) is plain; the work is in the lemmas about the
  calendar: days have one year and one month (`YearOfIs`, `MonthOfIs`), which the code's search finds, and the
  distance from a quarter's end to the year's end rounds to the right quarter over all month lengths
  (`QuarterIs`). The bounds are the widest that all months and quarters share.

`Splitter_proofs`
* `TypeCorrect`, `BudgetAlwaysKept` and `TextAlwaysCovered`, for texts of any length with sentences of any sizes
  (also empty ones), any target, overlap and number of breakpoints. They rest on `PackInv`, whose parts say
  what holds at each stage of the loop: `bound` is the sum over the sentences at hand (`StageInv`,
  without which nothing relates the shortcut to the count); the chunk at work could be closed as it
  is (`BudgetInv`); it adjoins or overlaps the one closed last (`AdjoinInv`); closing it before
  another sentence is taken would repeat an end only behind a break, and only once (`AdvanceInv`,
  which is why the loop cannot go round in circles); and a chunk that fits into the overlap is carried whole
  (`CarryInv`). The lemmas at the head are about sums and counts:
  a sum never falls below the count, and grows with the sentences.

`ChunkFiling_proofs`
* `FilingIsSplit`: chunking a filing refines the splitter. Each body handed over is a text, each is begun when the one
  before is done, and no other step touches the splitter's state; so `BudgetKept` and `Covers` hold of filings
  (`FilingBudgetKept`, `FilingCovered`).
* `FilingTypeCorrect` and `IdsStayUnique` for every filing, regular or not: of two headings of one
  part and item at most one is kept (`HeadingsApart`), and chunks keep their number.
* `BodiesStayFiled`, for every filing, with any numbers of characters and tokens: `FiledInv` says that each body is cut well (`WellCut`: chunks adjoin, end in order,
  and what fits into the overlap is part of the next), from which `CutKept` gets, for each line, the last chunk that holds it: that
  one is either the last of the body or not carried on.
* `ItemsStayRight` and `NothingIsSkipped`, for regular filings with and without contents: `HeadingsFound`, the
  heading search finds the real headings and no others. Its parts are the two filters: no run reaches from the contents into
  the sections (`StartsOver`), sections are in no long run (`RealKept`), contents rows are in one just if they are a long
  list (`RowsKept`), and of those left the section is the larger (`UndersizedDropped`).
* Facts that would need an induction over a text (offsets exist and ascend, ends ascend) are proved by
  the least counterexample (`LeastOf`, from the library's `WFMin`).

`Retrieval_proofs`
* `RetrieversStayInStep`, from `IndexInv`, which adds the same of the copy on the disk (`SavedInv`): what is served was loaded.
* `AnswersStayRight` (`AnswerInv`): signs of BM25 scores and dense rankings under a filter.
* `BothAlwaysBeatOne`, for every pair of lists, every k and list length: the sums of fractions are compared, and a fused
  list keeps the first places of the order.

Only model-checked: liveness (`GetsThrough`, `AllIndexed`, `AllRecorded`, `EachCallEnds`), which is out of
the prover's reach, and that `FilesAgree` fails. Every other property of a passing run is stated by a theorem. The types of `IndexBuild` and
`EdgarClient` are only proved. The theorems hold under
the assumptions named above; outside them the runs show what they show for their instances only.

## Not modelled, and the plan

What would come next:

1. A composition of `Ingest`, `IndexStore` and `IndexBuild` in one module; so far `IngestWave` and
   `ListOf` stand for what the other modules establish (`Stored`, `ChunkedOnce`).
2. Proofs under weaker assumptions: `TextBacked` across full builds that happen to keep a prefix; the accounts of the
   service for requests that overlap, as bounds instead of equalities.
3. The order of what is fused among equals, and what a cut-off list leaves out.

Left out for good: HTTP and S3 (external services), HTML conversion, prompts, grounding, the
patterns for sentences, headings and PART lines (pure text processing), the estimate of token counts from characters
(not used by the index build), the layout inside an index file, deferred adds of the sparse index
(no command uses them), evaluation (a sequential report), the database (one transaction per request, delegated to SQLAlchemy),
settings, command lines and the read-only endpoints and status commands.
