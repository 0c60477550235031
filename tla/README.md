# A verification project for mini-elasticsearch

TLA+ models of the storage engine and of the server of mini-elasticsearch, TLC
runs over them, and machine-checked proofs of the main guarantees of the engine,
of the manager and its handlers, of processes that share a directory, of the
inverted index, of what each kind of query finds, and of the bytes of a segment.
Line numbers refer to the repository's `src/`, unless a path says otherwise.

## 1. The system

mini-elasticsearch is a Rust library with an HTTP server and a command line over
it. Each of these is a process that opens the data directory for itself.

| Component | State | Operations | Works with |
|---|---|---|---|
| `SearchEngine` (`engine.rs`) | `index`, `buffered_index`, `unflushed_docs`, `segment_count`, an open log | `open_with_scorer`, `add_document`, `delete_document`, `flush`, `compact`, reads | log, segments, `InvertedIndex` |
| Write-ahead log (`storage/wal.rs`) | `wal.log`, one JSON record per line | append, replay, truncate | called by the engine only |
| Segment files (`storage/segment.rs`) | `segment_<ms>_<n>.seg`, `segment_compacted_<ms>.seg` | write, read | engine, compaction |
| Compaction (`storage/merge.rs`) | none of its own | merge all segments into one, remove the sources | engine |
| `InvertedIndex` (`index.rs`) | postings, documents, corpus metadata | `add_document`, `delete_document`, `merge_with` | engine, segments |
| Queries (`engine.rs:335-628`, `fuzzy.rs`, `scorer.rs`) | none | parse, candidates, score, sort | `InvertedIndex` |
| `EngineManager` (`engine.rs:631-741`) | map from name to `Arc<RwLock<SearchEngine>>`, one directory per index | `get`, `get_or_create`, `delete_index`, `load_existing_indexes` | engines, file system |
| HTTP handlers (`server.rs`) | `Arc<RwLock<EngineManager>>` | one per route | manager, then one engine |
| Command line (`main.rs`), configuration (`config.rs`) | none | sequences of the calls above | manager |

An addition or a deletion goes to the log first, then to both in-memory
indexes. `index` is what queries see; `buffered_index` is what no segment holds
yet. A flush writes the buffer to a new segment, empties it, and truncates the
log. Opening a directory merges the segments in name order and replays the log.
The server runs handlers on several threads; a handler takes the manager's lock
to look an engine up, releases it, and then takes the engine's lock.

**What is hard here.** The process can die between any two disk operations, or
inside one. A file operation can fail, and most failures are ignored or only
logged. Segment names decide what a restart reads last. Between the manager's
lock and the engine's, and while a flush runs, the index can be deleted. A
command can flush and compact the directory a server is using. Queries are
parsed by rules that overlap, and answered from postings that flushes and
merges have rearranged; offsets and 16-bit lengths decide what a segment says.
`PROJECT.json` lists these hazards one by one, with the property that covers each.

**What makes it correct.**

- Engine: no document that queries see is ever only in memory; a restart gives
  back what queries saw; flush and compaction change no document; an operation
  that has begun ends.
- Manager and handlers: an index serves what its own directory holds; an
  acknowledged addition is visible; deletion is complete; no deadlock.
- `InvertedIndex` and queries: postings and metadata are a function of the
  documents; each query mode returns the documents its definition names; a text
  as a query finds the document it is the text of.
- Segments: a file is read back as what was written, or refused.
- Processes over one directory: none takes a flushed document from the others.

## 2. Modules

| Module | Models | |
|---|---|---|
| `DocumentStore` | what an engine promises: a map that changes only when a request takes effect | abstract specification |
| `SearchEngine` | `engine.rs:53-333`, `wal.rs`, `merge.rs`, the names and wholeness of segments | detailed specification |
| `SearchEngineInvariant`, `CarefulInvariant` | the inductive invariants `IInv`, and `CarefulInv` of careful clients | checked by TLC and proved |
| `SearchEngineProofs`, `CarefulProofs` | theorems and lemmas, the refinement of `DocumentStore` | TLAPS |
| `EngineManager` | `engine.rs:631-741`, the handlers of `server.rs:244-501` | threads, locks, directories |
| `EngineManagerInvariant`, `EngineManagerProofs` | the inductive invariant `ManagerInv`; theorems and lemmas | TLC and TLAPS |
| `InvertedIndex` | `index.rs` | the index in use, and one in a segment |
| `InvertedIndexInvariant`, `InvertedIndexProofs` | the inductive invariant `IndexInv`; theorems, lemmas about lists and sums | TLAPS |
| `Analyzer` | `analyzer.rs`, and the tokens of a document (`index.rs:110-115`) | pure operators |
| `EditDistance` | `fuzzy.rs` | pure operators |
| `Queries` | `engine.rs:411-628`, `index.rs:198-217`, `scorer.rs` | `EXTENDS InvertedIndex, EditDistance` |
| `QueriesProofs` | theorems about what queries find, and about edit distances | TLAPS |
| `QueryParser` | `engine.rs:296-307`, `336-405` | `EXTENDS Analyzer, EditDistance`; texts typed piece by piece |
| `SegmentFile` | `segment.rs`, byte by byte | what an index of any documents becomes in a file |
| `SegmentFileProofs` | that a file is read back or refused; lemmas about bytes, offsets, records | TLAPS |
| `SharedDirectory` | several engines over one directory (`main.rs:99-189`) | processes, each opening, adding, flushing, compacting |
| `SharedDirectoryInvariant`, `SharedDirectoryProofs` | the inductive invariant `SharedInv`; theorems and lemmas | TLC and TLAPS |
| `Induction` | induction over numbers, which the proof modules share | TLAPS |
| `MCSearchEngine`, `MCEngineManager`, `MCQueries`, `MCQueryParser`, `MCSegmentFile`, `MCSharedDirectory` | symmetry sets, small vocabularies | TLC |

The models of the engine are layered. `SearchEngine` keeps documents only, which
`InvertedIndex` justifies (postings are a function of them), and has a file whole
or unreadable, which `SegmentFile` justifies. `EngineManager` and
`SharedDirectory` keep ids only, and put several engines beside each other: in
one process under locks, and in several processes under none.

### SearchEngine

Data is abstracted to what the properties tell apart. A document is a model
value; an `InvertedIndex` is its document map, and a segment is such a map plus
whether the file is whole. A log is a sequence of records, with `tail` saying
whether its last line is complete ("clean"), lacks its newline ("open"), or
whether some line can no longer be parsed ("damaged").

Control is kept. Engine methods take `&mut self`, so one runs at a time; `pc` is
the stage it has reached, and every disk operation is one action:

| Stage | Actions | Code |
|---|---|---|
| idle → json → logged | `AppendJson`, `AppendNewline`, `AppendFails`, `NewlineFails` | `writeln!` writes the record and the newline separately (`wal.rs:71`); an error is only logged (`engine.rs:181-185`) |
| logged → idle or flush | `ApplyAdd`, `ApplyDelete` | both indexes and the threshold test (`engine.rs:187-218`) |
| flush → write → truncate | `CreateSegment`, `FinishSegment`, `SegmentFails`, `TruncateLog`, `TruncateFails` | `engine.rs:221-253`; `File::create` empties a file of that name |
| list → remove → idle | `NothingToMerge`, `MergeSegments`, `MergeFails`, `RemoveSource`, `RemoveFails`, `CompactDone` | `engine.rs:267-293`, `merge.rs`; any read order, output renamed into place |
| down → idle | `Crash`, `Open`, `OpenFails` | `engine.rs:102-177` |

While the engine is down, `index` keeps what queries last saw, so that
properties can compare it with what `Open` brings back. `faults` is a history
of the kinds of file operation that failed since the last open. `Tick` advances
the clock where the code reads it. A restart is assumed to take a millisecond
or more, and the clock never to go back.

### EngineManager

A directory is: is it there, the ids in its segments, and what its log says of
each id. An engine adds `linked`: whether the log file it holds open is still
the one in its directory (once the directory is removed, appends go to an
unlinked file). `pc` is the stage of each handler; the locks are held in certain
stages (`ManagerLocked`, `EngineLocked`). A step taken under an engine's lock is
one action unless something else reads or writes what it touches: only
`remove_dir_all` works on a directory without the engine's lock, so flush is
split into `create_dir_all` and the write, compaction into reading and writing.
An auto-flush is a choice, because the number of buffered additions is left out.
`remove_dir_all` may fail: by itself, anywhere (`DiskFaults`), with any of the
segments and perhaps the log left, or because a flush has put a file into the
directory. One caller ignores that (`engine.rs:718`); the other returns the error
with the entry gone from the map (`engine.rs:730-733`). A flush or compaction that
has listed or created something in a directory that was swept meanwhile finds it
gone or writes in vain (`Swept`, `WriteNowhere`).

`late`, `stray` and `broken` are history: the handlers overtaken by a deletion; the
directories that an engine wrote while it no longer owned them, that could not be
removed, or that a failed creation left; and the indexes whose engine has not, or
not alone, the log of its directory: the default one when it could not be opened
again, and one created where a removal failed while a request still held the old
engine with its log open. `stray` qualifies only what is said of deleted indexes;
an index in the map must be durable however stray its directory is.

A compaction's output and the removal of what it read are one action here: that the
compactions of two engines in one directory lose nothing step by step is
`SharedDirectory`'s subject (`FlushedStays`). What else is left out: versions of documents (only ids are kept), a crash in the
middle of a request (`Restart` may fall between any two actions; what a crash does
inside one engine is `SearchEngine`'s subject), and opening a directory that
holds a half-written segment, which fails as in `CreateFails`.

### InvertedIndex and Queries

An index is a record of the fields of the code: postings by term, documents, and
the three counters. A document is the sequence of terms its title and body are
analysed into, since `add_document` numbers the body's positions after the
title's. A second index stands for a segment file: `Flush` writes the first into
it and empties it, `LoadAfter` and `LoadBefore` merge the two in either order, as
opening and compaction do. This module shows that postings and counters are a
function of the documents, which is what lets `SearchEngine` keep the documents
only.

`Queries` adds the five ways a query is evaluated as operators over the postings,
to be compared with what they should find among the documents. Terms are
sequences of numbered characters, because a prefix is answered by a range of the
sorted terms; the characters have a gap and a last one, as `char` has. Fuzzy
queries go through the edit distance of `EditDistance`, which is compared with
what single edits reach. Of BM25, the part that can be computed is there: the
score of one term is `idf` times a fraction, with k1 and b in twentieths (1.2
and 0.75), so two scores of a term compare as the fractions do.

### QueryParser

A text is a sequence of characters and grows by one piece per step. `ParseQuery`
is `parse_query`, with its order of modes and its early returns. Unicode's
tables are parameters: `Alphanumeric`, `Whitespace`, `LowerCase` (of one
character for one) and the values of digits. `Answers` says which documents a
parsed query finds, as `Queries` shows the engine finds them, so that parser
and analyzer can be checked against each other: a document's text is its query.

### SegmentFile

The writer and the reader as they handle bytes: a header, a dictionary with
absolute offsets, postings, documents. Bytes count to `Base` and the code's
`u16`, `u32`, `u64` are numbers of `Short`, `Word` and `Long` bytes, so that a
length that does not fit is short enough to occur. `index` is what the writer
has: the terms in the order in which they are written, a list of postings for
each, the documents and the counters. What the analyzer makes of a document is a
parameter (`Analyzed`), which `MCSegmentFile` computes with `Analyzer`.
The checks of the code before each read are one condition (`InFile`) per field; a
reader (`ReadHeader`, `ReadEntry`, `ReadPosting`, `ReadDocument`) is a chain of
fields, each of which carries on with what was read before it or fails. A text
with a byte that begins no character is refused, as by `from_utf8`. `WriteMore` lets the bytes reach the
file one by one; the state in between is what a reader finds after a crash, or
while a flush is going on.

### SharedDirectory

Processes start, open, add, flush, compact and end at any point. The steps that
others can come between are separate: listing the files, reading each, reading
the log; creating, completing a segment, truncating the log; listing, reading,
writing, and removing each source. What was acknowledged by a process is history,
as is what the segments held when it began to open.

## 3. Runs

| Run | Bounds | Shows |
|---|---|---|
| `faults` | 2 ids, 1 document, log of 3, 2 segments, 1 restart or tick, one kind of failure between opens, torn writes | `TypeOK`, `IInv`, `LiveDocsOnDisk`, `MemoryMatchesDisk`, `FlushedDocsStay`, `LiveDocsSurviveRestart` |
| `exact` | 2 ids, 2 documents, log of 3, 3 segments, 1 restart or tick; careful clients | `RecoversExactly`, `CarefulInv`, `ImplementsStore`, `OperationsEnd` |
| `handlers` | 2 threads, 2 indexes, 1 id; every request but reads and plain flushes; opens and removals may fail | `TypeOK`, `IndexesAreDurable`, `DeletedUnlessStray`, `ManagerInv`, `AdditionsAreVisible` |
| `requests` | 3 threads, the default index | `SomeRequestEnds`, `DeletionsEnd` |
| `search` | 3 ids, terms `a`, `ab`, `b`, 5 documents (an empty one, repeated terms), 14 queries, 5 prefixes, 5 misspelt terms | `TypeOK`, `PostingsMatchDocuments`, `MetadataMatchDocuments`, `AndFindsAll`, `OrFindsAny`, `PhraseFindsAdjacent`, `PrefixFindsExtensions`, `FuzzyFindsNear`, `RanksByOccurrence` |
| `parser` | 5 pieces out of `O R OR 1 blank " * ~ +` | `CaseIsFolded`, `OrIsAWord`, `TextFindsItself`, `QuotedTextFindsItself` |
| `segments` | up to 3 of 4 documents in any order; 8 values of a byte | `SegmentInv`, `TornIsRefused`, `WholeIsReadBack` |
| `processes` | 2 processes, 2 ids, flushes and compactions begun while there were fewer than 2 files yet | `AcknowledgedStays`, `SharedInv`, `FlushedStays`, `OpenSeesFlushed` |
| `lost_delete`, `stale_version`, `torn_log`, `deleted_index` | smaller | disagreements between code and docs, below |

**Why the bounds are enough.** A threshold of 2 with a log of 3 gives logs that
were flushed by the threshold, by a call, and left over by a failed truncation.
Three segments let a compaction leave some of its sources behind next to its
output and a later flush. A clock that stands still covers names that collide;
one that ticks covers names that do not. In `faults` a flush meets torn files of its
own name, but no whole one: that takes two sources which a compaction could not
remove beside its output, and a flush on top of the three files. The theorem
`FlushedDocsAreKept` covers that case. The bounds are on client calls
(`Room`): an operation that was called can always complete. Two threads are
enough for every pair of handlers to overlap; the third in `requests` lets two of
them queue for one lock. The documents of `search` share terms, repeat them and
reverse their order, so that merges overwrite postings and phrases fail on
position alone; its state space is finite without any bound on the history. Five pieces let `OR`
stand between two words with a blank on each side, and every operator at either
end of a text. The documents of `segments` have an empty title and body, a term
of two documents, a repeated term, and a title one longer than `Fits`. In
`processes` the bound is on what begins: two processes that begin a flush and a
compaction each make up to five files.

**Fairness.** `CarefulSpec` of the engine: the thread that runs an operation goes
on (weak fairness of `Proceed`); nothing obliges clients to call, the process to
crash, or a directory to be opened. `FairSpec` of the manager: each handler at
work is scheduled (weak fairness of `Work`). No strong fairness is assumed of the
locks, as `std::sync::RwLock` promises no order; so a particular request may be
starved by others, and only `DeletionsEnd` is stated per request: while a
deletion holds the manager's lock, no new request can begin.

**Mutants.** Each property of a passing run fails under a plausible bug seeded in
the model (`PROJECT.json`, "mutants"). The seeded forms stand before the
definition they replace, named `definition_bug`.

## 4. What the code does otherwise than its docs say

- `lost_delete`: deleting a document that a segment holds is recorded in the log
  only; the next flush truncates the log and a restart brings the document back.
  Compaction does not prune it either (`README.md:385` of the repository).
- `stale_version`: `segment_compacted_*` sorts after every later flush, so a
  restart prefers the compacted version; `compact` merges in directory order.
- `torn_log`: a torn record makes every later open fail, for all indexes.
- `deleted_index`: a flush that outlives `delete_index` writes the directory back.

`exact` says how far the promise holds (`Careful` in `SearchEngine`): the engine
implements `DocumentStore` as long as clients delete no document that a segment
holds, overwrite one only while there is no compacted file and fewer than nine
segments, and compact only when all copies of a document agree. Each of these
conditions is needed; the bound of nine because names are sorted as texts, so
that `segment_<ms>_10` comes before `segment_<ms>_9` of the same millisecond.

More limits of the code are conditions of properties, as no doc denies them:

- A title, an id or a term of more than 65535 bytes makes its segment unreadable,
  and the flush has truncated the log by then (`AllFit` in `SegmentFile`).
- A process that lists the files before another's flush and reads the log after
  it misses the documents in between. A process that ends leaves what it
  acknowledged in the log, and another that has not seen those records truncates
  it with its next flush. `AcknowledgedStays` therefore speaks of living processes,
  and `OpenSeesFlushed` of what was flushed before the opening began.
- If `remove_dir_all` fails, deleting the default index answers as if it had not
  (`engine.rs:718`), and the documents that are left are loaded again. Deleting
  another one returns the error, but the index is gone from the map and what is left
  comes back when it is created again, or at the next start (`DeletedUnlessStray`).
  If a request then still holds the old engine with its log open, that log is written
  and truncated by two engines (`broken` in `IndexesAreDurable`). The same guard
  exempts the default index from the moment it could not be opened again
  (`engine.rs:721`), when its old engine stays in service without its directory.
- An OR query with `OR` inside another word asks for parts of that word, and a
  single word ending in `*` or `~` is a prefix or fuzzy query with its
  punctuation, which no term has (`OrIsAWord`, `TextFindsItself`).

## 5. Proofs

Every theorem is for all values of the constants under the assumptions named in
the modules: numbers are numbers, `NoDoc` is no document, the default index is an
index, `Handlers` and `Names` are finite (a process has finitely many threads and
directories). `Ids` and `Docs` may be infinite. In each module the states are
described by an inductive invariant; TLC checks it too on the runs of `SearchEngine`,
`EngineManager`, `SegmentFile` and `SharedDirectory`. (`IndexInv` is proved only: the run
`search` checks what follows from it, in other words.)

### The engine, whoever its clients are: `SearchEngineProofs`

| Theorem | States |
|---|---|
| `TypeCorrect` | `Spec => []TypeOK` |
| `Invariance` | `Spec => []IInv` |
| `LiveDocsAreOnDisk` | `Spec => []LiveDocsOnDisk` |
| `FlushedDocsAreKept` | `Spec => FlushedDocsStay` |
| `RestartKeepsLiveDocs` | `Spec => LiveDocsSurviveRestart` |
| `MemoryIsThatOfDisk` | `Spec => []MemoryMatchesDisk` |

`LiveDocsOnDisk` is not inductive. Truncating the log is
harmless only because every live document was in the buffer or in a segment, and
the buffer has just been written (`LiveIsBufferedOrHeld`, `LiveIsHeld`).
Appending a record is harmless because it is the one being applied
(`RequestLogged`), and losing it to a torn write because the log was good without
it (`GoodWithoutRequest`). Creating a segment empties a file of the same name: a
name used before is either older than the clock, or has a number no greater than
`segment_count`, or belongs to a file that a compacted one covers
(`NamesUsed`, `OutputCovers`), since `compact` sets `segment_count` back to 1
while sources it could not remove keep their numbers. `IInv` conjoins these; the
lemmas `InitInv` and `NextInv` show it inductive, one lemma per part
(`StageStep`, `NamesStep`, `LiveStep`, `LogStep`, `NextType`) and one step per
action. `FlushedDocsAreKept` and `RestartKeepsLiveDocs` are then facts about
single steps (`HeldPersists`; `Open` replays exactly what `OnDisk` speaks of).
`MemoryMatchesDisk` speaks of idle engines only; its inductive form says what the
buffer and the counters are at every stage of an operation.

### The engine with careful clients: `CarefulProofs`

| Theorem | States |
|---|---|
| `CarefulInvariance` | `CarefulSpec /\ []LogWritable => [](IInv /\ CarefulInv)` |
| `RestartIsExact` | `CarefulSpec /\ []LogWritable => []RecoversExactly` |
| `EngineIsAStore` | `CarefulSpec /\ []LogWritable => ImplementsStore` |
| `FaultlessEngine` | if `MaxFaults = 0`, `CarefulSpec` implies both |

`LogWritable` says that no append to the log has failed since the last opening:
`add_document` goes on when it has (`engine.rs:181-185`), and the document is
then in memory only. Every other fault is allowed: failing flushes, truncations,
merges and removals, torn files, and the death of the process anywhere. The run
`exact` is the case of `FaultlessEngine`.

`RecoversExactly` is not inductive, and neither is the mapping to `DocumentStore`
a consequence of it alone. Files keep old copies of a document, so the invariant
says where they may be: no file holds a document that was deleted (`NoGhosts`);
a stale copy is followed by a newer file with the current one, unless the log or
the buffer has it (`NewestIsCurrent`); the file the buffer will go to sorts after
every stale copy (`OverwritesSortLast`, which is where names sorted as texts
matter); and while there is a compacted file, which sorts last, no copy is stale
(`CompactedIsSettled`), so that the order in which sources are merged, which
`read_dir` leaves open, makes no difference. With it every step of the engine is
a step of the store or none (`EngineIsAStore`): the interesting ones are `Open`,
which has to rebuild the same map, and a crash between a record and its effect,
after which the store's request counts as done.

### The manager and its handlers: `EngineManagerProofs`

| Theorem | States |
|---|---|
| `ManagerInvariance` | `Spec => []ManagerInv` |
| `ManagerTypes` | `Spec => []TypeOK` |
| `IndexesStayDurable` | `Spec => []IndexesAreDurable` |
| `DeletedIsGone` | `Spec => []DeletedUnlessStray` |
| `AdditionsAreSeen` | `Spec => AdditionsAreVisible` |

An engine that a deletion has taken out of the map may still be at work, and its
directory may be there again under another engine. `IndexesAreDurable` survives
what it writes there because the old engine's log file went with the old directory
(`OthersAreUnlinked`): without its log an engine can only add segments to a
directory, never take a record from its log. If the log was not removed, an index
created over it is `broken`, and deleting that or a restart ends it. And a flush
that empties the log writes every addition the log alone has (`BufferHasLog`). What
a removal leaves is of no concern to the map, since one deletion goes on at a time
(`OneDeletion`) and the index being deleted has no engine or one that is opened
anew. `StagesOK` ties a handler's engine to
the map unless a deletion overtook it, which is also what `AdditionsAreSeen` needs.
Nine of the actions change one directory and one engine at most; they are proved
at once by the lemma `EngineStepKeeps`, which asks of each only that it loses
nothing its engine has (`KeepsGood`). Opening, deleting and restarting have
lemmas of their own. `Restart` is where `Handlers` and `Names` must be finite:
the engines are numbered anew.

### Processes on one directory: `SharedDirectoryProofs`

| Theorem | States |
|---|---|
| `SharedInvariance` | `Spec => []SharedInv` |
| `AcknowledgedIsKept` | `Spec => []AcknowledgedStays` |
| `FlushedIsKept` | `Spec => FlushedStays` |
| `OpenLoadsFlushed` | `Spec => OpenSeesFlushed` |

There is no lock, and compactions may remove each other's outputs. What saves the
documents is an order: each document of a file about to be removed is in a newer
file (`SourcesAreCopied`), so if that one is removed too its documents are in a
newer one still. A process that opens notices when a file it listed has gone, and
fails (`FoundIsReadOrListed`).

### The inverted index: `InvertedIndexProofs`

| Theorem | States |
|---|---|
| `IndexInvariance` | `Spec => []IndexInv` |
| `IndexTypes` | `Spec => []TypeOK` |
| `PostingsStayInStep` | `Spec => []PostingsMatchDocuments` |
| `MetadataStaysInStep` | `Spec => []MetadataMatchDocuments` |

The only assumption is that a document is a sequence of terms.
`PostingsMatchDocuments` counts the postings of a term. `IndexInv` says instead
that no list has two postings of one document (`Distinct`), and no list is empty:
then the length of a list is the number of documents in it (`ListCounts`), and a
merge that has first dropped the postings of replaced documents meets no document
twice, so that replacing a posting in place, which the code is prepared for, never
happens (`MergeIs`). An overwrite is proved to be a deletion and an addition
(`ReplaceIsOK`), which is why remove-then-add leaves the counters right.

Lists of postings and sums are computed by recursion, and the library's induction
theorems take a predicate, which the provers cannot instantiate. `SetInduction`
takes the set where a predicate holds instead, and follows from the
well-foundedness of the order (`LeastNumber`); both are in `Induction`. With it a recursive function is
shown to exist (`WithoutUnfolds`, `MergeUnfolds`, `SumsAre`), and then to compute
what is expected: `WithoutIs`, `MergeIs`, and `SumFunctionIs`, by which adding one
document's length to the total is summing again.

### Queries: `QueriesProofs`

| Theorem | States |
|---|---|
| `OrQueries` | `Spec => []OrFindsAny` |
| `AndQueries` | `Spec => []AndFindsAll` |
| `PhraseQueries` | `Spec => []PhraseFindsAdjacent` |
| `PrefixQueries` | `Spec => []PrefixFindsExtensions` |
| `FuzzyQueries` | `Spec => []FuzzyFindsNear` |
| `DistanceIsEdits` | `Levenshtein(t, w) <= d <=> w \in Within(t, d)`, of any two terms |
| `RanksFairly` | if `K1 > 0` and `B > 0`, `Spec => []RanksByOccurrence` |

Assumed is that terms, queries and prefixes are made of characters, and that
distances are natural numbers. All follow from `IndexInv`: the documents of a list are those that hold its term
(`DocIdsAre`), and `Distinct` makes the first posting of a document its only one
(`FirstPositionsAre`), so that the positions a phrase is compared with are those
of the document. `RangeIs` is the fact about prefixes: what is not below the
prefix and is below the prefix with its last character's successor begins with
it.

For fuzzy queries, `DistanceIsEdits` says what the table of `levenshtein` computes:
the least number of single edits. The table exists because each row follows from
the one above it (`RowFollows`, `RowsAre`, `TableExists`), and a cell is read through
four facts about its neighbours (`CellIs`). Edits reach no greater distance
(`NearIsClose`): one edit is a distance of at most one (`EditIsOne`), because cells
on a diagonal along which two terms agree do not grow (`Diagonal`), and distances
add up (`TriangleInequality`, by induction over prefixes of three terms). And as many
edits suffice (`CloseIsNear`): for each cell, the beginning of the second term before
the rest of the first is reached by as many edits as the cell says (`WayGoesOn`).

`RanksFairly` is the inequality of two fractions (`FractionsAre`), whose
denominators are positive because a posted document has a word (`PostingHas`). Its
conditions hold for `BM25Scorer::new` (1.2 and 0.75); with a k1 or b of 0, which the
configuration allows, scores of documents may be equal.

### Segment files: `SegmentFileProofs`

| Theorem | States |
|---|---|
| `SegmentsAreTyped` | `Spec => []SegmentInv` |
| `TornSegmentsAreRefused` | `Spec => []TornIsRefused` |
| `WholeSegmentsAreReadBack` | `Spec => []WholeIsReadBack` |

Assumed is that bytes count to 2 or more, that magic and version fit their field,
that ids, titles, bodies and terms are texts, and that a document has finitely many
terms; neither the widths of the fields nor the documents are fixed. That every
number fits its field (`AllFit`) is a condition of the properties, and the code
does not check it (section 4).

`SegmentInv` says that the file and the rest of the buffer are the bytes computed
when the file was created, so that a reader sees a beginning of `Image`
(`FileIs`). The argument goes from bytes to fields to records. A number that fits
its field is the value of its bytes (`ValueIs`). `Stands` says that some bytes are
at an offset of the image, and `Expect` what a reader has behind a field: what was
written, if the file goes that far, and a failure otherwise. One lemma for each kind
of field (`NumberIs`, `TextIs`, `WordsAreRead`) and record (`PostingIsRead`,
`DocumentIsRead`, `EntryIsRead`, `HeaderIsRead`) shows that each reader does as
expected and stops where the next begins; `RecordsAreRead` carries that through a
list of records of any length. Then the layout: what the dictionary is said to
need is what it takes (`DictionaryIs`), so each section begins where the header,
and each list where its entry, says (`ImageIs`, `ListsAreRead`). The documents are
last and there is at least one, so a file that ends early fails there at the latest
(`TornIs`); a whole one passes every field (`WholeIs`).
The recursive functions of the model are shown to exist (`Iteration`), and equal to
what is expected of them by induction in the form of `Climb`, both in `Induction`.

**Only model-checked.** Liveness (`OperationsEnd`, `SomeRequestEnds`,
`DeletionsEnd`) is out of the prover's reach. The properties of `QueryParser` speak
of what the parser and the analyzer compute for every text, by folds over its
characters and, in `Analyzer`, a `SelectSeq` that the prover does not handle; and
`CaseIsFolded` holds of tables of lower cases like those of the run, which those of
Unicode are only in part. The run `parser` types every text of five pieces instead.

## 6. Not modelled, and the plan

Not modelled: sums of scores over several terms and floating-point rounding (the
logarithm), formatting of requests and responses, `limit`, configuration
parsing, the single-engine router that only tests use, the parsing of the
command line and of the file it indexes, power failures (the code never syncs),
characters whose lower case is several characters, two processes that create
files of one name in the same millisecond.

What is left: theorems about `QueryParser`, for which lemmas would have to say what
`Split` and `SplitAtOR` fold a text into.
