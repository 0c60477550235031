---------------------------- MODULE SearchEngine -----------------------------
(***************************************************************************)
(* A persistent SearchEngine (src/engine.rs) over its write-ahead log      *)
(* (src/storage/wal.rs), its segment files (src/storage/segment.rs) and    *)
(* their compaction (src/storage/merge.rs).                                *)
(*                                                                         *)
(* The methods that change state take `&mut self`, so one operation runs   *)
(* at a time; it is split into its disk operations, because the process    *)
(* may be killed, or the operation fail, between any two of them.          *)
(* An InvertedIndex is represented by its document map.                    *)
(* A definition named x_y, before the definition x, is x with a seeded bug *)
(* (PROJECT.json, "mutants"): a property that holds must fail with it.      *)
(***************************************************************************)
EXTENDS SequencesExt

CONSTANTS
  Ids, Docs, NoDoc,
  FlushThreshold,   \* documents before auto-flush, 0 for never
  ClientOps,        \* which of "add", "delete", "flush", "compact" are called
  Tears,            \* may a crash fall inside a record or a segment file
  MaxFaults,        \* kinds of file operation that may fail between two opens
  MaxLog, MaxSegments, MaxTime   \* bounds of the explored instance

ASSUME NoDocAssumption == NoDoc \notin Docs
ASSUME ThresholdAssumption == FlushThreshold \in Nat
ASSUME OpsAssumption == ClientOps \subseteq {"add", "delete", "flush", "compact"}
ASSUME SwitchAssumption ==
  Tears \in BOOLEAN /\ MaxFaults \in Nat
ASSUME BoundAssumption == MaxLog \in Nat /\ MaxSegments \in Nat /\ MaxTime \in Nat

VARIABLES
  wal,             \* disk: the records of wal.log, in order
  tail,            \* disk: the end of wal.log, "clean" after a newline, "open"
                   \*   before it, "damaged" once some line cannot be parsed
  segments,        \* disk: the .seg files, from name to contents
  index,           \* memory: documents as queries see them; while down, as
                   \*   they last saw them
  buffered_index,  \* memory: documents no segment holds yet
  unflushed_docs,  \* memory
  segment_count,   \* memory
  pc,              \* the stage of the operation that holds `&mut self`
  req,             \* that operation
  out,             \* the segment file it writes
  sources,         \* the files compaction has still to remove
  now,             \* the clock, in milliseconds
  faults           \* history: what failed since the engine was opened

disk   == <<wal, tail, segments>>
memory == <<index, buffered_index, unflushed_docs, segment_count>>
stage  == <<pc, req, out, sources>>
vars   == <<disk, memory, stage, now, faults>>

----------------------------------------------------------------------------
(* Documents, log records and segment files. *)

Map   == [Ids -> Docs \cup {NoDoc}]
Empty == [id \in Ids |-> NoDoc]
Live(map) == {id \in Ids : map[id] # NoDoc}

Adds     == [op : {"add"}, id : Ids, doc : Docs]
Deletes  == [op : {"delete"}, id : Ids, doc : {NoDoc}]
Records  == {r \in Adds \cup Deletes : r.op \in ClientOps}
Requests == Adds \cup Deletes \cup [op : {"flush", "compact", "none"}]
NoRequest == [op |-> "none"]

Effect(map, r) == [map EXCEPT ![r.id] = r.doc]

\* Replaying a log over a map: for each id its last record counts.
Mentions(log, id) == {k \in DOMAIN log : log[k].id = id}
Replay_first(map, log) ==
  [id \in Ids |-> IF Mentions(log, id) = {} THEN map[id]
                  ELSE log[Min(Mentions(log, id))].doc]
Replay(map, log) ==
  [id \in Ids |-> IF Mentions(log, id) = {} THEN map[id]
                  ELSE log[Max(Mentions(log, id))].doc]
AddsIn_all(log) == Len(log)
AddsIn_net(log) == Cardinality({k \in DOMAIN log : log[k].op = "add"})
                   - Cardinality({k \in DOMAIN log : log[k].op = "delete"})
AddsIn(log) == Cardinality({k \in DOMAIN log : log[k].op = "add"})

Names == [kind : {"flush", "compacted"}, ts : Nat, n : Nat]
NoName == [kind |-> "none", ts |-> 0, n |-> 0]
FlushName_noCount(ts, n) == [kind |-> "flush", ts |-> ts, n |-> 1]
FlushName(ts, n) == [kind |-> "flush", ts |-> ts, n |-> n]   \* segment_{ts}_{n}.seg
CompactedName(ts) == [kind |-> "compacted", ts |-> ts, n |-> 0]

Contents == [docs : Map, whole : BOOLEAN]
Torn == [docs |-> Empty, whole |-> FALSE]
Whole(map) == [docs |-> map, whole |-> TRUE]
Files == DOMAIN segments
WithFile(f, c) == [g \in Files \cup {f} |-> IF g = f THEN c ELSE segments[g]]
Flushed == UNION {Live(segments[f].docs) : f \in Files}

\* File names sort as text: digits before "compacted", and "10" before "9".  As
\* text, n counts as the fraction n / Scale(n), and a part of a text comes before
\* it; milliseconds all have thirteen digits.
Scale(n) == LET s[m \in 0..n] == IF m < 10 THEN 10 ELSE 10 * s[m \div 10] IN s[n]
TextBefore(m, n) ==
  LET x == m * Scale(n)  y == n * Scale(m) IN x < y \/ (x = y /\ m < n)
Before(a, b) ==
  \/ a.kind = "flush" /\ b.kind = "compacted"
  \/ /\ a.kind = b.kind
     /\ a.ts < b.ts \/ (a.ts = b.ts /\ TextBefore(a.n, b.n))
InNameOrder_unsorted(order) == TRUE
InNameOrder(order) == \A i, j \in DOMAIN order : i < j => Before(order[i], order[j])

\* Merging segments in some order: for each id the last file holding it counts.
Holders(order, id) == {k \in DOMAIN order : segments[order[k]].docs[id] # NoDoc}
MergeAll_dropsLast(order) ==
  LET read == {k \in DOMAIN order : k < Len(order)}
      holders(id) == Holders(order, id) \cap read
  IN [id \in Ids |-> IF holders(id) = {} THEN NoDoc
                     ELSE segments[order[Max(holders(id))]].docs[id]]
MergeAll(order) ==
  [id \in Ids |-> IF Holders(order, id) = {} THEN NoDoc
                  ELSE segments[order[Max(Holders(order, id))]].docs[id]]

\* What opening the directory would give, loading the files in that order.
Recovered(order) == Replay(MergeAll(order), wal)
Openable == tail # "damaged" /\ \A f \in Files : segments[f].whole

----------------------------------------------------------------------------
Init ==
  /\ wal = <<>> /\ tail = "clean" /\ segments = <<>>
  /\ index = Empty /\ buffered_index = Empty
  /\ unflushed_docs = 0 /\ segment_count = 0
  /\ pc = "idle" /\ req = NoRequest /\ out = NoName /\ sources = <<>>
  /\ now = 0 /\ faults = {}

\* Bounds of the instance, on client calls only: what was called can complete.
Room(r) == /\ r.op \in {"add", "delete"} => Len(wal) < MaxLog
           /\ r.op \in {"add", "flush"} => Cardinality(Files) < MaxSegments

Call(r) == pc = "idle" /\ r.op \in ClientOps /\ Room(r) /\ req' = r
Return == pc' = "idle" /\ req' = NoRequest /\ out' = NoName /\ sources' = <<>>
Fault(what) == faults' = faults \cup {what} /\ Cardinality(faults') <= MaxFaults

(* add_document and delete_document. *)

\* writeln! writes the record and its newline separately.
AppendedTail == IF tail = "clean" THEN "open" ELSE "damaged"

AppendJson(r) ==
  /\ Call(r)
  /\ wal' = Append(wal, r)
  /\ tail' = AppendedTail
  /\ pc' = "json"
  /\ UNCHANGED <<segments, memory, out, sources, now, faults>>

AppendNewline ==
  /\ pc = "json"
  /\ tail' = IF tail = "open" THEN "clean" ELSE tail
  /\ pc' = "logged"
  /\ UNCHANGED <<wal, segments, memory, req, out, sources, now, faults>>

\* The error is logged and the operation goes on.
AppendFails(r) ==
  /\ Call(r)
  /\ Fault("append")
  /\ tail' \in {tail, "damaged"}
  /\ pc' = "logged"
  /\ UNCHANGED <<wal, segments, memory, out, sources, now>>

NewlineFails ==
  /\ pc = "json"
  /\ Fault("append")
  /\ pc' = "logged"
  /\ UNCHANGED <<disk, memory, req, out, sources, now>>

FlushDue == FlushThreshold > 0 /\ unflushed_docs + 1 >= FlushThreshold

ApplyAdd ==
  /\ pc = "logged" /\ req.op = "add"
  /\ index' = Effect(index, req)
  /\ buffered_index' = Effect(buffered_index, req)
  /\ unflushed_docs' = unflushed_docs + 1
  /\ IF FlushDue
       THEN pc' = "flush" /\ req' = [op |-> "flush"] /\ UNCHANGED <<out, sources>>
       ELSE Return
  /\ UNCHANGED <<disk, segment_count, now, faults>>

ApplyDelete ==
  /\ pc = "logged" /\ req.op = "delete"
  /\ index' = Effect(index, req)
  /\ buffered_index' = Effect(buffered_index, req)
  /\ Return
  /\ UNCHANGED <<disk, unflushed_docs, segment_count, now, faults>>

----------------------------------------------------------------------------
(* flush; an empty buffer makes it a no-op. *)

FlushCalled ==
  /\ Call([op |-> "flush"])
  /\ Live(buffered_index) # {}
  /\ pc' = "flush"
  /\ UNCHANGED <<disk, memory, out, sources, now, faults>>

\* File::create empties the file if there is one of that name.
CreateSegment ==
  /\ pc = "flush"
  /\ out' = FlushName(now, segment_count + 1)
  /\ segments' = WithFile(out', Torn)
  /\ pc' = "write"
  /\ UNCHANGED <<wal, tail, memory, req, sources, now, faults>>

FinishSegment ==
  /\ pc = "write"
  /\ segments' = [segments EXCEPT ![out] = Whole(buffered_index)]
  /\ buffered_index' = Empty
  /\ unflushed_docs' = 0
  /\ segment_count' = segment_count + 1
  /\ pc' = "truncate"
  /\ UNCHANGED <<wal, tail, index, req, out, sources, now, faults>>

SegmentFails_ignored ==
  /\ pc = "write" /\ Fault("segment")
  /\ buffered_index' = Empty /\ unflushed_docs' = 0
  /\ pc' = "truncate"
  /\ UNCHANGED <<disk, index, segment_count, req, out, sources, now>>
SegmentFails ==
  /\ pc \in {"flush", "write"}
  /\ Fault("segment")
  /\ Return
  /\ UNCHANGED <<disk, memory, now>>

TruncateLog ==
  /\ pc = "truncate"
  /\ wal' = <<>> /\ tail' = "clean"
  /\ IF req.op = "compact"
       THEN pc' = "list" /\ out' = NoName /\ UNCHANGED <<req, sources>>
       ELSE Return
  /\ UNCHANGED <<segments, memory, now, faults>>

TruncateFails ==
  /\ pc = "truncate"
  /\ Fault("truncate")
  /\ Return
  /\ UNCHANGED <<disk, memory, now>>

----------------------------------------------------------------------------
(* compact and merge_segments. *)

CompactCalled ==
  /\ Call([op |-> "compact"])
  /\ pc' = IF Live(buffered_index) # {} THEN "flush" ELSE "list"
  /\ UNCHANGED <<disk, memory, out, sources, now, faults>>

NothingToMerge ==
  /\ pc = "list" /\ Cardinality(Files) <= 1
  /\ Return
  /\ UNCHANGED <<disk, memory, now, faults>>

\* A source cannot be parsed, or the temporary file cannot be written.
MergeFails ==
  /\ pc = "list" /\ Cardinality(Files) > 1
  /\ MaxFaults > 0 \/ \E f \in Files : ~segments[f].whole
  /\ Return
  /\ UNCHANGED <<disk, memory, now, faults>>

\* read_dir lists the files in any order; the output is renamed into place.
MergeSegments ==
  /\ pc = "list" /\ Cardinality(Files) > 1
  /\ \A f \in Files : segments[f].whole
  /\ out' = CompactedName(now)
  /\ \E order \in SetToSeqs(Files) :
       /\ segments' = WithFile(out', Whole(MergeAll(order)))
       /\ sources' = order
  /\ pc' = "remove"
  /\ UNCHANGED <<wal, tail, memory, req, now, faults>>

RemoveSource_again ==
  /\ pc = "remove" /\ sources # <<>>
  /\ segments' = Restrict(segments, Files \ ({Head(sources)} \ {out}))
  /\ UNCHANGED <<wal, tail, memory, stage, now, faults>>
RemoveSource ==
  /\ pc = "remove" /\ sources # <<>>
  /\ segments' = Restrict(segments, Files \ ({Head(sources)} \ {out}))
  /\ sources' = Tail(sources)
  /\ UNCHANGED <<wal, tail, memory, pc, req, out, now, faults>>

RemoveFails ==
  /\ pc = "remove" /\ sources # <<>>
  /\ Fault("remove")
  /\ sources' = Tail(sources)
  /\ UNCHANGED <<disk, memory, pc, req, out, now>>

CompactDone ==
  /\ pc = "remove" /\ sources = <<>>
  /\ segment_count' = 1
  /\ Return
  /\ UNCHANGED <<disk, index, buffered_index, unflushed_docs, now, faults>>

----------------------------------------------------------------------------
(* The process is killed (or the engine dropped), and opened again. *)

Crash ==
  /\ pc # "down" /\ now < MaxTime
  /\ pc \in {"json", "write"} => Tears
  /\ \/ UNCHANGED <<wal, tail>>
     \/ pc = "json" /\ wal' = Front(wal) /\ tail' = "damaged"
  /\ buffered_index' = Empty /\ unflushed_docs' = 0 /\ segment_count' = 0
  /\ pc' = "down" /\ out' = NoName /\ sources' = <<>>
  /\ req' = IF pc \in {"json", "logged"} THEN req ELSE NoRequest
  /\ now' = now + 1   \* a restart takes a millisecond or more
  /\ UNCHANGED <<segments, index, faults>>

Open ==
  /\ pc = "down" /\ Openable
  /\ \E order \in SetToSeqs(Files) : InNameOrder(order) /\ index' = Recovered(order)
  /\ buffered_index' = Replay(Empty, wal)
  /\ unflushed_docs' = AddsIn(wal)
  /\ segment_count' = Cardinality(Files)
  /\ Return
  /\ faults' = {}
  /\ UNCHANGED <<disk, now>>

\* open returns the error, and so does every later attempt.
OpenFails == pc = "down" /\ ~Openable /\ UNCHANGED vars

\* Time passes at any point; only the stages that read the clock can tell.
Tick == /\ pc \in {"flush", "list"} /\ now < MaxTime
        /\ now' = now + 1
        /\ UNCHANGED <<disk, memory, stage, faults>>

----------------------------------------------------------------------------
Add == (\E r \in Records : AppendJson(r) \/ AppendFails(r))
Write == AppendNewline \/ NewlineFails \/ ApplyAdd \/ ApplyDelete
Flush == CreateSegment \/ FinishSegment \/ SegmentFails \/ TruncateLog \/ TruncateFails
Compact == NothingToMerge \/ MergeFails \/ MergeSegments
           \/ RemoveSource \/ RemoveFails \/ CompactDone

\* A step of the operation under way.
Proceed == Write \/ Flush \/ Compact

\* search, get_document, stats: they take `&self`.
Query == pc = "idle" /\ UNCHANGED vars

Next == Query \/ Add \/ FlushCalled \/ CompactCalled \/ Proceed
        \/ Crash \/ Open \/ OpenFails \/ Tick

Spec == Init /\ [][Next]_vars

\* Clients who keep clear of what the engine does not promise: they delete no
\* document that a segment holds, overwrite one only while there are no compacted
\* file and no two-digit file name, and compact only when all copies of a
\* document agree.
CopiesAgree ==
  \A id \in Ids :
    Cardinality(({segments[f].docs[id] : f \in Files}
                  \cup {buffered_index[id]}) \ {NoDoc}) <= 1
Careful ==
  pc = "idle" /\ req' # NoRequest =>
    /\ req'.op = "delete" => req'.id \notin Flushed
    /\ req'.op = "add" /\ req'.id \in Flushed =>
         segment_count < 9 /\ \A f \in Files : f.kind = "flush"
    /\ req'.op = "compact" => CopiesAgree
\* The process runs the operation it has begun to its end, unless it is killed.
CarefulSpec == Init /\ [][Next /\ Careful]_vars /\ WF_vars(Proceed)

----------------------------------------------------------------------------
(* The types, checked and proved: the counters never go below zero and the   *)
(* log holds only records of requests.                                      *)
TypeOK ==
  /\ wal \in Seq(Records) /\ tail \in {"clean", "open", "damaged"}
  /\ segments \in [Files -> Contents] /\ Files \subseteq Names /\ IsFiniteSet(Files)
  /\ index \in Map /\ buffered_index \in Map
  /\ unflushed_docs \in Nat /\ segment_count \in Nat
  /\ pc \in {"down", "idle", "json", "logged", "flush", "write", "truncate",
             "list", "remove"}
  /\ req \in Requests /\ out \in Names \cup {NoName} /\ sources \in Seq(Names)
  /\ now \in Nat /\ faults \subseteq {"append", "segment", "truncate", "remove"}

\* A segment that can be read holds this id.
Held(id) == \E f \in Files : segments[f].whole /\ segments[f].docs[id] # NoDoc
\* The last record of the log for this id adds it, or none does and it is held.
OnDisk(log, id) ==
  \/ Mentions(log, id) # {} /\ log[Max(Mentions(log, id))].op = "add"
  \/ Mentions(log, id) = {} /\ Held(id)
Deleting(id) == req.op = "delete" /\ req.id = id

(* Every document queries can see is on disk in some version, at every      *)
(* instant a crash can fall: in the log, or in a whole segment; unless a    *)
(* log record could not be written (engine.rs:181-185, 241-249,             *)
(* merge.rs:37-49).                                                         *)
LiveDocsOnDisk ==
  "append" \notin faults =>
    \A id \in Live(index) : Deleting(id) \/ OnDisk(wal, id)

(* So a restart, after whatever flushes and compactions were cut short,     *)
(* loses no document but the one whose deletion was under way.              *)
LiveDocsSurviveRestart ==
  [][Open /\ "append" \notin faults =>
       \A id \in Live(index) : Deleting(id) \/ id \in Live(index)']_vars

(* Segments only accumulate ids: neither a flush that meets a file of its   *)
(* own name, nor a compaction or its failure part way, takes the last       *)
(* readable copy of a document from disk (engine.rs:238, merge.rs:38-49).   *)
FlushedDocsStay == [][\A id \in Ids : Held(id) => Held(id)']_vars

(* When no file operation failed, an idle engine's buffer is what its log   *)
(* replays to, unflushed_docs counts the log's additions and segment_count  *)
(* the files, across restarts too: what flush is about to truncate is what  *)
(* it is about to write (engine.rs:146-158, 189-196, 243-249, 289).         *)
MemoryMatchesDisk ==
  pc = "idle" /\ faults = {} =>
    /\ buffered_index = Replay(Empty, wal)
    /\ unflushed_docs = AddsIn(wal)
    /\ segment_count = Cardinality(Files)

\* The operation under way, when it changes a document.
Pending == IF req \in Adds \cup Deletes THEN req ELSE NoRequest
Expected == IF Pending = NoRequest THEN index ELSE Effect(index, req)

(* With careful clients, opening the directory at any instant gives         *)
(* exactly the documents queries saw, the operation under way included,     *)
(* whatever flush or compaction was cut short, and whatever the order its   *)
(* sources were merged in (engine.rs:102-177, merge.rs:23-49).              *)
RecoversExactly ==
  "append" \notin faults /\ Openable =>
    \A order \in SetToSeqs(Files) : InNameOrder(order) => Recovered(order) = Expected

(* For them the engine is a DocumentStore: flushes, compactions, crashes    *)
(* and restarts change no document, and a request takes effect once         *)
(* (engine.rs:180-295).                                                     *)
Store == INSTANCE DocumentStore WITH docs <- index, pending <- Pending
ImplementsStore == Store!Spec

(* An operation that was begun ends: the threshold's flush within an        *)
(* addition, and a compaction's flush, merge and removals (engine.rs:       *)
(* 180-295), unless the process is killed first.                            *)
OperationsEnd == pc \notin {"idle", "down"} ~> pc \in {"idle", "down"}

(* wal.rs:23-24 and README.md:381: a deletion that returned stays made      *)
(* until the id is added again.                                             *)
DeletedStayDeleted ==
  [][Open => \A id \in Ids \ Live(index) : Pending = NoRequest => id \notin Live(index)']_vars

(* index.rs:90: adding an id again overwrites it; a restart must not bring  *)
(* an older version back.                                                   *)
LatestVersionSurvives ==
  [][Open => \A id \in Live(index) \cap Live(index)' :
       Pending = NoRequest => index'[id] = index[id]]_vars

(* README.md:18: the log ensures crash resilience: after a crash the        *)
(* directory can be opened.                                                 *)
AlwaysReopens == pc = "down" => Openable
=============================================================================
