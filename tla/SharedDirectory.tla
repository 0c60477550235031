--------------------------- MODULE SharedDirectory ----------------------------
(***************************************************************************)
(* Several processes over one index directory, which no lock protects: a    *)
(* server and the commands search, stats and compact run beside it          *)
(* (src/main.rs:99-189).  Each opens its own SearchEngine (src/engine.rs),  *)
(* whose steps are interleaved wherever they touch the disk.                *)
(* A document is an id; deletions, failing disks and torn records are       *)
(* SearchEngine's subject.  The files of two processes have different       *)
(* names: no two are created in the same millisecond.  What a process       *)
(* answers to queries is left out, but for what opening loads.  Adding is   *)
(* one step: what another process does between the record and the buffer    *)
(* has the effect it has after both, but for glued records, which only make *)
(* open fail, as Stop does at any point.                                    *)
(* A definition named x_y, before the definition x, is x with a seeded bug. *)
(***************************************************************************)
EXTENDS Integers, FiniteSets, Functions

CONSTANTS Processes, Ids,
          MaxFiles   \* bound of the explored instance

ASSUME BoundAssumption == MaxFiles \in Nat

VARIABLES
  segments,    \* disk: the .seg files, by the order of their creation
  log,         \* disk: the ids in wal.log
  created,     \* how many segment files there have been
  pc,          \* the stage of each process
  job,         \* whether it flushes or compacts
  buffered,    \* the ids it has in buffered_index
  listed,      \* the files it has still to read
  sources,     \* the files it has still to remove
  read,        \* the documents of the files it has read, to open or to merge
  taken,       \* history: the additions it has acknowledged since it started
  found        \* history: what segments held when it began to open

disk == <<segments, log, created>>
memory == <<job, buffered, listed, sources, read>>
history == <<taken, found>>
vars == <<disk, pc, memory, history>>

----------------------------------------------------------------------------
Files == DOMAIN segments
Held == UNION {segments[f].docs : f \in {g \in Files : segments[g].whole}}
WithFile(f, docs, whole) ==
  [g \in Files \cup {f} |-> IF g = f THEN [docs |-> docs, whole |-> whole] ELSE segments[g]]

Room == created < MaxFiles   \* bound on flushes and compactions that begin
To(p, stage) == pc' = [pc EXCEPT ![p] = stage]
Set(f, p, v) == [f EXCEPT ![p] = v]

Init ==
  /\ segments = <<>> /\ log = {} /\ created = 0
  /\ pc = [p \in Processes |-> "out"] /\ job = [p \in Processes |-> "none"]
  /\ buffered = [p \in Processes |-> {}]
  /\ listed = [p \in Processes |-> {}] /\ sources = [p \in Processes |-> {}]
  /\ read = [p \in Processes |-> {}] /\ taken = [p \in Processes |-> {}]
  /\ found = [p \in Processes |-> {}]

----------------------------------------------------------------------------
(* open: the files are listed, read one after the other, then the log.       *)

Start(p) ==
  /\ pc[p] = "out"
  /\ To(p, "open")
  /\ listed' = Set(listed, p, Files)
  /\ found' = Set(found, p, Held)
  /\ UNCHANGED <<disk, job, buffered, sources, read, taken>>

\* What a process leaves behind when it ends, fails to open or is killed.
Left(p) ==
  /\ To(p, "out") /\ job' = Set(job, p, "none")
  /\ buffered' = Set(buffered, p, {})
  /\ listed' = Set(listed, p, {}) /\ sources' = Set(sources, p, {})
  /\ read' = Set(read, p, {}) /\ taken' = Set(taken, p, {}) /\ found' = Set(found, p, {})
  /\ UNCHANGED disk

Take(p, f) ==
  /\ listed' = Set(listed, p, listed[p] \ {f})
  /\ read' = Set(read, p, read[p] \cup IF f \in Files THEN segments[f].docs ELSE {})

\* A file that was removed since, or is half written, makes open fail.
LoadSegment_skipsMissing(p) ==
  /\ pc[p] = "open"
  /\ \E f \in listed[p] :
       IF f \in Files => segments[f].whole
         THEN Take(p, f) /\ UNCHANGED <<disk, pc, job, buffered, sources, history>>
         ELSE Left(p)
LoadSegment(p) ==
  /\ pc[p] = "open"
  /\ \E f \in listed[p] :
       IF f \in Files /\ segments[f].whole
         THEN Take(p, f) /\ UNCHANGED <<disk, pc, job, buffered, sources, history>>
         ELSE Left(p)

Replay(p) ==
  /\ pc[p] = "open" /\ listed[p] = {}
  /\ To(p, "idle")
  /\ buffered' = Set(buffered, p, log)
  /\ read' = Set(read, p, {}) /\ found' = Set(found, p, {})
  /\ UNCHANGED <<disk, job, listed, sources, taken>>

\* A command ends when it is done, a server when it is killed, both at any point.
Stop(p) == pc[p] # "out" /\ Left(p)

----------------------------------------------------------------------------
\* The threshold may be reached: how many documents it takes is left out.
Add(p, id) ==
  /\ pc[p] = "idle"
  /\ log' = log \cup {id}
  /\ buffered' = Set(buffered, p, buffered[p] \cup {id})
  /\ taken' = Set(taken, p, taken[p] \cup {id})
  /\ \/ UNCHANGED <<pc, job>>
     \/ Room /\ To(p, "flush") /\ job' = Set(job, p, "flush")
  /\ UNCHANGED <<segments, created, listed, sources, read, found>>

(* flush and compact. *)

FlushCalled(p) ==
  /\ pc[p] = "idle" /\ Room /\ buffered[p] # {}
  /\ To(p, "flush") /\ job' = Set(job, p, "flush")
  /\ UNCHANGED <<disk, buffered, listed, sources, read, history>>

CompactCalled(p) ==
  /\ pc[p] = "idle" /\ Room
  /\ To(p, IF buffered[p] # {} THEN "flush" ELSE "list") /\ job' = Set(job, p, "compact")
  /\ UNCHANGED <<disk, buffered, listed, sources, read, history>>

CreateSegment(p) ==
  /\ pc[p] = "flush"
  /\ created' = created + 1
  /\ segments' = WithFile(created', {}, FALSE)
  /\ sources' = Set(sources, p, {created'})   \* the file it writes
  /\ To(p, "write")
  /\ UNCHANGED <<log, job, buffered, listed, read, history>>

FinishSegment(p) ==
  /\ pc[p] = "write"
  /\ \E f \in sources[p] :
       segments' = IF f \in Files THEN WithFile(f, buffered[p], TRUE) ELSE segments
  /\ buffered' = Set(buffered, p, {}) /\ sources' = Set(sources, p, {})
  /\ To(p, "truncate")
  /\ UNCHANGED <<log, created, job, listed, read, history>>

TruncateLog(p) ==
  /\ pc[p] = "truncate"
  /\ log' = {}
  /\ IF job[p] = "compact" THEN To(p, "list") /\ UNCHANGED job
     ELSE To(p, "idle") /\ job' = Set(job, p, "none")
  /\ UNCHANGED <<segments, created, buffered, listed, sources, read, history>>

Done(p) == To(p, "idle") /\ job' = Set(job, p, "none")

ListSegments(p) ==
  /\ pc[p] = "list"
  /\ IF Cardinality(Files) > 1
       THEN /\ To(p, "merge") /\ UNCHANGED job
            /\ listed' = Set(listed, p, Files) /\ sources' = Set(sources, p, Files)
       ELSE Done(p) /\ UNCHANGED <<listed, sources>>
  /\ UNCHANGED <<disk, buffered, read, history>>

MergeFails(p) ==
  /\ Done(p)
  /\ listed' = Set(listed, p, {}) /\ sources' = Set(sources, p, {})
  /\ read' = Set(read, p, {})
  /\ UNCHANGED <<disk, buffered, history>>

\* A file that is gone is passed over, unless it goes between the test and the
\* reading; one that cannot be parsed ends the compaction.
ReadSource_skipsUnreadable(p) ==
  /\ pc[p] = "merge"
  /\ \E f \in listed[p] :
       Take(p, f) /\ UNCHANGED <<disk, pc, job, buffered, sources, history>>
ReadSource(p) ==
  /\ pc[p] = "merge"
  /\ \E f \in listed[p] :
       \/ /\ f \in Files => segments[f].whole
          /\ Take(p, f) /\ UNCHANGED <<disk, pc, job, buffered, sources, history>>
       \/ /\ f \in Files => ~segments[f].whole
          /\ MergeFails(p)

\* The output is renamed into place.
WriteMerged_relists(p) ==
  /\ pc[p] = "merge" /\ listed[p] = {}
  /\ created' = created + 1
  /\ segments' = WithFile(created', read[p], TRUE)
  /\ sources' = Set(sources, p, Files)
  /\ read' = Set(read, p, {})
  /\ To(p, "remove")
  /\ UNCHANGED <<log, job, buffered, listed, history>>
WriteMerged(p) ==
  /\ pc[p] = "merge" /\ listed[p] = {}
  /\ created' = created + 1
  /\ segments' = WithFile(created', read[p], TRUE)
  /\ read' = Set(read, p, {})
  /\ To(p, "remove")
  /\ UNCHANGED <<log, job, buffered, listed, sources, history>>

RemoveSource(p) ==
  /\ pc[p] = "remove"
  /\ \E f \in sources[p] :
       /\ segments' = Restrict(segments, Files \ {f})
       /\ sources' = Set(sources, p, sources[p] \ {f})
       /\ IF sources[p] = {f} THEN Done(p) ELSE UNCHANGED <<pc, job>>
  /\ UNCHANGED <<log, created, buffered, listed, read, history>>

----------------------------------------------------------------------------
\* search, get_document, stats.
Query(p) == pc[p] = "idle" /\ UNCHANGED vars

Step(p) ==
  \/ Start(p) \/ LoadSegment(p) \/ Replay(p) \/ Stop(p) \/ Query(p)
  \/ FlushCalled(p) \/ CompactCalled(p) \/ \E id \in Ids : Add(p, id)
  \/ CreateSegment(p) \/ FinishSegment(p) \/ TruncateLog(p)
  \/ ListSegments(p) \/ ReadSource(p) \/ WriteMerged(p) \/ RemoveSource(p)
Next == \E p \in Processes : Step(p)

Spec == Init /\ [][Next]_vars

----------------------------------------------------------------------------
(* Whatever two compactions, or a compaction and a flush, do to each        *)
(* other's files, what a segment held stays held by some segment that can   *)
(* be read (merge.rs:23-49, engine.rs:241): no source is removed that was   *)
(* not merged, by its process or by another.                                *)
FlushedStays == [][Held \subseteq Held']_vars

(* As long as a process lives, what it has acknowledged is in its buffer or *)
(* in a segment, though others truncate its log and remove its segments     *)
(* (engine.rs:187-191, 241-249).                                            *)
AcknowledgedStays == \A p \in Processes : taken[p] \subseteq buffered[p] \cup Held

(* A process that opens the directory beside others either fails or has     *)
(* every document that was in a segment when it began: a compaction cannot  *)
(* take files away under it unnoticed (engine.rs:115-135).                  *)
OpenSeesFlushed ==
  [][\A p \in Processes :
       pc[p] = "open" /\ pc'[p] = "idle" => found[p] \subseteq read[p] \cup log]_vars
=============================================================================
