------------------------ MODULE SearchEngineInvariant ------------------------
(***************************************************************************)
(* The inductive invariant behind the theorems of SearchEngineProofs.      *)
(* LiveDocsOnDisk alone is not inductive: truncating the log is harmless   *)
(* only because the flush before it wrote every document the log alone     *)
(* held, and a new segment's file name may be that of an older file.       *)
(***************************************************************************)
EXTENDS SearchEngine

Mutations == Adds \cup Deletes

(* Which operation each stage belongs to. *)
StageOK ==
  /\ pc = "idle" => req = NoRequest
  /\ pc \in {"json", "logged"} => req \in Mutations
  /\ pc \in {"flush", "write", "truncate", "list", "remove"} =>
       req.op \in {"flush", "compact"}
  /\ pc \in {"list", "remove"} => req.op = "compact"
  /\ pc = "down" => segment_count = 0

(* A live document is in the buffer or in a segment; once the buffer is     *)
(* written, in a segment.                                                   *)
LiveIsBufferedOrHeld ==
  pc # "down" => \A id \in Live(index) : buffered_index[id] # NoDoc \/ Held(id)
LiveIsHeld == pc = "truncate" => \A id \in Live(index) : Held(id)

(* The record being applied ends the log; without it, the log is still good. *)
RequestLogged ==
  pc \in {"json", "logged"} /\ "append" \notin faults => wal # <<>> /\ Last(wal) = req
GoodWithoutRequest ==
  pc = "json" /\ "append" \notin faults =>
    \A id \in Live(index) : OnDisk(Front(wal), id)

(* File f has nothing a whole compacted file does not have.                 *)
Covers(g, f) ==
  /\ g \in Files /\ segments[g].whole /\ g.kind = "compacted"
  /\ \A id \in Ids : segments[f].docs[id] # NoDoc => segments[g].docs[id] # NoDoc

(* The next segment's name is new, or that of a file compaction left over.  *)
NamesUsed ==
  \A f \in Files :
    f.kind = "flush" /\ segments[f].whole =>
      \/ f.ts < now
      \/ f.ts = now /\ f.n <= segment_count
      \/ \E g \in Files : Covers(g, f)

WritesNewFile ==
  pc = "write" =>
    out = FlushName(now, segment_count + 1) /\ out \in Files /\ segments[out] = Torn
OutputCovers == pc = "remove" => out \in Files /\ \A f \in Files : Covers(out, f)

(* Memory and disk while no file operation has failed: the buffer and the   *)
(* count of additions are those of the log, but for the record being        *)
(* applied, until the flush that is about to truncate the log.              *)
Applied == IF pc \in {"json", "logged"} THEN Front(wal) ELSE wal
BufferMatchesLog ==
  /\ pc = "truncate" => buffered_index = Empty /\ unflushed_docs = 0
  /\ faults = {} /\ pc \notin {"down", "truncate"} =>
       buffered_index = Replay(Empty, Applied) /\ unflushed_docs = AddsIn(Applied)

(* segment_count counts the files, so the next segment's name is a new one. *)
NamesAreNew ==
  /\ \A f \in Files : f.ts <= now
  /\ pc = "down" => \A f \in Files : f.ts < now
  /\ faults = {} /\ pc \notin {"down", "remove"} =>
       \A f \in Files : f.kind = "flush" /\ f.ts = now =>
         f.n <= IF pc = "write" THEN segment_count + 1 ELSE segment_count
CountMatchesFiles ==
  faults = {} /\ pc # "down" =>
    /\ pc = "write" => Cardinality(Files) = segment_count + 1
    /\ pc = "remove" => Files \subseteq Range(sources) \cup {out}
    /\ pc \notin {"write", "remove"} => Cardinality(Files) = segment_count

(* What every state of the engine satisfies, and every step preserves.       *)
IInv ==
  /\ TypeOK /\ StageOK
  /\ LiveIsBufferedOrHeld /\ LiveIsHeld
  /\ RequestLogged /\ GoodWithoutRequest /\ LiveDocsOnDisk
  /\ NamesUsed /\ WritesNewFile /\ OutputCovers
  /\ BufferMatchesLog /\ NamesAreNew /\ CountMatchesFiles
=============================================================================
