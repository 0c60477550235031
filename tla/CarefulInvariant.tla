-------------------------- MODULE CarefulInvariant ---------------------------
(***************************************************************************)
(* The inductive invariant of a SearchEngine with careful clients, behind  *)
(* the theorems of CarefulProofs.  RecoversExactly alone is not inductive: *)
(* truncating the log, overwriting or removing a file and replaying the    *)
(* log into a new buffer are harmless only if every stale copy in a file   *)
(* is followed by a newer one, or about to be.                             *)
(***************************************************************************)
EXTENDS SearchEngineInvariant

Mentioned(id) == Mentions(wal, id) # {}
\* A crash cut the last record off: the directory cannot be opened any more.
Cut == pc = "down" /\ tail = "damaged"
Current(f, id) == segments[f].docs[id] \in {NoDoc, index[id]}

TornIsEmpty == \A f \in Files : ~segments[f].whole => segments[f].docs = Empty

(* What its client asked of the request stays so until it is applied.       *)
RequestIsCareful ==
  req \in Mutations =>
    /\ ~Cut => Mentioned(req.id)
    /\ req.op = "delete" => req.id \notin Flushed
    /\ req.op = "add" /\ req.id \in Flushed =>
         segment_count < 9 /\ \A f \in Files : f.kind = "flush"

(* The buffer has what queries see, and the log has it too.                 *)
BufferIsCurrent ==
  \A id \in Live(buffered_index) : buffered_index[id] = index[id] /\ Mentioned(id)

(* The last record of an id is what a restart is to find.                   *)
LogIsCurrent ==
  ~Cut => \A id \in Ids :
    Mentioned(id) => wal[Max(Mentions(wal, id))].doc = Expected[id]

(* No file has a document that was deleted.                                 *)
NoGhosts == Flushed \subseteq Live(index)

(* A file's stale copy comes before a current one, where the log or the     *)
(* buffer does not have the document.                                       *)
NewestIsCurrent ==
  ~Cut => \A id \in Ids :
    (IF pc = "down" THEN ~Mentioned(id) ELSE buffered_index[id] = NoDoc) =>
      \A f \in Files : Current(f, id) \/
        \E g \in Files : Before(f, g) /\ segments[g].docs[id] = index[id]

(* While there is a compacted file, or is to be one, no copy is stale.      *)
Settled == \A f \in Files, id \in Ids : Current(f, id)
CompactedIsSettled ==
  (\E f \in Files : f.kind = "compacted") \/ req.op = "compact" => Settled

(* The file a stale copy's successor goes to will sort after it.            *)
OverwritesSortLast ==
  \A f \in Files, id \in Live(buffered_index) :
    Current(f, id) \/ f.ts < now \/ segment_count < 9

CarefulInv ==
  /\ TornIsEmpty /\ RequestIsCareful /\ BufferIsCurrent /\ LogIsCurrent
  /\ NoGhosts /\ NewestIsCurrent /\ CompactedIsSettled /\ OverwritesSortLast
=============================================================================
