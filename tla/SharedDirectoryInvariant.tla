---------------------- MODULE SharedDirectoryInvariant ------------------------
(***************************************************************************)
(* The inductive invariant behind the theorems of SharedDirectoryProofs.   *)
(* No lock orders the processes; what orders them is that a file a         *)
(* compaction removes is older than the file that has its documents, so    *)
(* compactions that remove each other's outputs never come full circle.    *)
(***************************************************************************)
EXTENDS SharedDirectory

Numbers == 1..created   \* of the files there have been

(* The types.  File numbers are never used again.                           *)
TypeOK ==
  /\ created \in Nat /\ Files \subseteq Numbers
  /\ segments \in [Files -> [docs : SUBSET Ids, whole : BOOLEAN]]
  /\ log \subseteq Ids
  /\ pc \in [Processes -> {"out", "open", "idle", "flush", "write", "truncate", "list",
                           "merge", "remove"}]
  /\ job \in [Processes -> {"none", "flush", "compact"}]
  /\ listed \in [Processes -> SUBSET Numbers] /\ sources \in [Processes -> SUBSET Numbers]
  /\ buffered \in [Processes -> SUBSET Ids] /\ read \in [Processes -> SUBSET Ids]
  /\ taken \in [Processes -> SUBSET Ids] /\ found \in [Processes -> SUBSET Ids]

(* A file that can be read and has this document.                           *)
Has(f, id) == f \in Files /\ segments[f].whole /\ id \in segments[f].docs

(* The file a flush writes is there, not finished, and nobody else's.       *)
WritesOwnFile ==
  \A p \in Processes : pc[p] = "write" =>
    /\ \E f \in Files : sources[p] = {f} /\ ~segments[f].whole
    /\ \A q \in Processes \ {p} : pc[q] = "write" => sources[p] # sources[q]

(* What a compaction has read is what the files it has passed still have.   *)
SourcesAreRead ==
  \A p \in Processes : pc[p] = "merge" =>
    \A f \in (sources[p] \ listed[p]) \cap Files :
      segments[f].whole /\ segments[f].docs \subseteq read[p]

(* Each document of a file about to be removed is in a newer file.          *)
SourcesAreCopied ==
  \A p \in Processes : pc[p] = "remove" =>
    \A f \in sources[p] \cap Files :
      /\ segments[f].whole
      /\ \A id \in segments[f].docs : \E g \in Files : g > f /\ Has(g, id)

(* What was in the segments when a process began to open is read, or in a   *)
(* file it has still to read, or in one that is gone, which it will notice. *)
FoundIsReadOrListed ==
  \A p \in Processes : pc[p] = "open" =>
    \A id \in found[p] \ read[p] : \E f \in listed[p] : f \in Files => Has(f, id)

(* A process has acknowledged nothing before it has opened the directory.   *)
NothingTakenYet == \A p \in Processes : pc[p] \in {"out", "open"} => taken[p] = {}

(* What every state of the processes satisfies, and every step preserves.   *)
SharedInv ==
  /\ TypeOK /\ WritesOwnFile /\ SourcesAreRead /\ SourcesAreCopied
  /\ FoundIsReadOrListed /\ NothingTakenYet /\ AcknowledgedStays
=============================================================================
