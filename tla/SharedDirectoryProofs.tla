------------------------ MODULE SharedDirectoryProofs -------------------------
(* Theorems about SharedDirectory: any number of processes, ids and files.   *)
EXTENDS SharedDirectoryInvariant, FiniteSetTheorems, TLAPS

----------------------------------------------------------------------------
(* A new directory that no process has opened.                               *)
LEMMA InitInv == Init => SharedInv
<1> SUFFICES ASSUME Init PROVE SharedInv
  OBVIOUS
<1>1. Files = {} /\ created = 0 /\ \A p \in Processes : pc[p] = "out" /\ taken[p] = {}
  BY DEF Init, Files
<1>2. TypeOK
  BY <1>1 DEF Init, TypeOK, Files, Numbers
<1>3. QED
  BY <1>1, <1>2 DEF SharedInv, WritesOwnFile, SourcesAreRead, SourcesAreCopied,
                    FoundIsReadOrListed, NothingTakenYet, AcknowledgedStays

(* A new file number is added to those there have been, or none is.          *)
LEMMA StepType ==
  ASSUME TypeOK, NEW p \in Processes, Step(p)
  PROVE  TypeOK'
<1> USE DEF disk, memory, history, Files, Numbers, To, Set
<1>1. Held \subseteq Ids
  BY DEF TypeOK, Held
<1>2. CASE Start(p)
  BY <1>1, <1>2 DEF Start, TypeOK
<1>3. CASE LoadSegment(p)
  <2>1. PICK f \in listed[p] :
          IF f \in Files /\ segments[f].whole
            THEN Take(p, f) /\ UNCHANGED <<disk, pc, job, buffered, sources, history>>
            ELSE Left(p)
    BY <1>3 DEF LoadSegment
  <2>2. CASE Left(p)
    BY <2>2 DEF Left, TypeOK
  <2>3. CASE f \in Files /\ Take(p, f) /\ UNCHANGED <<disk, pc, job, buffered, sources, history>>
    BY <2>3 DEF Take, TypeOK
  <2>4. QED
    BY <2>1, <2>2, <2>3
<1>4. CASE Replay(p)
  BY <1>4 DEF Replay, TypeOK
<1>5. CASE Stop(p)
  BY <1>5 DEF Stop, Left, TypeOK
<1>6. CASE Query(p)
  BY <1>6 DEF Query, vars, TypeOK
<1>7. CASE FlushCalled(p) \/ CompactCalled(p)
  BY <1>7 DEF FlushCalled, CompactCalled, TypeOK
<1>8. ASSUME NEW id \in Ids, Add(p, id) PROVE TypeOK'
  BY <1>8 DEF Add, TypeOK
<1>9. CASE CreateSegment(p)
  BY <1>9 DEF CreateSegment, WithFile, TypeOK
<1>10. CASE FinishSegment(p)
  BY <1>10 DEF FinishSegment, WithFile, TypeOK
<1>11. CASE TruncateLog(p)
  BY <1>11 DEF TruncateLog, TypeOK
<1>12. CASE ListSegments(p)
  BY <1>12 DEF ListSegments, Done, TypeOK
<1>13. CASE ReadSource(p)
  BY <1>13 DEF ReadSource, Take, MergeFails, Done, TypeOK
<1>14. CASE WriteMerged(p)
  BY <1>14 DEF WriteMerged, WithFile, TypeOK
<1>15. CASE RemoveSource(p)
  BY <1>15 DEF RemoveSource, Restrict, Done, TypeOK
<1>16. QED
  BY <1>2, <1>3, <1>4, <1>5, <1>6, <1>7, <1>8, <1>9, <1>10, <1>11, <1>12, <1>13, <1>14,
     <1>15 DEF Step

----------------------------------------------------------------------------
(* What one step does to the files: a file that is gone does not come back,  *)
(* one that can be read keeps its documents while it is there, and only a    *)
(* compaction that removes its sources takes one away.                       *)
LEMMA FilesStep ==
  ASSUME SharedInv, NEW p \in Processes, Step(p)
  PROVE  /\ \A f \in Numbers \ Files : f \notin Files'
         /\ \A f \in Files \cap Files' : segments[f].whole => segments'[f] = segments[f]
         /\ \A f \in Files \ Files' :
              pc[p] = "remove" /\ f \in sources[p] /\ Files' = Files \ {f}
<1> USE DEF disk, Files, Numbers
<1>1. TypeOK /\ WritesOwnFile
  BY DEF SharedInv
<1>2. CASE CreateSegment(p) \/ WriteMerged(p)
  <2>1. /\ DOMAIN segments' = DOMAIN segments \cup {created + 1}
        /\ \A f \in DOMAIN segments : f # created + 1 => segments'[f] = segments[f]
    BY <1>2 DEF CreateSegment, WriteMerged, WithFile
  <2>2. QED
    BY <1>1, <2>1 DEF TypeOK
<1>3. CASE FinishSegment(p)
  <2>1. PICK f \in DOMAIN segments : sources[p] = {f} /\ ~segments[f].whole
    BY <1>1, <1>3 DEF FinishSegment, WritesOwnFile
  <2>2. /\ DOMAIN segments' = DOMAIN segments
        /\ \A g \in DOMAIN segments \ {f} : segments'[g] = segments[g]
    BY <1>3, <2>1 DEF FinishSegment, WithFile
  <2>3. QED
    BY <2>1, <2>2
<1>4. CASE RemoveSource(p)
  BY <1>4 DEF RemoveSource, Restrict
<1>5. CASE segments' = segments
  BY <1>5
<1>6. QED
  BY <1>2, <1>3, <1>4, <1>5
  DEF Step, Start, LoadSegment, Left, Replay, Stop, Query, vars, FlushCalled,
      CompactCalled, Add, TruncateLog, ListSegments, ReadSource, MergeFails

(* Each document of a file that can be read is still in it or in a newer     *)
(* file.                                                                     *)
LEMMA CopyStays ==
  ASSUME SharedInv, NEW p \in Processes, Step(p), NEW f, NEW id, Has(f, id)
  PROVE  \E g \in Files' : g >= f /\ Has(g, id)'
<1>1. TypeOK /\ SourcesAreCopied /\ f \in Numbers
  BY DEF SharedInv, TypeOK, Has
<1>2. ASSUME NEW g, Has(g, id), g \in Files' PROVE Has(g, id)'
  BY <1>2, FilesStep DEF Has
<1>3. CASE f \in Files'
  BY <1>1, <1>2, <1>3 DEF Numbers
<1>4. CASE f \notin Files'
  <2>1. pc[p] = "remove" /\ f \in sources[p]
    BY <1>4, FilesStep DEF Has
  <2>2. PICK g \in Files : g > f /\ Has(g, id)
    BY <1>1, <2>1 DEF SourcesAreCopied, Has
  <2>3. g \in Files'
    BY <1>1, <1>4, <2>2, FilesStep DEF TypeOK, Numbers, Has
  <2>4. QED
    BY <1>1, <1>2, <2>2, <2>3 DEF TypeOK, Numbers
<1>5. QED
  BY <1>3, <1>4

(* A process changes nothing of another's memory.                            *)
LEMMA OthersKeep ==
  ASSUME TypeOK, NEW p \in Processes, Step(p), NEW q \in Processes, q # p
  PROVE  /\ pc'[q] = pc[q] /\ buffered'[q] = buffered[q] /\ listed'[q] = listed[q]
         /\ sources'[q] = sources[q] /\ read'[q] = read[q]
         /\ taken'[q] = taken[q] /\ found'[q] = found[q]
<1> USE DEF disk, memory, history, To, Set, TypeOK
<1>1. CASE Start(p) \/ Replay(p) \/ Query(p)
  BY <1>1 DEF Start, Replay, Query, vars
<1>2. CASE Stop(p)
  BY <1>2 DEF Stop, Left
<1>3. CASE LoadSegment(p)
  <2>1. PICK f \in listed[p] :
          IF f \in Files /\ segments[f].whole
            THEN Take(p, f) /\ UNCHANGED <<disk, pc, job, buffered, sources, history>>
            ELSE Left(p)
    BY <1>3 DEF LoadSegment
  <2>2. QED
    BY <2>1 DEF Take, Left
<1>4. CASE FlushCalled(p) \/ CompactCalled(p) \/ \E id \in Ids : Add(p, id)
  BY <1>4 DEF FlushCalled, CompactCalled, Add
<1>5. CASE CreateSegment(p) \/ FinishSegment(p) \/ TruncateLog(p)
  BY <1>5 DEF CreateSegment, FinishSegment, TruncateLog
<1>6. CASE ReadSource(p)
  BY <1>6 DEF ReadSource, Take, MergeFails, Done
<1>7. CASE ListSegments(p) \/ WriteMerged(p) \/ RemoveSource(p)
  BY <1>7 DEF ListSegments, WriteMerged, RemoveSource, Done
<1>8. QED
  BY <1>1, <1>2, <1>3, <1>4, <1>5, <1>6, <1>7 DEF Step

----------------------------------------------------------------------------
(* The invariant, one conjunct at a time.                                    *)

(* Files under way stay apart: a new one has a number no other has, and none *)
(* is removed, because no compaction reads it.                               *)
LEMMA WriteStep ==
  ASSUME SharedInv, NEW p \in Processes, Step(p)
  PROVE  WritesOwnFile'
<1> USE DEF disk, memory, history, Files, Numbers, To, Set
<1>1. TypeOK /\ WritesOwnFile /\ SourcesAreCopied
  BY DEF SharedInv
<1>2. ASSUME NEW q \in Processes, pc[q] = "write", q # p
      PROVE  \E f \in Files' : sources[q] = {f} /\ ~segments'[f].whole
  <2>1. PICK f \in Files : sources[q] = {f} /\ ~segments[f].whole
    BY <1>1, <1>2 DEF WritesOwnFile
  <2>2. f \in Files'
    BY <1>1, <2>1, FilesStep DEF SourcesAreCopied
  <2>3. segments'[f] = segments[f]
    <3>1. CASE FinishSegment(p)
      <4>1. PICK g \in Files : sources[p] = {g} /\ g # f
        BY <1>1, <1>2, <2>1, <3>1 DEF FinishSegment, WritesOwnFile
      <4>2. QED
        BY <2>1, <3>1, <4>1 DEF FinishSegment, WithFile
    <3>2. CASE CreateSegment(p) \/ WriteMerged(p)
      BY <1>1, <2>1, <3>2 DEF CreateSegment, WriteMerged, WithFile, TypeOK
    <3>3. CASE RemoveSource(p)
      BY <2>1, <2>2, <3>3 DEF RemoveSource, Restrict
    <3>4. CASE segments' = segments
      BY <3>4
    <3>5. QED
      BY <3>1, <3>2, <3>3, <3>4
      DEF Step, Start, LoadSegment, Left, Replay, Stop, Query, vars, FlushCalled,
          CompactCalled, Add, TruncateLog, ListSegments, ReadSource, MergeFails
  <2>4. QED
    BY <2>1, <2>2, <2>3
<1>3. \A q \in Processes \ {p} : pc'[q] = pc[q] /\ sources'[q] = sources[q]
  BY <1>1, OthersKeep
<1>4. CASE CreateSegment(p)
  <2>1. /\ sources' = [sources EXCEPT ![p] = {created + 1}] /\ pc'[p] = "write"
        /\ created + 1 \in Files' /\ ~segments'[created + 1].whole
    BY <1>1, <1>4 DEF CreateSegment, WithFile, TypeOK
  <2>2. \A q \in Processes \ {p} : created + 1 \notin sources[q]
    BY <1>1 DEF TypeOK
  <2>3. QED
    BY <1>1, <1>2, <1>3, <2>1, <2>2 DEF WritesOwnFile, TypeOK
<1>5. CASE pc'[p] # "write"
  BY <1>1, <1>2, <1>3, <1>5 DEF WritesOwnFile
<1>6. CASE Query(p)
  BY <1>1, <1>6 DEF Query, vars, WritesOwnFile
<1>7. QED
  BY <1>1, <1>4, <1>5, <1>6
  DEF TypeOK, Step, Start, LoadSegment, Take, Left, Replay, Stop,
      FlushCalled, CompactCalled, Add, FinishSegment, TruncateLog,
      ListSegments, ReadSource, MergeFails, WriteMerged, RemoveSource, Done

(* A compaction's sources, once read, change no more; what it passed over    *)
(* stays gone.                                                               *)
LEMMA ReadStep ==
  ASSUME SharedInv, NEW p \in Processes, Step(p)
  PROVE  SourcesAreRead'
<1> USE DEF disk, memory, history, Files, To, Set
<1>1. TypeOK /\ SourcesAreRead
  BY DEF SharedInv
<1> SUFFICES ASSUME NEW q \in Processes, pc'[q] = "merge",
                    NEW f \in (sources'[q] \ listed'[q]) \cap Files'
             PROVE  segments'[f].whole /\ segments'[f].docs \subseteq read'[q]
  BY DEF SourcesAreRead
<1>2. CASE /\ pc[q] = "merge" /\ sources'[q] = sources[q] /\ listed'[q] = listed[q]
           /\ read'[q] = read[q]
  <2>1. f \in Files
    BY <1>1, <1>2, FilesStep DEF TypeOK
  <2>2. QED
    BY <1>1, <1>2, <2>1, FilesStep DEF SourcesAreRead
<1>3. CASE q = p /\ ListSegments(p)
  BY <1>1, <1>3 DEF ListSegments, Done, TypeOK
<1>4. CASE q = p /\ ReadSource(p)
  <2>1. PICK g \in listed[p] :
          \/ (g \in Files => segments[g].whole) /\ Take(p, g)
             /\ UNCHANGED <<disk, pc, job, buffered, sources, history>>
          \/ MergeFails(p)
    BY <1>4 DEF ReadSource
  <2>2. CASE MergeFails(p)
    BY <1>1, <1>4, <2>2 DEF MergeFails, Done, TypeOK
  <2>3. CASE (g \in Files => segments[g].whole) /\ Take(p, g)
             /\ UNCHANGED <<disk, pc, job, buffered, sources, history>>
    <3>1. /\ segments' = segments /\ sources'[p] = sources[p] /\ pc[p] = "merge"
          /\ listed'[p] = listed[p] \ {g}
          /\ read'[p] = read[p] \cup IF g \in Files THEN segments[g].docs ELSE {}
      BY <1>1, <1>4, <2>3 DEF Take, TypeOK
    <3>2. CASE f = g
      BY <1>4, <2>3, <3>1, <3>2
    <3>3. CASE f # g
      BY <1>1, <1>4, <3>1, <3>3 DEF SourcesAreRead
    <3>4. QED
      BY <3>2, <3>3
  <2>4. QED
    BY <2>1, <2>2, <2>3
<1>5. CASE q # p
  BY <1>1, <1>2, <1>5, OthersKeep
<1>6. CASE q = p /\ ~ListSegments(p) /\ ~ReadSource(p)
  <2>1. pc'[p] # "merge"
    BY <1>1, <1>6 DEF TypeOK, Step, Start, LoadSegment, Left, Replay, Stop, Query, vars,
        FlushCalled, CompactCalled, Add, CreateSegment, FinishSegment, TruncateLog,
        WriteMerged, RemoveSource, Done
  <2>2. QED
    BY <1>6, <2>1
<1>7. QED
  BY <1>3, <1>4, <1>5, <1>6

(* Before its sources go, a compaction has written a file with all they      *)
(* have; if another compaction removes that one, there is a newer one again. *)
LEMMA CopiedStep ==
  ASSUME SharedInv, NEW p \in Processes, Step(p)
  PROVE  SourcesAreCopied'
<1> USE DEF disk, memory, history, Files, To, Set
<1>1. TypeOK /\ SourcesAreRead /\ SourcesAreCopied
  BY DEF SharedInv
<1> SUFFICES ASSUME NEW q \in Processes, pc'[q] = "remove",
                    NEW f \in sources'[q] \cap Files'
             PROVE  /\ segments'[f].whole
                    /\ \A id \in segments'[f].docs : \E g \in Files' : g > f /\ Has(g, id)'
  BY DEF SourcesAreCopied
<1>2. CASE pc[q] = "remove" /\ f \in sources[q]
  <2>1. f \in Files /\ f \in Nat
    BY <1>1, <1>2, FilesStep DEF TypeOK, Numbers
  <2>2. segments[f].whole /\ segments'[f] = segments[f]
    BY <1>1, <1>2, <2>1, FilesStep DEF SourcesAreCopied
  <2>3. ASSUME NEW id \in segments[f].docs PROVE \E g \in Files' : g > f /\ Has(g, id)'
    <3>1. PICK g \in Files : g > f /\ Has(g, id)
      BY <1>1, <1>2, <2>1 DEF SourcesAreCopied
    <3>2. PICK h \in Files' : h >= g /\ Has(h, id)'
      BY <3>1, CopyStays
    <3>3. g \in Nat /\ h \in Nat
      BY <1>1, <3>1, <3>2, StepType DEF TypeOK, Numbers
    <3>4. QED
      BY <2>1, <3>1, <3>2, <3>3
  <2>4. QED
    BY <2>2, <2>3
<1>3. CASE q = p /\ WriteMerged(p)
  <2>1. /\ pc[p] = "merge" /\ sources'[p] = sources[p] /\ listed[p] = {}
        /\ segments' = WithFile(created + 1, read[p], TRUE)
    BY <1>3 DEF WriteMerged
  <2>2. PICK n \in Nat : n = created + 1
    BY <1>1 DEF TypeOK
  <2>3. f \in Files /\ f < n
    <3>1. f \in Numbers /\ f \in Files'
      BY <1>1, <1>3, <2>1 DEF TypeOK
    <3>2. f \in Files
      BY <3>1, FilesStep
    <3>3. QED
      BY <1>1, <2>2, <3>1, <3>2 DEF TypeOK, Numbers
  <2>4. /\ segments'[f] = segments[f]
        /\ n \in Files' /\ segments'[n] = [docs |-> read[p], whole |-> TRUE]
    BY <1>1, <2>1, <2>2, <2>3 DEF WithFile, TypeOK, Numbers
  <2>5. segments[f].whole /\ segments[f].docs \subseteq read[p]
    BY <1>1, <1>3, <2>1, <2>3 DEF SourcesAreRead
  <2>6. n > f /\ \A id \in segments[f].docs : Has(n, id)'
    BY <1>1, <2>3, <2>4, <2>5 DEF Has, TypeOK, Numbers
  <2>7. QED
    BY <2>4, <2>5, <2>6
<1>4. CASE q = p /\ RemoveSource(p)
  <2>1. pc[p] = "remove" /\ sources'[p] \subseteq sources[p]
    BY <1>1, <1>4 DEF RemoveSource, TypeOK
  <2>2. QED
    BY <1>2, <1>4, <2>1
<1>5. CASE q # p
  BY <1>1, <1>2, <1>5, OthersKeep
<1>6. CASE q = p /\ ~WriteMerged(p) /\ ~RemoveSource(p)
  <2>1. pc'[p] # "remove"
    BY <1>1, <1>6 DEF TypeOK, Step, Start, LoadSegment, Left, Replay, Stop, Query, vars,
        FlushCalled, CompactCalled, Add, CreateSegment, FinishSegment, TruncateLog,
        ListSegments, ReadSource, MergeFails, Done
  <2>2. QED
    BY <1>6, <2>1
<1>7. QED
  BY <1>3, <1>4, <1>5, <1>6

(* What a process that is opening has still to read keeps its documents, or  *)
(* it is gone when the process comes to it.                                  *)
LEMMA FoundStep ==
  ASSUME SharedInv, NEW p \in Processes, Step(p)
  PROVE  FoundIsReadOrListed'
<1> USE DEF disk, memory, history, Files, To, Set
<1>1. TypeOK /\ FoundIsReadOrListed
  BY DEF SharedInv
<1> SUFFICES ASSUME NEW q \in Processes, pc'[q] = "open", NEW id \in found'[q] \ read'[q]
             PROVE  \E f \in listed'[q] : f \in Files' => Has(f, id)'
  BY DEF FoundIsReadOrListed
<1>2. ASSUME NEW f \in Numbers, f \in Files => Has(f, id)
      PROVE  f \in Files' => Has(f, id)'
  BY <1>2, FilesStep DEF Has
<1>3. CASE q # p
  <2>1. /\ pc[q] = "open" /\ id \in found[q] \ read[q] /\ listed'[q] = listed[q]
    BY <1>1, <1>3, OthersKeep
  <2>2. PICK f \in listed[q] : f \in Files => Has(f, id)
    BY <1>1, <2>1 DEF FoundIsReadOrListed
  <2>3. QED
    BY <1>1, <1>2, <2>1, <2>2 DEF TypeOK
<1>4. CASE q = p /\ Start(p)
  <2>1. listed'[p] = Files /\ id \in Held /\ Files \subseteq Numbers
    BY <1>1, <1>4 DEF Start, TypeOK
  <2>2. PICK f \in Files : Has(f, id)
    BY <2>1 DEF Held, Has
  <2>3. QED
    BY <1>2, <1>4, <2>1, <2>2
<1>5. CASE q = p /\ LoadSegment(p)
  <2>1. PICK g \in listed[p] :
          IF g \in Files /\ segments[g].whole
            THEN Take(p, g) /\ UNCHANGED <<disk, pc, job, buffered, sources, history>>
            ELSE Left(p)
    BY <1>5 DEF LoadSegment
  <2>2. g \in Files /\ Take(p, g) /\ UNCHANGED <<disk, pc, job, buffered, sources, history>>
    BY <1>1, <1>5, <2>1 DEF Left, TypeOK
  <2>3. /\ pc[p] = "open" /\ id \in found[p] \ read[p] /\ id \notin segments[g].docs
        /\ listed'[p] = listed[p] \ {g} /\ segments' = segments
    BY <1>1, <1>5, <2>2 DEF Take, TypeOK, LoadSegment
  <2>4. PICK f \in listed[p] : f \in Files => Has(f, id)
    BY <1>1, <2>3 DEF FoundIsReadOrListed
  <2>5. f # g
    BY <2>2, <2>3, <2>4 DEF Has
  <2>6. QED
    BY <1>1, <1>2, <1>5, <2>3, <2>4, <2>5 DEF TypeOK
<1>6. CASE q = p /\ ~Start(p) /\ ~LoadSegment(p)
  <2>1. pc'[p] # "open"
    BY <1>1, <1>6 DEF TypeOK, Step, Left, Replay, Stop, Query, vars, FlushCalled,
        CompactCalled, Add, CreateSegment, FinishSegment, TruncateLog, ListSegments,
        ReadSource, MergeFails, WriteMerged, RemoveSource, Done
  <2>2. QED
    BY <1>6, <2>1
<1>7. QED
  BY <1>3, <1>4, <1>5, <1>6

(* What a process has acknowledged leaves its buffer only for a segment.     *)
LEMMA TakenStep ==
  ASSUME SharedInv, NEW p \in Processes, Step(p)
  PROVE  NothingTakenYet' /\ AcknowledgedStays'
<1> USE DEF disk, memory, history, To, Set
<1>1. TypeOK /\ WritesOwnFile /\ NothingTakenYet /\ AcknowledgedStays
  BY DEF SharedInv
<1>2. Held \subseteq Held'
  <2>1. SUFFICES ASSUME NEW id \in Held PROVE id \in Held'
    OBVIOUS
  <2>2. PICK f \in Files : Has(f, id)
    BY <2>1 DEF Held, Has
  <2>3. PICK g \in Files' : Has(g, id)'
    BY <2>2, CopyStays
  <2>4. QED
    BY <2>3 DEF Held, Has
<1> SUFFICES ASSUME NEW q \in Processes
             PROVE  /\ pc'[q] \in {"out", "open"} => taken'[q] = {}
                    /\ taken'[q] \subseteq buffered'[q] \cup Held'
  BY DEF NothingTakenYet, AcknowledgedStays
<1>3. CASE q # p
  BY <1>1, <1>2, <1>3, OthersKeep DEF NothingTakenYet, AcknowledgedStays
<1>4. ASSUME NEW id \in Ids, Add(p, id), q = p
      PROVE  /\ pc'[q] \in {"out", "open"} => taken'[q] = {}
             /\ taken'[q] \subseteq buffered'[q] \cup Held'
  BY <1>1, <1>2, <1>4 DEF Add, AcknowledgedStays, TypeOK
<1>5. CASE q = p /\ FinishSegment(p)
  <2>1. PICK f \in Files : sources[p] = {f}
    BY <1>1, <1>5 DEF FinishSegment, WritesOwnFile
  <2>2. segments' = WithFile(f, buffered[p], TRUE) /\ taken'[p] = taken[p] /\ pc'[p] = "truncate"
    BY <1>1, <1>5, <2>1 DEF FinishSegment, TypeOK
  <2>3. buffered[p] \subseteq Held'
    BY <2>1, <2>2 DEF Held, WithFile, Files
  <2>4. QED
    BY <1>1, <1>2, <1>5, <2>2, <2>3 DEF AcknowledgedStays
<1>6. CASE q = p /\ (Start(p) \/ LoadSegment(p) \/ Replay(p) \/ Stop(p))
  <2>1. CASE Left(p)
    BY <1>1, <1>6, <2>1 DEF Left, TypeOK
  <2>2. CASE taken' = taken /\ pc[p] \in {"out", "open"}
    BY <1>1, <1>6, <2>2 DEF NothingTakenYet
  <2>3. QED
    BY <1>6, <2>1, <2>2 DEF Start, LoadSegment, Replay, Stop
<1>7. ASSUME q = p, taken' = taken, buffered' = buffered, pc'[p] \notin {"out", "open"}
      PROVE  /\ pc'[q] \in {"out", "open"} => taken'[q] = {}
             /\ taken'[q] \subseteq buffered'[q] \cup Held'
  BY <1>1, <1>2, <1>7 DEF AcknowledgedStays
<1>8. CASE q = p /\ (Query(p) \/ FlushCalled(p) \/ CompactCalled(p)
                      \/ CreateSegment(p) \/ TruncateLog(p))
  BY <1>1, <1>7, <1>8 DEF Query, vars, FlushCalled, CompactCalled, CreateSegment,
      TruncateLog, TypeOK
<1>9. CASE q = p /\ (ListSegments(p) \/ WriteMerged(p) \/ RemoveSource(p))
  BY <1>1, <1>7, <1>9 DEF ListSegments, WriteMerged, RemoveSource, Done, TypeOK
<1>10. CASE q = p /\ ReadSource(p)
  BY <1>1, <1>7, <1>10 DEF ReadSource, Take, MergeFails, Done, TypeOK
<1>11. QED
  BY <1>3, <1>4, <1>5, <1>6, <1>8, <1>9, <1>10 DEF Step

----------------------------------------------------------------------------
(* Every step of every process keeps the invariant.                          *)
LEMMA NextInv == SharedInv /\ [Next]_vars => SharedInv'
<1> SUFFICES ASSUME SharedInv, [Next]_vars PROVE SharedInv'
  OBVIOUS
<1>1. CASE Next
  <2>1. PICK p \in Processes : Step(p)
    BY <1>1 DEF Next
  <2>2. TypeOK'
    BY <2>1, StepType DEF SharedInv
  <2>3. QED
    BY <2>1, <2>2, WriteStep, ReadStep, CopiedStep, FoundStep, TakenStep DEF SharedInv
<1>2. CASE UNCHANGED vars
  BY <1>2 DEF vars, disk, memory, history, SharedInv, TypeOK, WritesOwnFile, SourcesAreRead,
      SourcesAreCopied, FoundIsReadOrListed, NothingTakenYet, AcknowledgedStays, Has, Held,
      Files, Numbers
<1>3. QED
  BY <1>1, <1>2

(* SharedInv: the inductive invariant holds however the processes are        *)
(* interleaved, started, ended and killed.                                   *)
THEOREM SharedInvariance == Spec => []SharedInv
BY InitInv, NextInv, PTL DEF Spec

(* AcknowledgedStays: for any number of processes on one directory, what a   *)
(* living process has acknowledged is in its buffer or in a segment that can *)
(* be read, though no lock keeps others from its log and its segments.       *)
THEOREM AcknowledgedIsKept == Spec => []AcknowledgedStays
<1>1. SharedInv => AcknowledgedStays
  BY DEF SharedInv
<1>2. QED
  BY <1>1, SharedInvariance, PTL

(* FlushedStays: no compaction, of one process or of several that remove     *)
(* each other's files, takes from the segments a document they held.         *)
THEOREM FlushedIsKept == Spec => FlushedStays
<1>1. SharedInv /\ [Next]_vars => [Held \subseteq Held']_vars
  <2> SUFFICES ASSUME SharedInv, Next, NEW id \in Held PROVE id \in Held'
    OBVIOUS
  <2>1. PICK p \in Processes : Step(p)
    BY DEF Next
  <2>2. PICK f \in Files : Has(f, id)
    BY DEF Held, Has
  <2>3. PICK g \in Files' : Has(g, id)'
    BY <2>1, <2>2, CopyStays
  <2>4. QED
    BY <2>3 DEF Held, Has
<1>2. QED
  BY <1>1, SharedInvariance, PTL DEF Spec, FlushedStays

(* OpenSeesFlushed: opening beside other processes fails, or it loads every  *)
(* document that a segment held when it began.                               *)
THEOREM OpenLoadsFlushed == Spec => OpenSeesFlushed
<1>1. SharedInv /\ [Next]_vars =>
        [\A p \in Processes : pc[p] = "open" /\ pc'[p] = "idle" =>
           found[p] \subseteq read[p] \cup log]_vars
  <2> SUFFICES ASSUME SharedInv, Next, NEW p \in Processes, pc[p] = "open", pc'[p] = "idle"
               PROVE  found[p] \subseteq read[p]
    BY DEF vars
  <2>1. PICK q \in Processes : Step(q)
    BY DEF Next
  <2>2. TypeOK /\ FoundIsReadOrListed
    BY DEF SharedInv
  <2>3. q = p
    BY <2>1, <2>2, OthersKeep
  <2>4. listed[p] = {}
    BY <2>1, <2>2, <2>3
    DEF TypeOK, Step, Start, LoadSegment, Left, To, Replay, Stop, Query, vars, FlushCalled,
        CompactCalled, Add, CreateSegment, FinishSegment, TruncateLog, ListSegments,
        ReadSource, WriteMerged, RemoveSource
  <2>5. QED
    BY <2>2, <2>4 DEF FoundIsReadOrListed
<1>2. QED
  BY <1>1, SharedInvariance, PTL DEF Spec, OpenSeesFlushed
=============================================================================
