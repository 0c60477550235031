------------------------- MODULE SearchEngineProofs --------------------------
(* Theorems about SearchEngine, for every value of its constants.            *)
EXTENDS SearchEngineInvariant, Induction, FiniteSetTheorems, SequenceTheorems, TLAPS

----------------------------------------------------------------------------
(* A nonempty set of indices has a greatest element, and Max is it.          *)
LEMMA MaxOfIndices ==
  ASSUME NEW n \in Nat, NEW S \in SUBSET (1..n), S # {}
  PROVE  Max(S) \in S /\ \A k \in S : k <= Max(S)
<1> DEFINE T == {n - k : k \in S}
<1>1. T \subseteq Nat /\ T # {}
  <2>1. \A k \in S : n - k \in Nat
    OBVIOUS
  <2>2. PICK k \in S : TRUE
    OBVIOUS
  <2>3. n - k \in T
    BY <2>2
  <2>4. QED
    BY <2>1, <2>3
<1>2. PICK m \in T : \A k \in T : m <= k
  <2> HIDE DEF T
  <2>1. QED
    BY <1>1, LeastNumber
<1>3. PICK k \in S : m = n - k
  OBVIOUS
<1>4. \A j \in S : j <= k
  <2>1. \A j \in S : n - j \in T
    OBVIOUS
  <2>2. QED
    BY <1>2, <1>3, <2>1
<1>5. QED
  BY <1>4 DEF Max

(* An order in which a directory is read lists every file of it.             *)
LEMMA OrderIsOnto ==
  ASSUME NEW S, IsFiniteSet(S), NEW order \in SetToSeqs(S)
  PROVE  /\ order \in Seq(S)
         /\ DOMAIN order = 1..Cardinality(S)
         /\ \A x \in S : \E k \in DOMAIN order : order[k] = x
<1> DEFINE D == 1..Cardinality(S)
<1>1. Cardinality(S) \in Nat
  BY FS_CardinalityType
<1>2. order \in [D -> S] /\ \A i, j \in D : i # j => order[i] # order[j]
  BY DEF SetToSeqs
<1>3. order \in Injection(D, S)
  BY <1>2 DEF Injection, IsInjective
<1>4. IsFiniteSet(D) /\ Cardinality(D) = Cardinality(S)
  BY <1>1, FS_Interval
<1>5. order \in Surjection(D, S)
  <2>1. Range(order) \subseteq S /\ order \in Surjection(D, Range(order))
    BY <1>2 DEF Range, Surjection
  <2>2. order \in Injection(D, Range(order))
    BY <1>2, <1>3 DEF Range, Injection, IsInjective
  <2>3. Cardinality(Range(order)) = Cardinality(D)
    BY <1>4, <2>1, <2>2, FS_Surjection
  <2>4. Range(order) = S
    BY <1>4, <2>1, <2>3, FS_Subset
  <2>5. QED
    BY <2>1, <2>4
<1>6. QED
  BY <1>1, <1>2, <1>5 DEF Surjection

(* What a change, a replay and a merge produce are document maps.            *)
LEMMA EffectType ==
  ASSUME NEW map \in Map, NEW r \in Mutations
  PROVE  Effect(map, r) \in Map
BY DEF Map, Mutations, Adds, Deletes, Effect

(* The records of a log for one id: a finite set of positions of the log,    *)
(* the greatest of which holds a record for that id.                         *)
LEMMA MentionsIndices ==
  ASSUME NEW log \in Seq(Records), NEW id
  PROVE  /\ Mentions(log, id) \subseteq 1..Len(log) /\ Len(log) \in Nat
         /\ Mentions(log, id) # {} =>
              /\ Max(Mentions(log, id)) \in Mentions(log, id)
              /\ \A k \in Mentions(log, id) : k <= Max(Mentions(log, id))
              /\ log[Max(Mentions(log, id))] \in Records
              /\ log[Max(Mentions(log, id))].id = id
<1>1. DOMAIN log = 1..Len(log) /\ Len(log) \in Nat
  BY LenProperties
<1>2. Mentions(log, id) \subseteq 1..Len(log)
  BY <1>1 DEF Mentions
<1>3. Mentions(log, id) # {} =>
        /\ Max(Mentions(log, id)) \in Mentions(log, id)
        /\ \A k \in Mentions(log, id) : k <= Max(Mentions(log, id))
  BY <1>1, <1>2, MaxOfIndices
<1>4. \A k \in Mentions(log, id) : log[k] \in Records /\ log[k].id = id
  BY <1>1, <1>2, ElementOfSeq DEF Mentions
<1>5. QED
  BY <1>1, <1>2, <1>3, <1>4

(* Replaying a log of this engine over a document map gives a document map.  *)
LEMMA ReplayType ==
  ASSUME NEW map \in Map, NEW log \in Seq(Records)
  PROVE  Replay(map, log) \in Map
<1>1. \A id \in Ids : Mentions(log, id) # {} =>
        log[Max(Mentions(log, id))].doc \in Docs \cup {NoDoc}
  BY MentionsIndices DEF Records, Adds, Deletes
<1>2. QED
  BY <1>1 DEF Map, Replay

(* The additions of a log are counted by a natural number.                   *)
LEMMA AddsInType ==
  ASSUME NEW log \in Seq(Records)
  PROVE  AddsIn(log) \in Nat
<1>1. IsFiniteSet(DOMAIN log)
  BY LenProperties, FS_Interval
<1>2. QED
  BY <1>1, FS_Subset, FS_CardinalityType DEF AddsIn

(* The files of an order that hold an id: a finite set of its positions.     *)
LEMMA HoldersIndices ==
  ASSUME IsFiniteSet(Files), NEW order \in SetToSeqs(Files), NEW id,
         Holders(order, id) # {}
  PROVE  /\ order[Max(Holders(order, id))] \in Files
         /\ segments[order[Max(Holders(order, id))]].docs[id] # NoDoc
<1>1. /\ order \in Seq(Files) /\ Cardinality(Files) \in Nat
      /\ Holders(order, id) \subseteq 1..Cardinality(Files)
      /\ DOMAIN order = 1..Cardinality(Files)
  BY OrderIsOnto, FS_CardinalityType DEF Holders
<1>2. Max(Holders(order, id)) \in Holders(order, id)
  BY <1>1, MaxOfIndices
<1>3. QED
  BY <1>1, <1>2, LenProperties DEF Holders

(* Merging the files in any order gives a document map.                      *)
LEMMA MergeType ==
  ASSUME IsFiniteSet(Files), segments \in [Files -> Contents],
         NEW order \in SetToSeqs(Files)
  PROVE  MergeAll(order) \in Map
<1>1. \A id \in Ids : Holders(order, id) # {} =>
        segments[order[Max(Holders(order, id))]].docs[id] \in Docs \cup {NoDoc}
  BY HoldersIndices DEF Contents, Map
<1>2. QED
  BY <1>1 DEF Map, MergeAll

(* A merge holds exactly the ids its sources hold.                           *)
LEMMA MergeHolds ==
  ASSUME IsFiniteSet(Files), NEW order \in SetToSeqs(Files), NEW id \in Ids
  PROVE  MergeAll(order)[id] # NoDoc <=>
           \E f \in Files : segments[f].docs[id] # NoDoc
<1>1. Holders(order, id) # {} <=> \E f \in Files : segments[f].docs[id] # NoDoc
  BY OrderIsOnto, LenProperties DEF Holders
<1>2. Holders(order, id) # {} => MergeAll(order)[id] # NoDoc
  BY HoldersIndices DEF MergeAll
<1>3. QED
  BY <1>1, <1>2 DEF MergeAll

----------------------------------------------------------------------------
(* Every variable keeps its type, whatever fails and wherever the process    *)
(* is killed.                                                                *)
LEMMA InitType == Init => TypeOK
BY EmptySeq, FS_EmptySet, NoDocAssumption DEF Init, TypeOK, Map, Empty, Files, Requests, NoRequest

(* No action, of a client, of an operation under way or of a failure, gives  *)
(* a variable a value outside its type.                                      *)
LEMMA NextType == TypeOK /\ [Next]_vars => TypeOK'
<1> SUFFICES ASSUME TypeOK, [Next]_vars PROVE TypeOK'
  OBVIOUS
<1> USE DEF disk, memory, stage, Files
<1>1. NoRequest \in Requests /\ NoName \in Names \cup {NoName} /\ <<>> \in Seq(Names)
      /\ Empty \in Map /\ Torn \in Contents
  BY EmptySeq DEF Requests, NoRequest, Map, Empty, Contents, Torn
<1>2. ASSUME NEW r \in Records, AppendJson(r) PROVE TypeOK'
  <2>1. Append(wal, r) \in Seq(Records) /\ r \in Requests
    BY <1>2, AppendProperties DEF TypeOK, Records, Requests
  <2>2. QED
    BY <1>2, <2>1 DEF AppendJson, AppendedTail, Call, TypeOK
<1>3. ASSUME NEW r \in Records, AppendFails(r) PROVE TypeOK'
  BY <1>3 DEF AppendFails, Call, Fault, TypeOK, Records, Requests
<1>4. CASE AppendNewline
  BY <1>4 DEF AppendNewline, TypeOK
<1>5. CASE NewlineFails
  BY <1>5 DEF NewlineFails, Fault, TypeOK
<1>6. CASE ApplyAdd
  <2>1. req \in Mutations /\ [op |-> "flush"] \in Requests
    BY <1>6 DEF ApplyAdd, TypeOK, Requests, Mutations, Adds, Deletes
  <2>2. index' \in Map /\ buffered_index' \in Map
    BY <1>6, <2>1, EffectType DEF ApplyAdd, TypeOK
  <2>3. /\ req' \in Requests /\ out' \in Names \cup {NoName} /\ sources' \in Seq(Names)
        /\ pc' \in {"idle", "flush"}
    BY <1>1, <1>6, <2>1 DEF ApplyAdd, Return, TypeOK
  <2>4. unflushed_docs' \in Nat
    BY <1>6 DEF ApplyAdd, TypeOK
  <2>5. QED
    BY <1>6, <2>2, <2>3, <2>4 DEF ApplyAdd, TypeOK
<1>7. CASE ApplyDelete
  <2>1. req \in Mutations
    BY <1>7 DEF ApplyDelete, TypeOK, Requests, Mutations, Adds, Deletes
  <2>2. index' \in Map /\ buffered_index' \in Map
    BY <1>7, <2>1, EffectType DEF ApplyDelete, TypeOK
  <2>3. QED
    BY <1>1, <1>7, <2>2 DEF ApplyDelete, Return, TypeOK
<1>8. CASE FlushCalled
  BY <1>8 DEF FlushCalled, Call, TypeOK, Requests
<1>9. CASE CompactCalled
  BY <1>9 DEF CompactCalled, Call, TypeOK, Requests
<1>10. CASE CreateSegment
  <2>1. out' \in Names
    BY <1>10 DEF CreateSegment, FlushName, Names, TypeOK
  <2>2. /\ segments' \in [DOMAIN segments' -> Contents]
        /\ DOMAIN segments' = DOMAIN segments \cup {out'}
    BY <1>1, <1>10 DEF CreateSegment, TypeOK, WithFile
  <2>3. IsFiniteSet(DOMAIN segments')
    BY <2>2, FS_AddElement DEF TypeOK
  <2>4. QED
    BY <1>10, <2>1, <2>2, <2>3 DEF CreateSegment, TypeOK
<1>11. CASE FinishSegment
  <2>1. segments' \in [DOMAIN segments -> Contents]
    BY <1>11 DEF FinishSegment, TypeOK, Whole, Contents
  <2>2. QED
    BY <1>1, <1>11, <2>1 DEF FinishSegment, TypeOK
<1>12. CASE SegmentFails
  BY <1>1, <1>12 DEF SegmentFails, Fault, Return, TypeOK
<1>13. CASE TruncateLog
  BY <1>1, <1>13, EmptySeq DEF TruncateLog, Return, TypeOK
<1>14. CASE TruncateFails
  BY <1>1, <1>14 DEF TruncateFails, Fault, Return, TypeOK
<1>15. CASE NothingToMerge
  BY <1>1, <1>15 DEF NothingToMerge, Return, TypeOK
<1>16. CASE MergeFails
  BY <1>1, <1>16 DEF MergeFails, Return, TypeOK
<1>17. CASE MergeSegments
  <2>1. out' \in Names
    BY <1>17 DEF MergeSegments, CompactedName, Names, TypeOK
  <2>2. PICK order \in SetToSeqs(DOMAIN segments) :
          /\ segments' = WithFile(out', Whole(MergeAll(order)))
          /\ sources' = order
    BY <1>17 DEF MergeSegments
  <2>3. Whole(MergeAll(order)) \in Contents
    BY MergeType DEF TypeOK, Whole, Contents
  <2>4. order \in Seq(Names)
    <3>1. order \in Seq(DOMAIN segments)
      BY OrderIsOnto DEF TypeOK
    <3>2. QED
      BY <3>1 DEF TypeOK
  <2>5. /\ segments' \in [DOMAIN segments' -> Contents]
        /\ DOMAIN segments' = DOMAIN segments \cup {out'}
    BY <2>2, <2>3 DEF TypeOK, WithFile
  <2>6. IsFiniteSet(DOMAIN segments')
    BY <2>5, FS_AddElement DEF TypeOK
  <2>7. QED
    BY <1>17, <2>1, <2>2, <2>4, <2>5, <2>6 DEF MergeSegments, TypeOK
<1>18. CASE RemoveSource
  <2>1. Tail(sources) \in Seq(Names)
    BY <1>18, HeadTailProperties DEF RemoveSource, TypeOK
  <2>2. /\ DOMAIN segments' \subseteq DOMAIN segments
        /\ segments' \in [DOMAIN segments' -> Contents]
    BY <1>18 DEF RemoveSource, Restrict, TypeOK
  <2>3. IsFiniteSet(DOMAIN segments')
    BY <2>2, FS_Subset DEF TypeOK
  <2>4. QED
    BY <1>18, <2>1, <2>2, <2>3 DEF RemoveSource, TypeOK
<1>19. CASE RemoveFails
  BY <1>19, HeadTailProperties DEF RemoveFails, Fault, TypeOK
<1>20. CASE CompactDone
  BY <1>1, <1>20 DEF CompactDone, Return, TypeOK
<1>21. CASE Crash
  <2>1. wal' \in Seq(Records)
    <3>1. CASE wal' = wal
      BY <3>1 DEF TypeOK
    <3>2. CASE pc = "json" /\ wal' = Front(wal)
      <4>1. Len(wal) \in Nat /\ \A k \in 1..Len(wal)-1 : wal[k] \in Records
        BY LenProperties DEF TypeOK
      <4>2. QED
        BY <3>2, <4>1, SubSeqProperties DEF Front
    <3>3. QED
      BY <1>21, <3>1, <3>2 DEF Crash
  <2>2. QED
    BY <1>1, <1>21, <2>1 DEF Crash, TypeOK
<1>22. CASE Open
  <2>1. PICK order \in SetToSeqs(DOMAIN segments) : index' = Recovered(order)
    BY <1>22 DEF Open
  <2>2. index' \in Map /\ buffered_index' \in Map
    BY <1>1, <1>22, <2>1, MergeType, ReplayType DEF Open, Recovered, TypeOK
  <2>3. unflushed_docs' \in Nat /\ segment_count' \in Nat
    BY <1>22, AddsInType, FS_CardinalityType DEF Open, TypeOK
  <2>4. QED
    BY <1>1, <1>22, <2>2, <2>3 DEF Open, Return, TypeOK
<1>23. CASE Tick
  BY <1>23 DEF Tick, TypeOK
<1>24. CASE UNCHANGED vars
  BY <1>24 DEF vars, TypeOK
<1>25. QED
  BY <1>2, <1>3, <1>4, <1>5, <1>6, <1>7, <1>8, <1>9, <1>10, <1>11, <1>12, <1>13,
     <1>14, <1>15, <1>16, <1>17, <1>18, <1>19, <1>20, <1>21, <1>22, <1>23, <1>24
  DEF Next, Query, Add, Proceed, Write, Flush, Compact, OpenFails

(* TypeOK: the disk, the memory and the stage of the operation keep their    *)
(* types, unflushed_docs and segment_count stay natural numbers.             *)
THEOREM TypeCorrect == Spec => []TypeOK
BY InitType, NextType, PTL DEF Spec

----------------------------------------------------------------------------
(* Appending a record changes what the log says of its own id only.          *)
LEMMA MentionsAppend ==
  ASSUME NEW log \in Seq(Records), NEW r \in Records
  PROVE  /\ Mentions(Append(log, r), r.id) # {}
         /\ Append(log, r)[Max(Mentions(Append(log, r), r.id))] = r
         /\ \A id : id # r.id => Mentions(Append(log, r), id) = Mentions(log, id)
         /\ \A k \in 1..Len(log) : Append(log, r)[k] = log[k]
         /\ Front(Append(log, r)) = log /\ Last(Append(log, r)) = r
<1> DEFINE new == Append(log, r)
           n == Len(log) + 1
<1>1. /\ new \in Seq(Records) /\ Len(new) = n /\ Len(log) \in Nat
      /\ \A k \in 1..Len(log) : new[k] = log[k]
      /\ new[n] = r
  BY AppendProperties, LenProperties
<1>2. DOMAIN new = 1..n /\ DOMAIN log = 1..Len(log)
  BY <1>1, LenProperties
<1>3. n \in Mentions(new, r.id)
  BY <1>1, <1>2 DEF Mentions
<1>4. Max(Mentions(new, r.id)) = n
  <2>1. /\ Max(Mentions(new, r.id)) \in 1..n
        /\ n <= Max(Mentions(new, r.id))
    BY <1>1, <1>3, MentionsIndices
  <2>2. QED
    BY <1>1, <2>1
<1>5. ASSUME NEW id, id # r.id PROVE Mentions(new, id) = Mentions(log, id)
  BY <1>1, <1>2, <1>5 DEF Mentions
<1>6. Front(new) = log
  <2>1. \A k \in 1..Len(log) : new[k] \in Records
    BY <1>1, ElementOfSeq
  <2>2. /\ SubSeq(new, 1, Len(log)) \in Seq(Records)
        /\ Len(SubSeq(new, 1, Len(log))) = Len(log)
        /\ \A k \in 1..Len(log) : SubSeq(new, 1, Len(log))[k] = new[k]
    BY <1>1, <2>1, SubSeqProperties
  <2>3. SubSeq(new, 1, Len(log)) = log
    BY <1>1, <2>2, SeqEqual
  <2>4. QED
    BY <1>1, <2>3 DEF Front
<1>7. QED
  BY <1>1, <1>3, <1>4, <1>5, <1>6 DEF Last

(* The record that ends a log is the last one for its id.                    *)
LEMMA LastIsMentioned ==
  ASSUME NEW log \in Seq(Records), log # <<>>
  PROVE  /\ Mentions(log, Last(log).id) # {}
         /\ log[Max(Mentions(log, Last(log).id))] = Last(log)
<1>1. Len(log) \in Nat \ {0} /\ DOMAIN log = 1..Len(log)
  BY EmptySeq, LenProperties
<1>2. Len(log) \in Mentions(log, Last(log).id)
  BY <1>1 DEF Mentions, Last
<1>3. Max(Mentions(log, Last(log).id)) = Len(log)
  <2>1. /\ Max(Mentions(log, Last(log).id)) \in 1..Len(log)
        /\ Len(log) <= Max(Mentions(log, Last(log).id))
    BY <1>2, MentionsIndices
  <2>2. QED
    BY <1>1, <2>1
<1>4. QED
  BY <1>2, <1>3 DEF Last

----------------------------------------------------------------------------
(* No step takes the last readable copy of a document from disk.             *)
LEMMA HeldPersists ==
  ASSUME IInv, [Next]_vars
  PROVE  \A id \in Ids : Held(id) => Held(id)'
<1> USE DEF disk, memory, stage, Files
<1> SUFFICES ASSUME NEW id \in Ids, Held(id) PROVE Held(id)'
  OBVIOUS
<1>1. PICK f \in DOMAIN segments : segments[f].whole /\ segments[f].docs[id] # NoDoc
  BY DEF Held
<1>2. ASSUME segments' = segments PROVE Held(id)'
  BY <1>2 DEF Held
<1>3. ASSUME NEW g \in DOMAIN segments', segments'[g].whole,
             segments'[g].docs[id] # NoDoc
      PROVE  Held(id)'
  BY <1>3 DEF Held
<1>4. CASE CreateSegment
  <2>1. /\ DOMAIN segments' = DOMAIN segments \cup {out'}
        /\ \A g \in DOMAIN segments \ {out'} : segments'[g] = segments[g]
    BY <1>4 DEF CreateSegment, IInv, TypeOK, WithFile
  <2>2. CASE f # out'
    BY <1>1, <1>3, <2>1, <2>2
  <2>3. CASE f = out'
    <3>1. f.kind = "flush" /\ f.ts = now /\ f.n = segment_count + 1
      BY <1>4, <2>3 DEF CreateSegment, FlushName
    <3>2. PICK g \in DOMAIN segments : Covers(g, f)
      BY <1>1, <3>1 DEF IInv, TypeOK, NamesUsed
    <3>3. g # out' /\ segments[g].whole /\ segments[g].docs[id] # NoDoc
      BY <1>1, <2>3, <3>1, <3>2 DEF Covers
    <3>4. QED
      BY <1>3, <2>1, <3>2, <3>3
  <2>4. QED
    BY <2>2, <2>3
<1>5. CASE FinishSegment
  <2>1. f # out
    BY <1>1, <1>5 DEF FinishSegment, IInv, WritesNewFile, Torn
  <2>2. QED
    BY <1>1, <1>3, <1>5, <2>1 DEF FinishSegment, IInv, TypeOK
<1>6. CASE MergeSegments
  <2>1. PICK order \in SetToSeqs(DOMAIN segments) :
          segments' = WithFile(out', Whole(MergeAll(order)))
    BY <1>6 DEF MergeSegments
  <2>2. MergeAll(order)[id] # NoDoc
    BY <1>1, MergeHolds DEF IInv, TypeOK
  <2>3. out' \in DOMAIN segments' /\ segments'[out'] = Whole(MergeAll(order))
    BY <2>1 DEF IInv, TypeOK, WithFile
  <2>4. QED
    BY <1>3, <2>2, <2>3 DEF Whole
<1>7. CASE RemoveSource
  <2>1. Covers(out, f) /\ out \in DOMAIN segments
    BY <1>7 DEF RemoveSource, IInv, OutputCovers
  <2>2. out \in DOMAIN segments' /\ segments'[out] = segments[out]
    BY <1>7, <2>1 DEF RemoveSource, Restrict
  <2>3. QED
    BY <1>1, <1>3, <2>1, <2>2 DEF Covers
<1>8. QED
  BY <1>2, <1>4, <1>5, <1>6, <1>7
  DEF Next, Query, Add, Proceed, Write, Flush, Compact, OpenFails, vars,
      AppendJson, AppendFails, AppendNewline, NewlineFails, ApplyAdd, ApplyDelete,
      FlushCalled, CompactCalled, SegmentFails, TruncateLog, TruncateFails,
      NothingToMerge, MergeFails, RemoveFails, CompactDone, Crash, Open, Tick

(* The stages: which request is being served.                                *)
LEMMA StageStep ==
  ASSUME IInv, [Next]_vars
  PROVE  StageOK'
<1> USE DEF disk, memory, stage, StageOK
<1>1. StageOK
  BY DEF IInv
<1>2. CASE Add
  BY <1>1, <1>2 DEF Add, AppendJson, AppendFails, Call, Records, Mutations
<1>3. CASE Write
  BY <1>1, <1>3 DEF Write, AppendNewline, NewlineFails, ApplyAdd, ApplyDelete, Return
<1>4. CASE FlushCalled \/ CompactCalled
  BY <1>1, <1>4 DEF FlushCalled, CompactCalled, Call
<1>5. CASE Flush
  BY <1>1, <1>5 DEF Flush, CreateSegment, FinishSegment, SegmentFails, TruncateLog,
                    TruncateFails, Return
<1>6. CASE Compact
  BY <1>1, <1>6 DEF Compact, NothingToMerge, MergeFails, MergeSegments, RemoveSource,
                    RemoveFails, CompactDone, Return
<1>7. CASE Crash \/ Open \/ Tick
  BY <1>1, <1>7 DEF Crash, Open, Tick, Return
<1>8. CASE UNCHANGED vars
  BY <1>1, <1>8 DEF vars
<1>9. QED
  BY <1>2, <1>3, <1>4, <1>5, <1>6, <1>7, <1>8 DEF Next, Query, Proceed, OpenFails

(* File names: no flush meets a file whose documents are nowhere else.       *)
LEMMA CoversPersists ==
  ASSUME NEW f, NEW g, Covers(g, f), g \in Files', segments'[g] = segments[g],
         segments'[f] = segments[f]
  PROVE  Covers(g, f)'
BY DEF Covers

(* Every step keeps the facts about file names: what the next flush may      *)
(* overwrite, that a segment under way is still empty, and that the output of *)
(* a compaction covers what is left of its sources.                          *)
LEMMA NamesStep ==
  ASSUME IInv, [Next]_vars
  PROVE  NamesUsed' /\ WritesNewFile' /\ OutputCovers'
<1> USE DEF disk, memory, stage, Files
<1>1. TypeOK /\ StageOK /\ NamesUsed /\ WritesNewFile /\ OutputCovers
  BY DEF IInv
<1>2. ASSUME segments' = segments, now' = now, segment_count' = segment_count
      PROVE  NamesUsed'
  BY <1>1, <1>2 DEF NamesUsed, Covers
<1>3. CASE CreateSegment
  <2>1. /\ DOMAIN segments' = DOMAIN segments \cup {out'}
        /\ \A f \in DOMAIN segments \ {out'} : segments'[f] = segments[f]
        /\ segments'[out'] = Torn
        /\ out' = FlushName(now, segment_count + 1)
    BY <1>1, <1>3 DEF CreateSegment, TypeOK, WithFile
  <2>2. ASSUME NEW f \in DOMAIN segments', f.kind = "flush", segments'[f].whole
        PROVE  \/ f.ts < now'
               \/ f.ts = now' /\ f.n <= segment_count'
               \/ \E g \in DOMAIN segments' : Covers(g, f)'
    <3>1. f \in DOMAIN segments /\ f # out' /\ segments[f].whole
      BY <2>1, <2>2 DEF Torn
    <3>2. CASE \E g \in DOMAIN segments : Covers(g, f)
      <4>1. PICK g \in DOMAIN segments : Covers(g, f)
        BY <3>2
      <4>2. g # out'
        BY <2>1, <4>1 DEF Covers, FlushName
      <4>3. QED
        BY <2>1, <3>1, <4>1, <4>2, CoversPersists
    <3>3. QED
      BY <1>1, <1>3, <2>2, <3>1, <3>2 DEF CreateSegment, NamesUsed
  <2>3. QED
    BY <1>3, <2>1, <2>2 DEF CreateSegment, NamesUsed, WritesNewFile, OutputCovers
<1>4. CASE FinishSegment
  <2>1. /\ out = FlushName(now, segment_count + 1) /\ out \in DOMAIN segments
        /\ DOMAIN segments' = DOMAIN segments
        /\ \A f \in DOMAIN segments \ {out} : segments'[f] = segments[f]
        /\ now' = now /\ segment_count' = segment_count + 1
    BY <1>1, <1>4 DEF FinishSegment, WritesNewFile, TypeOK
  <2>2. ASSUME NEW f \in DOMAIN segments', f.kind = "flush", segments'[f].whole
        PROVE  \/ f.ts < now'
               \/ f.ts = now' /\ f.n <= segment_count'
               \/ \E g \in DOMAIN segments' : Covers(g, f)'
    <3>1. CASE f = out
      BY <1>1, <2>1, <3>1 DEF FlushName, TypeOK
    <3>2. CASE f # out /\ \E g \in DOMAIN segments : Covers(g, f)
      <4>1. PICK g \in DOMAIN segments : Covers(g, f)
        BY <3>2
      <4>2. g # out
        BY <2>1, <4>1 DEF Covers, FlushName
      <4>3. QED
        BY <2>1, <2>2, <3>2, <4>1, <4>2, CoversPersists
    <3>3. CASE f # out /\ ~ \E g \in DOMAIN segments : Covers(g, f)
      <4>1. f.ts < now \/ (f.ts = now /\ f.n <= segment_count)
        BY <1>1, <2>1, <2>2, <3>3 DEF NamesUsed
      <4>2. f.n \in Nat /\ segment_count \in Nat
        BY <1>1, <2>1, <2>2 DEF TypeOK, Names
      <4>3. QED
        BY <2>1, <4>1, <4>2
    <3>4. QED
      BY <3>1, <3>2, <3>3
  <2>3. QED
    BY <1>4, <2>2 DEF FinishSegment, NamesUsed, WritesNewFile, OutputCovers
<1>5. CASE MergeSegments
  <2>1. PICK order \in SetToSeqs(DOMAIN segments) :
          segments' = WithFile(out', Whole(MergeAll(order)))
    BY <1>5 DEF MergeSegments
  <2>2. /\ DOMAIN segments' = DOMAIN segments \cup {out'}
        /\ segments'[out'] = Whole(MergeAll(order))
        /\ \A f \in DOMAIN segments \ {out'} : segments'[f] = segments[f]
    BY <1>1, <2>1 DEF TypeOK, WithFile
  <2>3. out'.kind = "compacted"
    BY <1>5 DEF MergeSegments, CompactedName
  <2>4. ASSUME NEW f \in DOMAIN segments' PROVE Covers(out, f)'
    <3>1. \A id \in Ids : segments'[f].docs[id] # NoDoc => MergeAll(order)[id] # NoDoc
      BY <1>1, <2>2, MergeHolds DEF TypeOK, Whole
    <3>2. QED
      BY <2>2, <2>3, <3>1 DEF Covers, Whole
  <2>5. out' \in DOMAIN segments' /\ pc' = "remove"
    BY <1>5, <2>2 DEF MergeSegments
  <2>6. QED
    BY <2>4, <2>5 DEF NamesUsed, WritesNewFile, OutputCovers
<1>6. CASE RemoveSource
  <2>1. /\ out \in DOMAIN segments' /\ DOMAIN segments' \subseteq DOMAIN segments
        /\ \A f \in DOMAIN segments' : segments'[f] = segments[f]
        /\ \A f \in DOMAIN segments : Covers(out, f)
        /\ out' = out /\ pc' = "remove"
    BY <1>1, <1>6 DEF RemoveSource, Restrict, OutputCovers
  <2>2. \A f \in DOMAIN segments' : Covers(out, f)'
    BY <2>1 DEF Covers
  <2>3. QED
    BY <2>1, <2>2 DEF NamesUsed, WritesNewFile, OutputCovers
<1>7. CASE CompactDone
  <2>1. PICK g \in DOMAIN segments : g = out
    BY <1>1, <1>7 DEF CompactDone, OutputCovers
  <2>2. segments' = segments /\ pc' = "idle" /\ \A f \in DOMAIN segments : Covers(g, f)
    BY <1>1, <1>7, <2>1 DEF CompactDone, Return, OutputCovers
  <2>3. \A f \in DOMAIN segments' : Covers(g, f)'
    BY <2>2 DEF Covers
  <2>4. QED
    BY <2>1, <2>2, <2>3 DEF NamesUsed, WritesNewFile, OutputCovers
<1>8. CASE Crash
  <2>1. now \in Nat /\ now' = now + 1 /\ segments' = segments /\ pc' = "down"
    BY <1>1, <1>8 DEF Crash, TypeOK
  <2>2. NamesUsed'
    <3>1. \A f \in DOMAIN segments : f.ts \in Nat /\ f.n \in Nat
      BY <1>1 DEF TypeOK, Names
    <3>2. \A f, g \in DOMAIN segments : Covers(g, f) => Covers(g, f)'
      BY <2>1 DEF Covers
    <3>3. QED
      BY <1>1, <2>1, <3>1, <3>2 DEF NamesUsed
  <2>3. QED
    BY <2>1, <2>2 DEF WritesNewFile, OutputCovers
<1>9. CASE Open
  <2>1. /\ segments' = segments /\ now' = now /\ segment_count = 0
        /\ segment_count' \in Nat /\ pc' = "idle"
    BY <1>1, <1>9, FS_CardinalityType DEF Open, Return, TypeOK, StageOK
  <2>2. \A f \in DOMAIN segments : f.n \in Nat
    BY <1>1 DEF TypeOK, Names
  <2>3. QED
    BY <1>1, <2>1, <2>2 DEF NamesUsed, Covers, WritesNewFile, OutputCovers
<1>10. CASE Tick
  <2>1. now \in Nat /\ now' = now + 1 /\ segments' = segments
        /\ pc' \notin {"write", "remove"}
    BY <1>1, <1>10 DEF Tick, TypeOK
  <2>2. QED
    BY <1>1, <2>1 DEF NamesUsed, Covers, WritesNewFile, OutputCovers, TypeOK, Names
<1>11. CASE RemoveFails
  BY <1>1, <1>2, <1>11 DEF RemoveFails, WritesNewFile, OutputCovers, Covers
<1>12. CASE UNCHANGED vars
  BY <1>1, <1>2, <1>12 DEF vars, WritesNewFile, OutputCovers, Covers
<1>13. CASE \/ Add \/ Write \/ FlushCalled \/ CompactCalled \/ SegmentFails
            \/ TruncateLog \/ TruncateFails \/ NothingToMerge \/ MergeFails
  <2>1. /\ segments' = segments /\ now' = now /\ segment_count' = segment_count
        /\ pc' \notin {"write", "remove"}
    BY <1>13 DEF Add, AppendJson, AppendFails, Write, AppendNewline, NewlineFails,
         ApplyAdd, ApplyDelete, FlushCalled, CompactCalled, SegmentFails, TruncateLog,
         TruncateFails, NothingToMerge, MergeFails, Return
  <2>2. QED
    BY <1>2, <2>1 DEF WritesNewFile, OutputCovers
<1>14. QED
  BY <1>3, <1>4, <1>5, <1>6, <1>7, <1>8, <1>9, <1>10, <1>11, <1>12, <1>13
  DEF Next, Query, Proceed, Flush, Compact, OpenFails

(* Live documents are buffered until a segment holds them.                   *)
LEMMA LiveStep ==
  ASSUME IInv, [Next]_vars
  PROVE  LiveIsBufferedOrHeld' /\ LiveIsHeld'
<1> USE DEF disk, memory, stage, Live
<1>1. TypeOK /\ StageOK /\ LiveIsBufferedOrHeld /\ LiveIsHeld
  BY DEF IInv
<1>2. \A id \in Ids : Held(id) => Held(id)'
  BY HeldPersists
<1>3. ASSUME index' = index, buffered_index' = buffered_index, pc # "down"
      PROVE  LiveIsBufferedOrHeld'
  BY <1>1, <1>2, <1>3 DEF LiveIsBufferedOrHeld
<1>4. CASE ApplyAdd \/ ApplyDelete
  <2>1. /\ index' = [index EXCEPT ![req.id] = req.doc]
        /\ buffered_index' = [buffered_index EXCEPT ![req.id] = req.doc]
        /\ pc = "logged" /\ pc' # "truncate"
    BY <1>4 DEF ApplyAdd, ApplyDelete, Effect, Return
  <2>2. ASSUME NEW id \in Ids, index'[id] # NoDoc
        PROVE  buffered_index'[id] # NoDoc \/ Held(id)'
    BY <1>1, <1>2, <2>1, <2>2 DEF LiveIsBufferedOrHeld, TypeOK, Map
  <2>3. QED
    BY <2>1, <2>2 DEF LiveIsBufferedOrHeld, LiveIsHeld
<1>5. CASE FinishSegment
  <2>1. /\ out \in Files /\ out \in Files' /\ pc = "write" /\ index' = index
        /\ segments'[out] = Whole(buffered_index)
    BY <1>5 DEF FinishSegment, IInv, WritesNewFile, TypeOK, Files
  <2>2. \A id \in Ids : buffered_index[id] # NoDoc => Held(id)'
    BY <2>1 DEF Held, Whole
  <2>3. \A id \in Live(index) : Held(id)'
    BY <1>1, <1>2, <2>1, <2>2 DEF LiveIsBufferedOrHeld
  <2>4. QED
    BY <2>1, <2>3 DEF LiveIsBufferedOrHeld, LiveIsHeld
<1>6. CASE Open
  <2>1. PICK order \in SetToSeqs(Files) : index' = Recovered(order)
    BY <1>6 DEF Open
  <2>2. ASSUME NEW id \in Ids, index'[id] # NoDoc
        PROVE  buffered_index'[id] # NoDoc \/ Held(id)'
    <3>1. CASE Mentions(wal, id) # {}
      BY <1>6, <2>1, <2>2, <3>1 DEF Open, Recovered, Replay
    <3>2. CASE Mentions(wal, id) = {}
      <4>1. MergeAll(order)[id] # NoDoc
        BY <2>1, <2>2, <3>2 DEF Recovered, Replay
      <4>2. PICK f \in Files : segments[f].docs[id] # NoDoc
        BY <1>1, <2>1, <4>1, MergeHolds DEF TypeOK
      <4>3. Held(id)
        BY <1>6, <4>2 DEF Open, Openable, Held
      <4>4. QED
        BY <1>2, <4>3
    <3>3. QED
      BY <3>1, <3>2
  <2>3. QED
    BY <1>6, <2>2 DEF Open, Return, LiveIsBufferedOrHeld, LiveIsHeld
<1>7. CASE Crash
  BY <1>7 DEF Crash, LiveIsBufferedOrHeld, LiveIsHeld
<1>8. CASE UNCHANGED vars
  BY <1>1, <1>2, <1>8 DEF vars, LiveIsBufferedOrHeld, LiveIsHeld
<1>9. CASE \/ Add \/ AppendNewline \/ NewlineFails \/ FlushCalled \/ CompactCalled
           \/ CreateSegment \/ SegmentFails \/ TruncateLog \/ TruncateFails \/ Compact
           \/ Tick
  <2>1. /\ index' = index /\ buffered_index' = buffered_index /\ pc # "down"
        /\ pc' # "truncate"
    BY <1>9 DEF Add, AppendJson, AppendFails, Call, AppendNewline, NewlineFails,
         FlushCalled, CompactCalled, CreateSegment, SegmentFails, TruncateLog,
         TruncateFails, Compact, NothingToMerge, MergeFails, MergeSegments,
         RemoveSource, RemoveFails, CompactDone, Tick, Return
  <2>2. QED
    BY <1>3, <2>1 DEF LiveIsHeld
<1>10. QED
  BY <1>4, <1>5, <1>6, <1>7, <1>8, <1>9
  DEF Next, Query, Proceed, Write, Flush, OpenFails

(* The log: what is live is logged, or held by a segment.                    *)
LEMMA LogStep ==
  ASSUME IInv, [Next]_vars
  PROVE  RequestLogged' /\ GoodWithoutRequest' /\ LiveDocsOnDisk'
<1> USE DEF disk, memory, stage, Live
<1>1. TypeOK /\ StageOK /\ RequestLogged /\ GoodWithoutRequest /\ LiveDocsOnDisk
  BY DEF IInv
<1>2. ASSUME NEW id \in Ids, OnDisk(wal, id), wal' = wal PROVE OnDisk(wal, id)'
  <2>1. Held(id) => Held(id)'
    BY HeldPersists
  <2>2. QED
    BY <1>2, <2>1 DEF OnDisk
<1>3. ASSUME NEW r \in Records, AppendJson(r)
      PROVE  RequestLogged' /\ GoodWithoutRequest' /\ LiveDocsOnDisk'
  <2>1. /\ pc = "idle" /\ req = NoRequest /\ req' = r /\ wal' = Append(wal, r)
        /\ index' = index /\ segments' = segments /\ faults' = faults
    BY <1>1, <1>3 DEF AppendJson, Call, StageOK
  <2>2. wal \in Seq(Records) /\ wal' # <<>> /\ Last(wal') = r /\ Front(wal') = wal
    BY <1>1, <2>1, MentionsAppend, AppendProperties DEF TypeOK
  <2>3. ASSUME "append" \notin faults, NEW id \in Live(index) PROVE OnDisk(wal, id)
    BY <1>1, <2>1, <2>3 DEF LiveDocsOnDisk, Deleting, NoRequest
  <2>4. \A id \in Ids : Held(id)' <=> Held(id)
    BY <2>1 DEF Held, Files
  <2>5. ASSUME "append" \notin faults, NEW id \in Live(index)
        PROVE  Deleting(id)' \/ OnDisk(wal, id)'
    <3>1. CASE id = r.id /\ r.op = "delete"
      BY <2>1, <3>1 DEF Deleting
    <3>2. CASE id = r.id /\ r.op # "delete"
      <4>1. r.op = "add"
        BY <3>2 DEF Records, Adds, Deletes
      <4>2. Mentions(wal', id) # {} /\ wal'[Max(Mentions(wal', id))] = r
        BY <2>1, <2>2, <3>2, MentionsAppend
      <4>3. QED
        BY <4>1, <4>2 DEF OnDisk
    <3>3. CASE id # r.id
      <4>1. Mentions(wal', id) = Mentions(wal, id)
        BY <2>1, <2>2, <3>3, MentionsAppend
      <4>2. Mentions(wal, id) # {} =>
              wal'[Max(Mentions(wal, id))] = wal[Max(Mentions(wal, id))]
        BY <2>1, <2>2, MentionsIndices, MentionsAppend
      <4>3. QED
        BY <2>3, <2>4, <2>5, <4>1, <4>2 DEF OnDisk
    <3>4. QED
      BY <3>1, <3>2, <3>3
  <2>6. ASSUME "append" \notin faults, NEW id \in Live(index) PROVE OnDisk(Front(wal), id)'
    BY <2>2, <2>3, <2>4, <2>6 DEF OnDisk
  <2>7. QED
    BY <2>1, <2>2, <2>5, <2>6 DEF RequestLogged, GoodWithoutRequest, LiveDocsOnDisk
<1>4. ASSUME NEW r \in Records, AppendFails(r)
      PROVE  RequestLogged' /\ GoodWithoutRequest' /\ LiveDocsOnDisk'
  BY <1>4 DEF AppendFails, Fault, RequestLogged, GoodWithoutRequest, LiveDocsOnDisk
<1>5. CASE NewlineFails
  BY <1>5 DEF NewlineFails, Fault, RequestLogged, GoodWithoutRequest, LiveDocsOnDisk
<1>6. CASE AppendNewline
  <2>1. LiveDocsOnDisk'
    BY <1>1, <1>2, <1>6 DEF AppendNewline, LiveDocsOnDisk, Deleting
  <2>2. QED
    BY <1>1, <1>6, <2>1 DEF AppendNewline, RequestLogged, GoodWithoutRequest
<1>7. CASE ApplyAdd \/ ApplyDelete
  <2>1. /\ pc = "logged" /\ req \in Mutations /\ wal' = wal /\ faults' = faults
        /\ index' = [index EXCEPT ![req.id] = req.doc]
        /\ pc' \notin {"json", "logged"}
    BY <1>1, <1>7 DEF ApplyAdd, ApplyDelete, Effect, Return, StageOK
  <2>2. ASSUME "append" \notin faults, NEW id \in Ids, index'[id] # NoDoc
        PROVE  OnDisk(wal, id)
    <3>1. CASE id = req.id
      <4>1. req.op = "add"
        BY <1>1, <2>1, <2>2, <3>1 DEF TypeOK, Map, Mutations, Adds, Deletes
      <4>2. wal \in Seq(Records) /\ wal # <<>> /\ Last(wal) = req
        BY <1>1, <2>1, <2>2 DEF RequestLogged, TypeOK
      <4>3. QED
        BY <3>1, <4>1, <4>2, LastIsMentioned DEF OnDisk
    <3>2. CASE id # req.id
      BY <1>1, <2>1, <2>2, <3>2 DEF LiveDocsOnDisk, Deleting, TypeOK, Map
    <3>3. QED
      BY <3>1, <3>2
  <2>3. QED
    BY <1>2, <2>1, <2>2 DEF RequestLogged, GoodWithoutRequest, LiveDocsOnDisk
<1>8. CASE \/ FlushCalled \/ CompactCalled \/ CreateSegment \/ FinishSegment
           \/ SegmentFails \/ TruncateFails \/ Compact \/ Tick
  <2>1. /\ wal' = wal /\ index' = index /\ pc' \notin {"json", "logged"}
        /\ faults \subseteq faults' /\ \A id \in Ids : ~Deleting(id)
    BY <1>1, <1>8 DEF FlushCalled, CompactCalled, CreateSegment, FinishSegment,
         SegmentFails, TruncateFails, Compact, NothingToMerge, MergeFails, MergeSegments,
         RemoveSource, RemoveFails, CompactDone, Tick, Return, Call, Fault, StageOK,
         Deleting, NoRequest
  <2>2. QED
    BY <1>1, <1>2, <2>1 DEF RequestLogged, GoodWithoutRequest, LiveDocsOnDisk
<1>9. CASE TruncateLog
  <2>1. /\ wal' = <<>> /\ index' = index /\ pc = "truncate" /\ pc' \notin {"json", "logged"}
    BY <1>9 DEF TruncateLog, Return
  <2>2. \A id \in Live(index) : Held(id)'
    BY <2>1, HeldPersists DEF IInv, LiveIsHeld
  <2>3. \A id \in Ids : Mentions(wal', id) = {}
    BY <2>1 DEF Mentions
  <2>4. QED
    BY <2>1, <2>2, <2>3 DEF RequestLogged, GoodWithoutRequest, LiveDocsOnDisk, OnDisk
<1>10. CASE Crash
  <2>1. /\ index' = index /\ faults' = faults /\ pc' = "down"
        /\ req' = IF pc \in {"json", "logged"} THEN req ELSE NoRequest
        /\ wal' = wal \/ (pc = "json" /\ wal' = Front(wal))
        /\ pc # "down"
    BY <1>10 DEF Crash
  <2>2. \A id \in Ids : Deleting(id) => Deleting(id)'
    BY <1>1, <2>1 DEF TypeOK, StageOK, Deleting, NoRequest
  <2>3. CASE wal' = wal
    BY <1>1, <1>2, <2>1, <2>2, <2>3 DEF RequestLogged, GoodWithoutRequest, LiveDocsOnDisk
  <2>4. CASE pc = "json" /\ wal' = Front(wal)
    <3>1. ASSUME "append" \notin faults, NEW id \in Live(index) PROVE OnDisk(Front(wal), id)
      BY <1>1, <2>4, <3>1 DEF GoodWithoutRequest
    <3>2. \A id \in Ids : Held(id) => Held(id)'
      BY HeldPersists
    <3>3. ASSUME "append" \notin faults, NEW id \in Live(index) PROVE OnDisk(wal, id)'
      BY <2>4, <3>1, <3>2, <3>3 DEF OnDisk
    <3>4. QED
      BY <2>1, <3>3 DEF RequestLogged, GoodWithoutRequest, LiveDocsOnDisk
  <2>5. QED
    BY <2>1, <2>3, <2>4
<1>11. CASE Open
  <2>1. PICK order \in SetToSeqs(Files) : index' = Recovered(order)
    BY <1>11 DEF Open
  <2>2. ASSUME NEW id \in Ids, index'[id] # NoDoc PROVE OnDisk(wal, id)
    <3>1. CASE Mentions(wal, id) # {}
      <4>1. /\ wal[Max(Mentions(wal, id))].doc # NoDoc
            /\ wal[Max(Mentions(wal, id))] \in Records
        BY <1>1, <2>1, <2>2, <3>1, MentionsIndices DEF Recovered, Replay, TypeOK
      <4>2. wal[Max(Mentions(wal, id))].op = "add"
        BY <4>1 DEF Records, Adds, Deletes
      <4>3. QED
        BY <3>1, <4>2 DEF OnDisk
    <3>2. CASE Mentions(wal, id) = {}
      <4>1. MergeAll(order)[id] # NoDoc
        BY <2>1, <2>2, <3>2 DEF Recovered, Replay
      <4>2. PICK f \in Files : segments[f].docs[id] # NoDoc
        BY <1>1, <2>1, <4>1, MergeHolds DEF TypeOK
      <4>3. QED
        BY <1>11, <3>2, <4>2 DEF Open, Openable, Held, OnDisk
    <3>3. QED
      BY <3>1, <3>2
  <2>3. QED
    BY <1>2, <1>11, <2>2 DEF Open, Return, RequestLogged, GoodWithoutRequest, LiveDocsOnDisk
<1>12. CASE UNCHANGED vars
  <2>1. LiveDocsOnDisk'
    BY <1>1, <1>2, <1>12 DEF vars, LiveDocsOnDisk, Deleting
  <2>2. \A id \in Ids : Held(id) => Held(id)'
    BY HeldPersists
  <2>3. QED
    BY <1>1, <1>12, <2>1, <2>2 DEF vars, RequestLogged, GoodWithoutRequest, OnDisk
<1>13. QED
  BY <1>3, <1>4, <1>5, <1>6, <1>7, <1>8, <1>9, <1>10, <1>11, <1>12
  DEF Next, Query, Add, Proceed, Write, Flush, OpenFails

----------------------------------------------------------------------------
(* Memory and disk while nothing has failed.                                 *)

(* A nonempty log is its front and its last record.                          *)
LEMMA FrontAndLast ==
  ASSUME NEW log \in Seq(Records), log # <<>>
  PROVE  /\ Front(log) \in Seq(Records) /\ Last(log) \in Records
         /\ log = Append(Front(log), Last(log))
<1>1. PICK front \in Seq(Records), r \in Records : log = Append(front, r)
  BY SequenceEmptyOrAppend
<1>2. Front(log) = front /\ Last(log) = r
  BY <1>1, MentionsAppend
<1>3. QED
  BY <1>1, <1>2

(* Replaying a longer log is applying its last record, and an empty log      *)
(* changes nothing: what applying a request does to the buffer.              *)
LEMMA ReplayAppend ==
  ASSUME NEW map \in Map, NEW log \in Seq(Records), NEW r \in Records
  PROVE  Replay(map, Append(log, r)) = Effect(Replay(map, log), r)
<1> DEFINE new == Append(log, r)
<1>1. r.id \in Ids /\ Replay(map, log) \in Map
  BY ReplayType DEF Records, Adds, Deletes
<1>2. ASSUME NEW id \in Ids PROVE Replay(map, new)[id] = Effect(Replay(map, log), r)[id]
  <2>1. CASE id = r.id
    BY <1>1, <2>1, MentionsAppend DEF Replay, Effect, Map
  <2>2. CASE id # r.id
    <3>1. Mentions(new, id) = Mentions(log, id)
      BY <2>2, MentionsAppend
    <3>2. Mentions(log, id) # {} =>
            new[Max(Mentions(log, id))] = log[Max(Mentions(log, id))]
      BY MentionsIndices, MentionsAppend
    <3>3. Effect(Replay(map, log), r)[id] = Replay(map, log)[id]
      BY <1>1, <2>2 DEF Effect, Map
    <3>4. QED
      BY <3>1, <3>2, <3>3 DEF Replay
  <2>3. QED
    BY <2>1, <2>2
<1>3. QED
  BY <1>1, <1>2 DEF Replay, Effect, Map

LEMMA ReplayNothing ==
  ASSUME NEW map \in Map
  PROVE  Replay(map, <<>>) = map /\ AddsIn(<<>>) = 0
<1>1. \A id : Mentions(<<>>, id) = {}
  BY DEF Mentions
<1>2. {k \in DOMAIN <<>> : <<>>[k].op = "add"} = {}
  OBVIOUS
<1>3. QED
  BY <1>1, <1>2, FS_EmptySet DEF Map, Replay, AddsIn

(* Of a longer log, one more addition is counted if its last record is one.  *)
LEMMA AddsInAppend ==
  ASSUME NEW log \in Seq(Records), NEW r \in Records
  PROVE  AddsIn(Append(log, r)) = AddsIn(log) + IF r.op = "add" THEN 1 ELSE 0
<1> DEFINE new == Append(log, r)
           old == {k \in DOMAIN log : log[k].op = "add"}
           n == Len(log) + 1
<1>1. /\ Len(log) \in Nat /\ DOMAIN new = 1..n /\ DOMAIN log = 1..Len(log)
      /\ new[n] = r /\ \A k \in 1..Len(log) : new[k] = log[k]
  BY AppendProperties, LenProperties
<1>2. IsFiniteSet(old) /\ n \notin old
  <2>1. IsFiniteSet(1..Len(log)) /\ old \subseteq 1..Len(log) /\ n \notin 1..Len(log)
    BY <1>1, FS_Interval
  <2>2. QED
    BY <2>1, FS_Subset
<1>3. Cardinality(old \cup {n}) = Cardinality(old) + 1 /\ Cardinality(old) \in Nat
  BY <1>2, FS_AddElement, FS_CardinalityType
<1>4. AddsIn(log) = Cardinality(old)
  BY DEF AddsIn
<1>5. CASE r.op = "add"
  <2>1. {k \in DOMAIN new : new[k].op = "add"} = old \cup {n}
    BY <1>1, <1>5
  <2>2. AddsIn(new) = Cardinality(old \cup {n})
    BY <2>1 DEF AddsIn
  <2>3. QED
    BY <1>3, <1>4, <1>5, <2>2
<1>6. CASE r.op # "add"
  <2>1. {k \in DOMAIN new : new[k].op = "add"} = old
    BY <1>1, <1>6
  <2>2. AddsIn(new) = Cardinality(old)
    BY <2>1 DEF AddsIn
  <2>3. QED
    BY <1>3, <1>4, <1>6, <2>2
<1>7. QED
  BY <1>5, <1>6

(* What the buffer and the count of additions have of the log.               *)
LEMMA BufferStep ==
  ASSUME IInv, [Next]_vars
  PROVE  BufferMatchesLog'
<1> USE DEF disk, memory, stage
<1>1. TypeOK /\ StageOK /\ RequestLogged /\ BufferMatchesLog
  BY DEF IInv
<1>2. ASSUME wal' = wal, buffered_index' = buffered_index, unflushed_docs' = unflushed_docs,
             pc' # "truncate", pc \notin {"down", "truncate"}, faults \subseteq faults',
             pc' \in {"json", "logged"} <=> pc \in {"json", "logged"}
      PROVE  BufferMatchesLog'
  BY <1>1, <1>2 DEF BufferMatchesLog, Applied
<1>3. ASSUME NEW r \in Records, AppendJson(r) PROVE BufferMatchesLog'
  <2>1. /\ pc = "idle" /\ pc' = "json" /\ wal' = Append(wal, r) /\ faults' = faults
        /\ buffered_index' = buffered_index /\ unflushed_docs' = unflushed_docs
    BY <1>3 DEF AppendJson, Call
  <2>2. Front(wal') = wal
    BY <1>1, <2>1, MentionsAppend DEF TypeOK
  <2>3. QED
    BY <1>1, <2>1, <2>2 DEF BufferMatchesLog, Applied
<1>4. ASSUME faults' # {}, pc' # "truncate" PROVE BufferMatchesLog'
  BY <1>4 DEF BufferMatchesLog
<1>5. CASE \/ (\E r \in Records : AppendFails(r)) \/ NewlineFails \/ SegmentFails
           \/ TruncateFails \/ RemoveFails
  BY <1>4, <1>5, <1>1 DEF AppendFails, NewlineFails, SegmentFails, TruncateFails, RemoveFails,
      Fault, Return
<1>6. CASE AppendNewline
  BY <1>2, <1>6 DEF AppendNewline
<1>7. CASE ApplyAdd \/ ApplyDelete
  <2>1. /\ pc = "logged" /\ wal' = wal /\ faults' = faults /\ pc' \in {"idle", "flush"}
        /\ buffered_index' = Effect(buffered_index, req)
        /\ unflushed_docs' = unflushed_docs + IF req.op = "add" THEN 1 ELSE 0
    BY <1>1, <1>7 DEF ApplyAdd, ApplyDelete, Return, TypeOK
  <2>2. SUFFICES ASSUME faults = {}
                 PROVE  buffered_index' = Replay(Empty, wal) /\ unflushed_docs' = AddsIn(wal)
    BY <2>1 DEF BufferMatchesLog, Applied
  <2>3. /\ wal \in Seq(Records) /\ wal # <<>> /\ Last(wal) = req
        /\ buffered_index = Replay(Empty, Front(wal)) /\ unflushed_docs = AddsIn(Front(wal))
    BY <1>1, <2>1, <2>2 DEF RequestLogged, BufferMatchesLog, Applied, TypeOK
  <2>4. Front(wal) \in Seq(Records) /\ req \in Records /\ wal = Append(Front(wal), req)
    BY <2>3, FrontAndLast
  <2>5. Empty \in Map
    BY DEF Empty, Map
  <2>6. QED
    BY <2>1, <2>3, <2>4, <2>5, ReplayAppend, AddsInAppend
<1>8. CASE FlushCalled \/ CompactCalled \/ CreateSegment \/ NothingToMerge \/ MergeFails
           \/ MergeSegments \/ RemoveSource \/ CompactDone \/ Tick
  BY <1>2, <1>8 DEF FlushCalled, CompactCalled, Call, CreateSegment, NothingToMerge, MergeFails,
      MergeSegments, RemoveSource, CompactDone, Tick, Return
<1>9. CASE FinishSegment
  BY <1>9 DEF FinishSegment, BufferMatchesLog
<1>10. CASE TruncateLog
  <2>1. Empty \in Map
    BY DEF Empty, Map
  <2>2. Replay(Empty, <<>>) = Empty /\ AddsIn(<<>>) = 0
    BY <2>1, ReplayNothing
  <2>3. /\ wal' = <<>> /\ buffered_index' = Empty /\ unflushed_docs' = 0
        /\ pc' \in {"idle", "list"}
    BY <1>1, <1>10 DEF TruncateLog, Return, BufferMatchesLog
  <2>4. QED
    BY <2>2, <2>3 DEF BufferMatchesLog, Applied
<1>11. CASE Crash
  BY <1>11 DEF Crash, BufferMatchesLog
<1>12. CASE Open
  BY <1>12 DEF Open, Return, BufferMatchesLog, Applied
<1>13. CASE UNCHANGED vars
  BY <1>1, <1>13 DEF vars, BufferMatchesLog, Applied
<1>14. QED
  BY <1>3, <1>5, <1>6, <1>7, <1>8, <1>9, <1>10, <1>11, <1>12, <1>13
  DEF Next, Query, Add, Proceed, Write, Flush, Compact, OpenFails

(* What segment_count and the names of the files have to do with each other. *)
LEMMA CountStep ==
  ASSUME IInv, [Next]_vars
  PROVE  NamesAreNew' /\ CountMatchesFiles'
<1> USE DEF disk, memory, stage, Files
<1>1. TypeOK /\ StageOK /\ OutputCovers /\ WritesNewFile /\ NamesAreNew /\ CountMatchesFiles
  BY DEF IInv
<1>2. ASSUME segments' = segments, now' = now, segment_count' = segment_count,
             faults \subseteq faults', pc \notin {"down", "write", "remove"},
             pc' \notin {"down", "write", "remove"}
      PROVE  NamesAreNew' /\ CountMatchesFiles'
  BY <1>1, <1>2 DEF NamesAreNew, CountMatchesFiles
<1>3. CASE Add \/ Write \/ FlushCalled \/ CompactCalled \/ TruncateLog \/ TruncateFails
           \/ NothingToMerge \/ MergeFails
  BY <1>1, <1>2, <1>3 DEF Add, AppendJson, AppendFails, Write, AppendNewline, NewlineFails,
      ApplyAdd, ApplyDelete, FlushCalled, CompactCalled, TruncateLog, TruncateFails,
      NothingToMerge, MergeFails, Call, Return, Fault
<1>4. CASE SegmentFails \/ RemoveFails
  BY <1>1, <1>4 DEF SegmentFails, RemoveFails, Fault, Return, NamesAreNew, CountMatchesFiles
<1>5. CASE CreateSegment
  <2>1. /\ DOMAIN segments' = DOMAIN segments \cup {out'}
        /\ out' = FlushName(now, segment_count + 1) /\ now' = now
        /\ segment_count' = segment_count /\ pc = "flush" /\ pc' = "write" /\ faults' = faults
    BY <1>5 DEF CreateSegment, WithFile
  <2>2. out'.ts = now /\ out'.kind = "flush" /\ out'.n = segment_count + 1
    BY <2>1 DEF FlushName
  <2>3. NamesAreNew'
    BY <1>1, <2>1, <2>2 DEF NamesAreNew, TypeOK, Names
  <2>4. faults = {} => out' \notin DOMAIN segments
    BY <1>1, <2>1, <2>2 DEF NamesAreNew, TypeOK
  <2>5. out' \notin DOMAIN segments =>
          Cardinality(DOMAIN segments') = Cardinality(DOMAIN segments) + 1
    BY <1>1, <2>1, FS_AddElement DEF TypeOK
  <2>6. faults = {} => Cardinality(DOMAIN segments) = segment_count
    BY <1>1, <2>1 DEF CountMatchesFiles
  <2>7. QED
    BY <2>1, <2>3, <2>4, <2>5, <2>6 DEF CountMatchesFiles
<1>6. CASE FinishSegment
  <2>1. /\ DOMAIN segments' = DOMAIN segments /\ now' = now /\ faults' = faults
        /\ segment_count' = segment_count + 1 /\ pc = "write" /\ pc' = "truncate"
    BY <1>1, <1>6 DEF FinishSegment, TypeOK
  <2>2. QED
    BY <1>1, <2>1 DEF NamesAreNew, CountMatchesFiles
<1>7. CASE MergeSegments
  <2>1. PICK order \in SetToSeqs(DOMAIN segments) :
          /\ segments' = WithFile(out', Whole(MergeAll(order)))
          /\ sources' = order
    BY <1>7 DEF MergeSegments
  <2>2. /\ DOMAIN segments' = DOMAIN segments \cup {out'} /\ now' = now /\ pc' = "remove"
        /\ out'.ts = now /\ out'.kind = "compacted" /\ pc = "list"
    BY <1>7, <2>1 DEF MergeSegments, WithFile, CompactedName
  <2>3. DOMAIN segments \subseteq Range(sources')
    BY <1>1, <2>1, OrderIsOnto DEF TypeOK, Range
  <2>4. QED
    BY <1>1, <2>2, <2>3 DEF NamesAreNew, CountMatchesFiles, TypeOK
<1>8. CASE RemoveSource
  <2>1. /\ DOMAIN segments' = DOMAIN segments \ ({Head(sources)} \ {out})
        /\ sources' = Tail(sources) /\ sources # <<>> /\ out' = out /\ now' = now
        /\ pc = "remove" /\ pc' = "remove" /\ faults' = faults
    BY <1>8 DEF RemoveSource, Restrict
  <2>2. Range(sources) \subseteq {Head(sources)} \cup Range(Tail(sources))
    <3>1. Len(sources) \in Nat \ {0} /\ DOMAIN sources = 1..Len(sources)
      BY <1>1, <2>1, EmptySeq, LenProperties DEF TypeOK
    <3>2. /\ Len(Tail(sources)) = Len(sources) - 1
          /\ DOMAIN Tail(sources) = 1..Len(sources) - 1
          /\ \A i \in 1..Len(sources) - 1 : Tail(sources)[i] = sources[i + 1]
          /\ Head(sources) = sources[1]
      BY <1>1, <2>1, <3>1, HeadTailProperties, LenProperties DEF TypeOK
    <3>3. ASSUME NEW k \in 1..Len(sources)
          PROVE  sources[k] \in {Head(sources)} \cup Range(Tail(sources))
      <4>1. CASE k = 1
        BY <3>2, <4>1
      <4>2. CASE k # 1
        <5>1. k - 1 \in 1..Len(sources) - 1 /\ (k - 1) + 1 = k
          BY <3>1, <4>2
        <5>2. QED
          BY <3>2, <5>1 DEF Range
      <4>3. QED
        BY <4>1, <4>2
    <3>4. QED
      BY <3>1, <3>3 DEF Range
  <2>3. QED
    BY <1>1, <2>1, <2>2 DEF NamesAreNew, CountMatchesFiles
<1>9. CASE CompactDone
  <2>1. /\ segments' = segments /\ now' = now /\ faults' = faults /\ segment_count' = 1
        /\ pc = "remove" /\ pc' = "idle" /\ sources = <<>>
    BY <1>9 DEF CompactDone, Return
  <2>2. out \in DOMAIN segments /\ out.kind = "compacted"
    BY <1>1, <2>1 DEF OutputCovers, Covers
  <2>3. Range(sources) = {}
    BY <2>1 DEF Range
  <2>4. faults = {} => DOMAIN segments = {out}
    BY <1>1, <2>1, <2>2, <2>3 DEF CountMatchesFiles
  <2>5. Cardinality({out}) = 1
    BY FS_Singleton
  <2>6. QED
    BY <1>1, <2>1, <2>2, <2>4, <2>5 DEF NamesAreNew, CountMatchesFiles
<1>10. CASE Crash
  <2>1. \A f \in DOMAIN segments : f.ts \in Nat
    BY <1>1 DEF TypeOK, Names
  <2>2. QED
    BY <1>1, <1>10, <2>1 DEF Crash, NamesAreNew, CountMatchesFiles, TypeOK
<1>11. CASE Open
  <2>1. \A f \in DOMAIN segments : f.ts \in Nat
    BY <1>1 DEF TypeOK, Names
  <2>2. QED
    BY <1>1, <1>11, <2>1 DEF Open, Return, NamesAreNew, CountMatchesFiles, TypeOK
<1>12. CASE Tick
  <2>1. \A f \in DOMAIN segments : f.ts \in Nat
    BY <1>1 DEF TypeOK, Names
  <2>2. QED
    BY <1>1, <1>12, <2>1 DEF Tick, NamesAreNew, CountMatchesFiles, TypeOK
<1>13. CASE UNCHANGED vars
  BY <1>1, <1>13 DEF vars, NamesAreNew, CountMatchesFiles
<1>14. QED
  BY <1>3, <1>4, <1>5, <1>6, <1>7, <1>8, <1>9, <1>10, <1>11, <1>12, <1>13
  DEF Next, Query, Proceed, Flush, Compact, OpenFails

----------------------------------------------------------------------------
(* A new directory and the engine just opened on it satisfy the invariant.   *)
LEMMA InitInv == Init => IInv
<1> SUFFICES ASSUME Init PROVE IInv
  OBVIOUS
<1>1. TypeOK /\ Files = {}
  BY InitType DEF Init, Files
<1>2. BufferMatchesLog
  <2>1. Empty \in Map
    BY DEF Empty, Map
  <2>2. QED
    BY <2>1, ReplayNothing DEF Init, BufferMatchesLog, Applied
<1>3. NamesAreNew /\ CountMatchesFiles
  BY <1>1, FS_EmptySet DEF Init, NamesAreNew, CountMatchesFiles
<1>4. QED
  BY <1>1, <1>2, <1>3, NoDocAssumption
  DEF Init, IInv, StageOK, LiveIsBufferedOrHeld, LiveIsHeld, RequestLogged,
      GoodWithoutRequest, LiveDocsOnDisk, NamesUsed, WritesNewFile, OutputCovers,
      Live, Empty

(* Every step keeps the invariant.                                           *)
LEMMA NextInv == IInv /\ [Next]_vars => IInv'
BY NextType, StageStep, NamesStep, LiveStep, LogStep, BufferStep, CountStep DEF IInv

(* IInv: the inductive invariant holds in every state of the engine.         *)
THEOREM Invariance == Spec => []IInv
BY InitInv, NextInv, PTL DEF Spec

(* LiveDocsOnDisk, for every set of ids and documents, every threshold and   *)
(* whatever fails: at every instant a crash can fall, each document queries  *)
(* can see is in the log or in a whole segment.                              *)
THEOREM LiveDocsAreOnDisk == Spec => []LiveDocsOnDisk
<1>1. IInv => LiveDocsOnDisk
  BY DEF IInv
<1>2. QED
  BY <1>1, Invariance, PTL

(* FlushedDocsStay: no step takes the last readable copy of a document from  *)
(* disk, a flush that reuses a file name and a compaction cut short included.*)
THEOREM FlushedDocsAreKept == Spec => FlushedDocsStay
<1>1. IInv /\ [Next]_vars => [\A id \in Ids : Held(id) => Held(id)']_vars
  BY HeldPersists
<1>2. QED
  BY <1>1, Invariance, PTL DEF Spec, FlushedDocsStay

(* LiveDocsSurviveRestart: reopening brings back, in some version, every     *)
(* document that was live, but the one whose deletion was under way.         *)
THEOREM RestartKeepsLiveDocs == Spec => LiveDocsSurviveRestart
<1>1. IInv /\ [Next]_vars =>
        [Open /\ "append" \notin faults =>
           \A id \in Live(index) : Deleting(id) \/ id \in Live(index)']_vars
  <2> SUFFICES ASSUME IInv, Open, "append" \notin faults, NEW id \in Live(index),
                      ~Deleting(id)
               PROVE  id \in Live(index)'
    BY DEF vars
  <2>1. TypeOK /\ OnDisk(wal, id) /\ id \in Ids
    BY DEF IInv, LiveDocsOnDisk, Live
  <2>2. PICK order \in SetToSeqs(Files) : index' = Recovered(order)
    BY DEF Open
  <2>3. CASE Mentions(wal, id) # {}
    <3>1. /\ wal[Max(Mentions(wal, id))] \in Records
          /\ wal[Max(Mentions(wal, id))].op = "add"
      BY <2>1, <2>3, MentionsIndices DEF TypeOK, OnDisk
    <3>2. wal[Max(Mentions(wal, id))].doc # NoDoc
      BY <3>1, NoDocAssumption DEF Records, Adds, Deletes
    <3>3. QED
      BY <2>1, <2>2, <2>3, <3>2 DEF Recovered, Replay, Live
  <2>4. CASE Mentions(wal, id) = {}
    <3>1. \E f \in Files : segments[f].docs[id] # NoDoc
      BY <2>1, <2>4 DEF OnDisk, Held
    <3>2. MergeAll(order)[id] # NoDoc
      BY <2>1, <2>2, <3>1, MergeHolds DEF TypeOK
    <3>3. QED
      BY <2>1, <2>2, <2>4, <3>2 DEF Recovered, Replay, Live
  <2>5. QED
    BY <2>3, <2>4
<1>2. QED
  BY <1>1, Invariance, PTL DEF Spec, LiveDocsSurviveRestart

(* MemoryMatchesDisk: while no file operation has failed, an idle engine's   *)
(* buffer and its counters are those of the log and of the directory, after  *)
(* any flushes, compactions and restarts.                                    *)
THEOREM MemoryIsThatOfDisk == Spec => []MemoryMatchesDisk
<1>1. IInv => MemoryMatchesDisk
  BY DEF IInv, BufferMatchesLog, Applied, CountMatchesFiles, MemoryMatchesDisk
<1>2. QED
  BY <1>1, Invariance, PTL
=============================================================================
