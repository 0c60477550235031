---------------------------- MODULE CarefulProofs -----------------------------
(* Theorems about a SearchEngine with careful clients: what a restart finds, *)
(* and that the engine is a DocumentStore.                                   *)
EXTENDS CarefulInvariant, SearchEngineProofs

\* Every record reaches the log; other file operations may fail.
LogWritable == "append" \notin faults

----------------------------------------------------------------------------
(* The power of ten that turns a number into a fraction is a number.         *)
ScaleUpTo(n, s) ==
  \A m \in 0..n : s[m] = IF m < 10 THEN 10 ELSE 10 * s[m \div 10]

LEMMA ScaleExists ==
  \A n \in Nat : \E s \in [0..n -> Nat] : ScaleUpTo(n, s)
<1> DEFINE T == {n \in Nat : \E s \in [0..n -> Nat] : ScaleUpTo(n, s)}
<1>1. 0 \in T
  <2>1. [m \in 0..0 |-> 10] \in [0..0 -> Nat] /\ ScaleUpTo(0, [m \in 0..0 |-> 10])
    BY DEF ScaleUpTo
  <2>2. QED
    BY <2>1
<1>2. ASSUME NEW n \in T PROVE n + 1 \in T
  <2>1. n \in Nat
    OBVIOUS
  <2>2. PICK s \in [0..n -> Nat] : ScaleUpTo(n, s)
    OBVIOUS
  <2> DEFINE next == IF n + 1 < 10 THEN 10 ELSE 10 * s[(n + 1) \div 10]
             more == [m \in 0..(n + 1) |-> IF m = n + 1 THEN next ELSE s[m]]
  <2>3. \A m \in 0..(n + 1) : m \in 0..n \/ m = n + 1
    BY <2>1
  <2>4. \A m \in 0..(n + 1) : m >= 10 => m \div 10 \in 0..n
    BY <2>1
  <2>5. next \in Nat
    BY <2>1, <2>2, <2>4
  <2>6. more \in [0..(n + 1) -> Nat]
    <3> HIDE DEF next
    <3>1. QED
      BY <2>2, <2>3, <2>5
  <2>7. \A m \in 0..(n + 1) : m >= 10 => more[m \div 10] = s[m \div 10]
    <3> HIDE DEF next
    <3>1. \A k \in 0..n : k \in 0..(n + 1) /\ k # n + 1
      BY <2>1
    <3>2. \A k \in 0..n : more[k] = s[k]
      BY <3>1
    <3> HIDE DEF more
    <3>3. QED
      BY <2>4, <3>2
  <2>8. ScaleUpTo(n + 1, more)
    <3> SUFFICES ASSUME NEW m \in 0..(n + 1)
                 PROVE  more[m] = IF m < 10 THEN 10 ELSE 10 * more[m \div 10]
      BY DEF ScaleUpTo
    <3>1. more[m] = IF m < 10 THEN 10 ELSE 10 * s[m \div 10]
      BY <2>2, <2>3 DEF ScaleUpTo
    <3>2. m < 10 \/ m >= 10
      BY <2>1
    <3> HIDE DEF more
    <3>3. QED
      BY <2>7, <3>1, <3>2
  <2>9. n + 1 \in Nat /\ \E t \in [0..(n + 1) -> Nat] : ScaleUpTo(n + 1, t)
    <3> HIDE DEF more
    <3>1. \E t \in [0..(n + 1) -> Nat] : ScaleUpTo(n + 1, t)
      BY <2>6, <2>8, Zenon
    <3>2. QED
      BY <2>1, <3>1
  <2>10. QED
    BY <2>9
<1>3. T = Nat
  <2> HIDE DEF T
  <2>1. QED
    BY <1>1, <1>2, SetInduction, T \subseteq Nat DEF T
<1>4. QED
  BY <1>3

LEMMA ScaleIs ==
  ASSUME NEW n \in Nat
  PROVE  Scale(n) \in Nat /\ (n < 10 => Scale(n) = 10)
<1> DEFINE Unfolds(s) == s = [m \in 0..n |-> IF m < 10 THEN 10 ELSE 10 * s[m \div 10]]
           scale == CHOOSE s : Unfolds(s)
<1>1. PICK s \in [0..n -> Nat] : ScaleUpTo(n, s)
  BY ScaleExists
<1>2. Unfolds(s)
  BY <1>1 DEF ScaleUpTo
<1>3. Unfolds(scale)
  <2> HIDE DEF Unfolds
  <2>1. QED
    BY <1>2
<1>4. Scale(n) = scale[n]
  BY DEF Scale
<1> HIDE DEF scale
<1>5. \A m \in 0..n : scale[m] = IF m < 10 THEN 10 ELSE 10 * scale[m \div 10]
  BY <1>3
<1> DEFINE T == {k \in 0..n : \A m \in 0..k : scale[m] \in Nat}
<1>6. 0 \in T
  BY <1>5
<1>7. ASSUME NEW k \in 0..(n - 1), k \in T PROVE k + 1 \in T
  <2> SUFFICES ASSUME NEW m \in 0..(k + 1) PROVE scale[m] \in Nat
    OBVIOUS
  <2>1. m \in 0..n /\ (m < 10 \/ m \div 10 \in 0..k)
    OBVIOUS
  <2>2. QED
    BY <1>5, <1>7, <2>1
<1>8. n \in T
  <2> HIDE DEF T
  <2>1. \A k \in 0..n : k \in T
    BY <1>6, <1>7, Climb
  <2>2. QED
    BY <2>1
<1>9. QED
  BY <1>4, <1>5, <1>8

(* No file sorts before one that sorts before it.                            *)
LEMMA BeforeIsAsymmetric ==
  ASSUME NEW f \in Names, NEW g \in Names, Before(f, g)
  PROVE  ~Before(g, f) /\ f # g
<1>1. /\ f.ts \in Nat /\ g.ts \in Nat /\ f.n \in Nat /\ g.n \in Nat
      /\ f.kind \in {"flush", "compacted"} /\ g.kind \in {"flush", "compacted"}
  BY DEF Names
<1>2. Scale(f.n) \in Nat /\ Scale(g.n) \in Nat
  BY <1>1, ScaleIs
<1> DEFINE x == f.n * Scale(g.n)
           y == g.n * Scale(f.n)
<1>3. x \in Int /\ y \in Int
  BY <1>1, <1>2
<1>4. /\ TextBefore(f.n, g.n) <=> x < y \/ (x = y /\ f.n < g.n)
      /\ TextBefore(g.n, f.n) <=> y < x \/ (y = x /\ g.n < f.n)
      /\ f.n = g.n => x = y
  BY DEF TextBefore
<1> HIDE DEF x, y
<1>5. TextBefore(f.n, g.n) => ~TextBefore(g.n, f.n) /\ f.n # g.n
  BY <1>1, <1>3, <1>4
<1>6. QED
  BY <1>1, <1>5 DEF Before

(* Up to nine files of one millisecond sort by their numbers.                *)
LEMMA OneDigitNames ==
  ASSUME NEW m \in Nat, NEW n \in Nat, m < n, n <= 9
  PROVE  TextBefore(m, n)
<1>1. Scale(m) = 10 /\ Scale(n) = 10
  BY ScaleIs
<1>2. QED
  BY <1>1 DEF TextBefore

(* The request under way is the one whose effect is expected.                *)
LEMMA ExpectedIs ==
  /\ req \in Mutations => Pending = req /\ Pending # NoRequest /\ Expected = Effect(index, req)
  /\ req \notin Mutations => Pending = NoRequest /\ Expected = index
BY DEF Mutations, Adds, Deletes, NoRequest, Pending, Expected

(* A document is flushed when a file has it.                                 *)
LEMMA FlushedIs ==
  \A id \in Ids : id \in Flushed <=> \E f \in Files : segments[f].docs[id] # NoDoc
BY DEF Flushed, Live

(* When all copies agree there are no two different ones.                    *)
LEMMA CopiesAgreeMeans ==
  ASSUME TypeOK, CopiesAgree, NEW id \in Ids,
         NEW x \in ({segments[f].docs[id] : f \in Files} \cup {buffered_index[id]}) \ {NoDoc},
         NEW y \in ({segments[f].docs[id] : f \in Files} \cup {buffered_index[id]}) \ {NoDoc}
  PROVE  x = y
<1> DEFINE all == {segments[f].docs[id] : f \in Files} \cup {buffered_index[id]}
           S == all \ {NoDoc}
<1>1. IsFiniteSet(S)
  <2>1. IsFiniteSet({segments[f].docs[id] : f \in Files})
    <3> DEFINE copy == [f \in Files |-> segments[f].docs[id]]
    <3>1. IsFiniteSet(Files)
      BY DEF TypeOK
    <3>2. copy \in Surjection(Files, Range(copy))
      BY DEF Surjection, Range
    <3>3. IsFiniteSet(Range(copy))
      BY <3>1, <3>2, FS_Surjection
    <3>4. Range(copy) = {segments[f].docs[id] : f \in Files}
      BY DEF Range
    <3>5. QED
      BY <3>3, <3>4
  <2>2. IsFiniteSet(all)
    BY <2>1, FS_AddElement
  <2>3. QED
    BY <2>2, FS_Subset
<1>2. Cardinality(S) <= 1
  BY DEF CopiesAgree
<1>3. SUFFICES ASSUME x # y PROVE FALSE
  OBVIOUS
<1>4. {x, y} \subseteq S
  OBVIOUS
<1>5. Cardinality({x, y}) <= Cardinality(S)
  BY <1>1, <1>4, FS_Subset
<1>6. Cardinality({x, y}) = 2
  <2>1. IsFiniteSet({x}) /\ Cardinality({x}) = 1 /\ y \notin {x}
    BY <1>3, FS_Singleton
  <2>2. Cardinality({x} \cup {y}) = Cardinality({x}) + 1
    BY <2>1, FS_AddElement
  <2>3. {x} \cup {y} = {x, y}
    OBVIOUS
  <2>4. QED
    BY <2>1, <2>2, <2>3
<1>7. Cardinality(S) \in Nat
  BY <1>1, FS_CardinalityType
<1>8. QED
  BY <1>2, <1>5, <1>6, <1>7

----------------------------------------------------------------------------
(* Opening the directory gives each id the document expected of it.          *)
LEMMA RecoveredIsExpected ==
  ASSUME IInv, CarefulInv, LogWritable, ~Cut,
         NEW order \in SetToSeqs(Files), InNameOrder(order)
  PROVE  Recovered(order) = Expected
<1>1. TypeOK /\ LiveDocsOnDisk /\ StageOK
  BY DEF IInv
<1>2. MergeAll(order) \in Map /\ Recovered(order) \in Map
  BY <1>1, MergeType, ReplayType DEF TypeOK, Recovered
<1>3. Expected \in Map
  BY <1>1, ExpectedIs, EffectType DEF TypeOK
<1>4. ASSUME NEW id \in Ids PROVE Recovered(order)[id] = Expected[id]
  <2>1. CASE Mentioned(id)
    BY <2>1 DEF CarefulInv, LogIsCurrent, Mentioned, Recovered, Replay
  <2>2. CASE ~Mentioned(id)
    <3>1. Recovered(order)[id] = MergeAll(order)[id]
      BY <2>2 DEF Recovered, Replay, Mentioned
    <3>2. req \in Mutations => req.id # id
      BY <2>2 DEF CarefulInv, RequestIsCareful
    <3>3. Expected[id] = index[id]
      BY <1>1, <3>2, ExpectedIs DEF Effect, TypeOK, Map
    <3>4. CASE Holders(order, id) = {}
      <4>1. MergeAll(order)[id] = NoDoc /\ ~Held(id)
        BY <1>1, <3>4, MergeHolds DEF MergeAll, Held, TypeOK
      <4>2. ~Deleting(id)
        BY <1>1, <3>2 DEF Deleting, TypeOK, Requests, Mutations, Adds, Deletes
      <4>3. index[id] = NoDoc
        BY <1>1, <2>2, <4>1, <4>2 DEF LiveDocsOnDisk, LogWritable, Live, OnDisk, Mentioned
      <4>4. QED
        BY <3>1, <3>3, <4>1, <4>3
    <3>5. CASE Holders(order, id) # {}
      <4> DEFINE k == Max(Holders(order, id))
                 f == order[k]
      <4>1. /\ f \in Files /\ segments[f].docs[id] # NoDoc
            /\ MergeAll(order)[id] = segments[f].docs[id]
        BY <1>1, <3>5, HoldersIndices DEF MergeAll, TypeOK
      <4>2. /\ Holders(order, id) \subseteq 1..Cardinality(Files) /\ Cardinality(Files) \in Nat
            /\ DOMAIN order = 1..Cardinality(Files)
            /\ k \in Holders(order, id) /\ \A j \in Holders(order, id) : j <= k
        <5>1. DOMAIN order = 1..Cardinality(Files) /\ Cardinality(Files) \in Nat
          BY <1>1, OrderIsOnto, FS_CardinalityType DEF TypeOK
        <5>2. QED
          BY <3>5, <5>1, MaxOfIndices DEF Holders
      <4>3. ASSUME NEW g \in Files, Before(f, g), segments[g].docs[id] # NoDoc PROVE FALSE
        <5>1. PICK j \in DOMAIN order : order[j] = g
          BY <1>1, OrderIsOnto DEF TypeOK
        <5>2. j <= k /\ j \in Nat /\ k \in Nat
          <6>1. j \in Holders(order, id)
            BY <4>3, <5>1 DEF Holders
          <6> HIDE DEF k
          <6>2. QED
            BY <4>2, <6>1
        <5>3. f \in Names /\ g \in Names
          BY <1>1, <4>1 DEF TypeOK
        <5>4. ~Before(g, f) /\ f # g
          BY <4>3, <5>3, BeforeIsAsymmetric
        <5>5. j # k
          BY <5>1, <5>4
        <5>6. k \in DOMAIN order
          BY <4>2
        <5>7. QED
          BY <5>1, <5>2, <5>4, <5>5, <5>6 DEF InNameOrder
      <4>4. id \in Flushed
        BY <4>1, FlushedIs
      <4>5. index[id] # NoDoc
        BY <4>4 DEF CarefulInv, NoGhosts, Live
      <4>6. pc = "down" \/ buffered_index[id] = NoDoc
        BY <2>2 DEF CarefulInv, BufferIsCurrent, Live
      <4>7. Current(f, id)
        BY <2>2, <4>1, <4>3, <4>5, <4>6 DEF CarefulInv, NewestIsCurrent
      <4>8. QED
        BY <3>1, <3>3, <4>1, <4>7 DEF Current
    <3>6. QED
      BY <3>4, <3>5
  <2>3. QED
    BY <2>1, <2>2
<1>5. QED
  BY <1>2, <1>3, <1>4 DEF Map

----------------------------------------------------------------------------
(* A step that changes no document anywhere keeps the invariant.             *)
LEMMA QuietStep ==
  ASSUME IInv, CarefulInv, pc # "down", pc' # "down",
         UNCHANGED <<wal, segments, index, buffered_index>>, now' \in Nat, now <= now',
         req' # req => req \notin Mutations /\ req' \notin Mutations /\ req'.op # "compact",
         \/ segment_count' = segment_count
         \/ req' \notin Mutations /\ \E f \in Files : f.kind = "compacted"
  PROVE  CarefulInv'
<1> USE DEF Files, Current
<1>1. TypeOK /\ ~Cut /\ ~Cut' /\ \A f \in Files : f.ts \in Nat
  BY DEF IInv, TypeOK, Names, Cut
<1>2. TornIsEmpty' /\ NoGhosts'
  BY DEF CarefulInv, TornIsEmpty, NoGhosts, Flushed, Live
<1>3. RequestIsCareful'
  BY <1>1 DEF CarefulInv, RequestIsCareful, Mentioned, Mentions, Flushed, Live
<1>4. BufferIsCurrent'
  BY DEF CarefulInv, BufferIsCurrent, Mentioned, Mentions, Live
<1>5. LogIsCurrent'
  <2>1. Expected' = Expected
    BY ExpectedIs DEF Mutations, Adds, Deletes, Expected, Pending, Effect, NoRequest
  <2>2. QED
    BY <1>1, <2>1 DEF CarefulInv, LogIsCurrent, Mentioned, Mentions
<1>6. NewestIsCurrent'
  BY <1>1 DEF CarefulInv, NewestIsCurrent
<1>7. CompactedIsSettled'
  BY DEF CarefulInv, CompactedIsSettled, Settled
<1>8. OverwritesSortLast'
  <2>1. CASE segment_count' = segment_count
    BY <1>1, <2>1 DEF CarefulInv, OverwritesSortLast, Live, TypeOK
  <2>2. CASE \E f \in Files : f.kind = "compacted"
    BY <2>2 DEF CarefulInv, CompactedIsSettled, Settled, OverwritesSortLast, Live
  <2>3. QED
    BY <2>1, <2>2
<1>9. QED
  BY <1>2, <1>3, <1>4, <1>5, <1>6, <1>7, <1>8 DEF CarefulInv

(* A step that only changes files, and after which no copy is stale, keeps   *)
(* the invariant.                                                            *)
LEMMA SettledStep ==
  ASSUME IInv, CarefulInv, pc # "down", pc' # "down",
         UNCHANGED <<wal, index, buffered_index, req>>, req \notin Mutations,
         TornIsEmpty', Settled', Flushed' \subseteq Flushed
  PROVE  CarefulInv'
<1>1. ~Cut /\ ~Cut'
  BY DEF Cut
<1>2. RequestIsCareful' /\ NoGhosts'
  BY DEF CarefulInv, RequestIsCareful, NoGhosts, Live, Mutations, Adds, Deletes
<1>3. BufferIsCurrent'
  BY DEF CarefulInv, BufferIsCurrent, Mentioned, Mentions, Live
<1>4. LogIsCurrent'
  <2>1. Expected' = Expected
    BY DEF Expected, Pending, Effect
  <2>2. QED
    BY <1>1, <2>1 DEF CarefulInv, LogIsCurrent, Mentioned, Mentions
<1>5. NewestIsCurrent' /\ CompactedIsSettled' /\ OverwritesSortLast'
  BY DEF Settled, NewestIsCurrent, CompactedIsSettled, OverwritesSortLast, Live
<1>6. QED
  BY <1>2, <1>3, <1>4, <1>5 DEF CarefulInv

(* A record that reaches the log is the last one of its id.                  *)
LEMMA AppendStep ==
  ASSUME IInv, CarefulInv, NEW r \in Records, AppendJson(r), Careful
  PROVE  CarefulInv'
<1> USE DEF Files, Current, memory
<1>1. /\ TypeOK /\ ~Cut /\ ~Cut' /\ pc = "idle" /\ pc' = "json" /\ req = NoRequest /\ req' = r
      /\ wal' = Append(wal, r) /\ r \in Mutations /\ r.op \in {"add", "delete"}
      /\ UNCHANGED <<segments, index, buffered_index, segment_count, now>>
  BY DEF IInv, StageOK, AppendJson, Call, Cut, Records, Mutations, Adds, Deletes
<1>2. /\ Mentions(wal', r.id) # {} /\ wal'[Max(Mentions(wal', r.id))] = r
      /\ \A id : id # r.id => Mentions(wal', id) = Mentions(wal, id)
      /\ \A k \in 1..Len(wal) : wal'[k] = wal[k]
  <2>1. wal \in Seq(Records)
    BY <1>1 DEF TypeOK
  <2> DEFINE log == Append(wal, r)
  <2>2. /\ Mentions(log, r.id) # {} /\ log[Max(Mentions(log, r.id))] = r
        /\ \A id : id # r.id => Mentions(log, id) = Mentions(wal, id)
        /\ \A k \in 1..Len(wal) : log[k] = wal[k]
    BY <2>1, MentionsAppend
  <2>3. wal' = log
    BY <1>1
  <2> HIDE DEF log
  <2>4. QED
    BY <2>2, <2>3
<1>3. TornIsEmpty' /\ NoGhosts'
  BY <1>1 DEF CarefulInv, TornIsEmpty, NoGhosts, Flushed, Live
<1>4. RequestIsCareful'
  <2>1. r # NoRequest
    BY <1>1 DEF NoRequest
  <2>2. QED
    BY <1>1, <1>2, <2>1 DEF Careful, RequestIsCareful, Mentioned, Flushed, Live
<1>5. BufferIsCurrent'
  BY <1>1, <1>2 DEF CarefulInv, BufferIsCurrent, Mentioned, Live
<1>6. LogIsCurrent'
  <2>1. Expected' = Effect(index, r) /\ Expected = index
    BY <1>1, ExpectedIs DEF Expected, Pending, Effect, Mutations, Adds, Deletes, NoRequest
  <2>2. ASSUME NEW id \in Ids, Mentions(wal', id) # {}
        PROVE  wal'[Max(Mentions(wal', id))].doc = Expected'[id]
    <3>1. CASE id = r.id
      BY <1>1, <1>2, <2>1, <3>1 DEF Effect, TypeOK, Map
    <3>2. CASE id # r.id
      <4>1. Mentions(wal', id) = Mentions(wal, id) /\ Mentions(wal, id) # {}
        BY <1>2, <2>2, <3>2
      <4>2. Max(Mentions(wal, id)) \in 1..Len(wal)
        BY <1>1, <4>1, MentionsIndices DEF TypeOK
      <4>3. wal[Max(Mentions(wal, id))].doc = index[id]
        BY <1>1, <2>1, <4>1 DEF CarefulInv, LogIsCurrent, Mentioned
      <4>4. Effect(index, r)[id] = index[id]
        BY <1>1, <3>2 DEF Effect, TypeOK, Map
      <4>5. QED
        BY <1>2, <2>1, <4>1, <4>2, <4>3, <4>4
    <3>3. QED
      BY <3>1, <3>2
  <2>3. QED
    BY <2>2 DEF LogIsCurrent, Mentioned
<1>7. NewestIsCurrent' /\ CompactedIsSettled' /\ OverwritesSortLast'
  BY <1>1 DEF CarefulInv, NewestIsCurrent, CompactedIsSettled, Settled, OverwritesSortLast, Live
<1>8. QED
  BY <1>3, <1>4, <1>5, <1>6, <1>7 DEF CarefulInv

(* A change that is applied is in the log, and no older file overrules it.   *)
LEMMA ApplyStep ==
  ASSUME IInv, CarefulInv, ApplyAdd \/ ApplyDelete
  PROVE  CarefulInv'
<1> USE DEF Files, Current, disk
<1>1. /\ TypeOK /\ ~Cut /\ ~Cut' /\ pc = "logged" /\ pc' \in {"idle", "flush"}
      /\ req \in Mutations /\ req' \notin Mutations /\ req'.op # "compact"
      /\ index' = Effect(index, req) /\ buffered_index' = Effect(buffered_index, req)
      /\ UNCHANGED <<wal, segments, segment_count, now>>
  BY DEF IInv, StageOK, ApplyAdd, ApplyDelete, Return, Cut, NoRequest, Mutations, Adds, Deletes
<1>2. /\ req.id \in Ids /\ index'[req.id] = req.doc /\ buffered_index'[req.id] = req.doc
      /\ req.op \in {"add", "delete"}
      /\ req.op = "add" => req.doc # NoDoc
      /\ \A id \in Ids : id # req.id =>
           index'[id] = index[id] /\ buffered_index'[id] = buffered_index[id]
  BY <1>1, NoDocAssumption DEF TypeOK, Map, Effect, Mutations, Adds, Deletes
<1>3. RequestIsCareful
  BY DEF CarefulInv
<1>4. TornIsEmpty' /\ RequestIsCareful'
  BY <1>1 DEF CarefulInv, TornIsEmpty, RequestIsCareful
<1>5. BufferIsCurrent'
  BY <1>1, <1>2, <1>3 DEF CarefulInv, RequestIsCareful, BufferIsCurrent, Mentioned, Mentions, Live
<1>6. LogIsCurrent'
  <2>1. Expected' = index' /\ Expected = index'
    BY <1>1, ExpectedIs DEF Expected, Pending, Mutations
  <2>2. QED
    BY <1>1, <2>1 DEF CarefulInv, LogIsCurrent, Mentioned, Mentions
<1>7. req.op = "delete" => \A f \in Files : segments[f].docs[req.id] = NoDoc
  <2>1. req.op = "delete" => req.id \notin Flushed
    BY <1>1, <1>3 DEF RequestIsCareful
  <2>2. QED
    BY <1>2, <2>1, FlushedIs
<1>8. NoGhosts'
  BY <1>1, <1>2, <1>7 DEF CarefulInv, NoGhosts, Flushed, Live
<1>9. NewestIsCurrent'
  <2> SUFFICES ASSUME NEW id \in Ids, buffered_index'[id] = NoDoc, NEW f \in Files
               PROVE  \/ segments[f].docs[id] \in {NoDoc, index'[id]}
                      \/ \E g \in Files : Before(f, g) /\ segments[g].docs[id] = index'[id]
    BY <1>1 DEF NewestIsCurrent
  <2>1. CASE id = req.id
    <3>1. req.op = "delete"
      BY <1>2, <2>1
    <3>2. QED
      BY <1>7, <2>1, <3>1
  <2>2. CASE id # req.id
    BY <1>1, <1>2, <2>2 DEF CarefulInv, NewestIsCurrent
  <2>3. QED
    BY <2>1, <2>2
<1>10. CompactedIsSettled'
  <2> SUFFICES ASSUME \E f \in Files : f.kind = "compacted", NEW f \in Files, NEW id \in Ids
               PROVE  segments[f].docs[id] \in {NoDoc, index'[id]}
    BY <1>1 DEF CompactedIsSettled, Settled
  <2>1. CASE id = req.id
    <3>1. req.id \notin Flushed
      <4>1. ~(\A g \in Files : g.kind = "flush")
        OBVIOUS
      <4>2. QED
        BY <1>1, <1>2, <1>3, <4>1 DEF RequestIsCareful
    <3>2. QED
      BY <2>1, <3>1, FlushedIs
  <2>2. CASE id # req.id
    BY <1>2, <2>2 DEF CarefulInv, CompactedIsSettled, Settled
  <2>3. QED
    BY <2>1, <2>2
<1>11. OverwritesSortLast'
  <2> SUFFICES ASSUME NEW f \in Files, NEW id \in Ids, buffered_index'[id] # NoDoc
               PROVE  \/ segments[f].docs[id] \in {NoDoc, index'[id]}
                      \/ f.ts < now \/ segment_count < 9
    BY <1>1 DEF OverwritesSortLast, Live
  <2>1. CASE id = req.id
    <3>1. req.id \notin Flushed => segments[f].docs[id] = NoDoc
      BY <2>1, FlushedIs
    <3>2. req.op = "add" /\ req.id \in Flushed => segment_count < 9
      BY <1>1, <1>3 DEF RequestIsCareful
    <3>3. CASE segments[f].docs[id] = NoDoc
      BY <3>3
    <3>4. CASE req.op = "add" /\ req.id \in Flushed
      BY <3>2, <3>4
    <3>5. CASE req.op = "delete"
      BY <1>7, <2>1, <3>5
    <3>6. QED
      BY <1>2, <3>1, <3>3, <3>4, <3>5
  <2>2. CASE id # req.id
    BY <1>2, <2>2 DEF CarefulInv, OverwritesSortLast, Live
  <2>3. QED
    BY <2>1, <2>2
<1>12. QED
  BY <1>4, <1>5, <1>6, <1>8, <1>9, <1>10, <1>11 DEF CarefulInv

(* When all copies of every id agree, they are those queries see.            *)
LEMMA AgreeingIsSettled ==
  ASSUME IInv, CarefulInv, pc # "down", CopiesAgree
  PROVE  Settled
<1>1. TypeOK /\ ~Cut
  BY DEF IInv, Cut
<1> SUFFICES ASSUME NEW f \in Files, NEW id \in Ids, segments[f].docs[id] # NoDoc
             PROVE  segments[f].docs[id] = index[id]
  BY DEF Settled, Current
<1>2. index[id] # NoDoc
  BY FlushedIs DEF CarefulInv, NoGhosts, Live
<1>3. CASE buffered_index[id] # NoDoc
  <2>1. buffered_index[id] = index[id]
    BY <1>3 DEF CarefulInv, BufferIsCurrent, Live
  <2>2. QED
    BY <1>1, <1>3, <2>1, CopiesAgreeMeans
<1>4. CASE buffered_index[id] = NoDoc
  <2>1. segments[f].docs[id] = index[id] \/ \E g \in Files : segments[g].docs[id] = index[id]
    BY <1>1, <1>4 DEF CarefulInv, NewestIsCurrent, Current
  <2>2. CASE segments[f].docs[id] = index[id]
    BY <2>2
  <2>3. ASSUME NEW g \in Files, segments[g].docs[id] = index[id]
        PROVE  segments[f].docs[id] = segments[g].docs[id]
    <3> DEFINE all == ({segments[h].docs[id] : h \in Files} \cup {buffered_index[id]}) \ {NoDoc}
    <3>1. segments[f].docs[id] \in all /\ segments[g].docs[id] \in all
      BY <1>2, <2>3
    <3>2. QED
      BY <1>1, <3>1, CopiesAgreeMeans
  <2>4. QED
    BY <2>1, <2>2, <2>3
<1>5. QED
  BY <1>3, <1>4

(* A compaction begins when all copies agree.                                *)
LEMMA CompactStep ==
  ASSUME IInv, CarefulInv, CompactCalled, Careful
  PROVE  CarefulInv'
<1> USE DEF disk, memory
<1>1. /\ TypeOK /\ pc = "idle" /\ pc' # "down" /\ req = NoRequest /\ req' = [op |-> "compact"]
      /\ UNCHANGED <<wal, segments, index, buffered_index, now>>
  BY DEF IInv, StageOK, CompactCalled, Call
<1>2. CopiesAgree
  BY <1>1 DEF Careful, NoRequest
<1>3. Settled
  BY <1>1, <1>2, AgreeingIsSettled
<1>4. req \notin Mutations /\ req' \notin Mutations
  BY <1>1 DEF NoRequest, Mutations, Adds, Deletes
<1> USE DEF Files, Current
<1>5. Settled' /\ TornIsEmpty' /\ NoGhosts'
  BY <1>1, <1>3 DEF CarefulInv, Settled, TornIsEmpty, NoGhosts, Flushed, Live
<1>6. LogIsCurrent'
  <2>1. Expected' = Expected
    BY <1>1, <1>4, ExpectedIs DEF Expected, Pending, Mutations
  <2>2. QED
    BY <1>1, <2>1 DEF CarefulInv, LogIsCurrent, Mentioned, Mentions, Cut
<1>7. RequestIsCareful' /\ BufferIsCurrent'
  BY <1>1, <1>4 DEF CarefulInv, RequestIsCareful, BufferIsCurrent, Mentioned, Mentions, Live,
     Mutations, Adds, Deletes
<1>8. NewestIsCurrent' /\ CompactedIsSettled' /\ OverwritesSortLast'
  BY <1>5 DEF Settled, NewestIsCurrent, CompactedIsSettled, OverwritesSortLast, Live
<1>9. QED
  BY <1>5, <1>6, <1>7, <1>8 DEF CarefulInv

----------------------------------------------------------------------------
(* A new file that replaces one replaces an empty one, unless no copy is     *)
(* stale.                                                                    *)
LEMMA CreateStep ==
  ASSUME IInv, CarefulInv, CreateSegment
  PROVE  CarefulInv'
<1> USE DEF Files, memory
<1>1. /\ TypeOK /\ StageOK /\ NamesUsed /\ pc = "flush" /\ pc' = "write"
      /\ UNCHANGED <<wal, index, buffered_index, segment_count, now, req>>
      /\ out' = FlushName(now, segment_count + 1)
      /\ segments' = WithFile(out', Torn)
  BY DEF IInv, CreateSegment
<1>2. /\ out'.kind = "flush" /\ out'.ts = now /\ out'.n = segment_count + 1
      /\ DOMAIN segments' = DOMAIN segments \cup {out'}
      /\ segments'[out'] = Torn
      /\ \A f \in DOMAIN segments : f # out' => segments'[f] = segments[f]
  BY <1>1 DEF FlushName, WithFile
<1>3. Torn.docs = Empty /\ ~Torn.whole /\ \A id \in Ids : Empty[id] = NoDoc
  BY DEF Torn, Empty
<1>4. req \notin Mutations
  BY <1>1 DEF StageOK, Mutations, Adds, Deletes
<1>5. TornIsEmpty'
  BY <1>2, <1>3 DEF CarefulInv, TornIsEmpty
<1>6. \A f \in DOMAIN segments', id \in Ids :
        \/ segments'[f].docs[id] = NoDoc
        \/ (f \in DOMAIN segments /\ segments'[f] = segments[f])
  BY <1>2, <1>3
<1>7. Flushed' \subseteq Flushed
  BY <1>6 DEF Flushed, Live
<1>8. CASE Settled
  <2>1. Settled'
    BY <1>1, <1>6, <1>8 DEF Settled, Current
  <2>2. QED
    BY <1>1, <1>4, <1>5, <1>7, <2>1, SettledStep
<1>9. CASE ~Settled
  <2>1. out' \in DOMAIN segments => ~segments[out'].whole
    <3>1. ~\E g \in DOMAIN segments : g.kind = "compacted"
      BY <1>9 DEF CarefulInv, CompactedIsSettled
    <3>2. ~\E g \in DOMAIN segments : Covers(g, out')
      BY <3>1 DEF Covers
    <3>3. QED
      BY <1>1, <1>2, <3>2 DEF NamesUsed, TypeOK
  <2>2. \A f \in DOMAIN segments : segments'[f].docs = segments[f].docs
    BY <1>2, <1>3, <2>1 DEF CarefulInv, TornIsEmpty
  <2>3. RequestIsCareful' /\ BufferIsCurrent'
    BY <1>1, <1>4 DEF CarefulInv, RequestIsCareful, BufferIsCurrent, Mentioned, Mentions, Live,
       Mutations, Adds, Deletes
  <2>4. LogIsCurrent'
    <3>1. Expected' = Expected
      BY <1>1 DEF Expected, Pending, Effect
    <3>2. QED
      BY <1>1, <3>1 DEF CarefulInv, LogIsCurrent, Mentioned, Mentions, Cut
  <2>5. NoGhosts'
    BY <1>1, <1>7 DEF CarefulInv, NoGhosts, Live
  <2>6. NewestIsCurrent'
    <3> SUFFICES ASSUME NEW id \in Ids, buffered_index[id] = NoDoc, NEW f \in DOMAIN segments'
                 PROVE  \/ segments'[f].docs[id] \in {NoDoc, index[id]}
                        \/ \E g \in DOMAIN segments' :
                             Before(f, g) /\ segments'[g].docs[id] = index[id]
      BY <1>1 DEF NewestIsCurrent, Current
    <3>1. CASE f \in DOMAIN segments
      <4>1. \/ segments[f].docs[id] \in {NoDoc, index[id]}
            \/ \E g \in DOMAIN segments : Before(f, g) /\ segments[g].docs[id] = index[id]
        BY <1>1, <3>1 DEF CarefulInv, NewestIsCurrent, Current, Cut
      <4>2. QED
        BY <1>2, <2>2, <3>1, <4>1
    <3>2. CASE f = out'
      BY <1>2, <1>3, <3>2
    <3>3. QED
      BY <1>2, <3>1, <3>2
  <2>7. CompactedIsSettled'
    BY <1>1, <1>2, <1>9 DEF CarefulInv, CompactedIsSettled
  <2>8. OverwritesSortLast'
    BY <1>1, <1>2, <1>3, <2>2 DEF CarefulInv, OverwritesSortLast, Live, Current
  <2>9. QED
    BY <1>5, <2>3, <2>4, <2>5, <2>6, <2>7, <2>8 DEF CarefulInv
<1>10. QED
  BY <1>8, <1>9

(* The file a flush writes sorts after every stale copy of what it holds.    *)
LEMMA FinishStep ==
  ASSUME IInv, CarefulInv, FinishSegment
  PROVE  CarefulInv'
<1> USE DEF Files
<1>1. /\ TypeOK /\ StageOK /\ NamesUsed /\ WritesNewFile /\ NamesAreNew
      /\ pc = "write" /\ pc' = "truncate"
      /\ UNCHANGED <<wal, index, now, req>> /\ buffered_index' = Empty
      /\ out = FlushName(now, segment_count + 1) /\ out \in DOMAIN segments
      /\ segments[out] = Torn
  BY DEF IInv, WritesNewFile, FinishSegment
<1>2. /\ out.kind = "flush" /\ out.ts = now /\ out.n = segment_count + 1
      /\ DOMAIN segments' = DOMAIN segments
      /\ segments'[out].docs = buffered_index /\ segments'[out].whole
      /\ \A f \in DOMAIN segments : f # out => segments'[f] = segments[f]
  BY <1>1 DEF FinishSegment, FlushName, Whole, TypeOK
<1>3. \A id \in Ids : segments[out].docs[id] = NoDoc /\ Empty[id] = NoDoc
  BY <1>1 DEF Torn, Empty
<1>4. req \notin Mutations
  BY <1>1 DEF StageOK, Mutations, Adds, Deletes
<1>5. TornIsEmpty'
  BY <1>2 DEF CarefulInv, TornIsEmpty
<1>6. \A id \in Ids : buffered_index[id] \in {NoDoc, index[id]}
  BY DEF CarefulInv, BufferIsCurrent, Live
<1>7. RequestIsCareful' /\ BufferIsCurrent' /\ OverwritesSortLast'
  BY <1>1, <1>3, <1>4 DEF RequestIsCareful, BufferIsCurrent, OverwritesSortLast, Live, Mutations,
     Adds, Deletes
<1>8. LogIsCurrent'
  <2>1. Expected' = Expected
    BY <1>1 DEF Expected, Pending, Effect
  <2>2. QED
    BY <1>1, <2>1 DEF CarefulInv, LogIsCurrent, Mentioned, Mentions, Cut
<1>9. NoGhosts'
  <2> SUFFICES ASSUME NEW f \in DOMAIN segments, NEW id \in Ids, segments'[f].docs[id] # NoDoc
               PROVE  index[id] # NoDoc
    BY <1>1, <1>2 DEF NoGhosts, Flushed, Live
  <2>1. CASE f = out
    BY <1>2, <1>6, <2>1
  <2>2. CASE f # out
    BY <1>2, <2>2, FlushedIs DEF CarefulInv, NoGhosts, Live
  <2>3. QED
    BY <2>1, <2>2
<1>10. NewestIsCurrent'
  <2> SUFFICES ASSUME NEW id \in Ids, NEW f \in DOMAIN segments,
                      segments'[f].docs[id] \notin {NoDoc, index[id]}
               PROVE  \E g \in DOMAIN segments :
                        Before(f, g) /\ segments'[g].docs[id] = index[id]
    BY <1>1, <1>2 DEF NewestIsCurrent, Current
  <2>1. f # out /\ segments[f].docs[id] \notin {NoDoc, index[id]}
    BY <1>2, <1>6
  <2>2. index[id] # NoDoc
    BY <2>1, FlushedIs DEF CarefulInv, NoGhosts, Live
  <2>3. CASE buffered_index[id] = NoDoc
    <3>1. PICK g \in DOMAIN segments : Before(f, g) /\ segments[g].docs[id] = index[id]
      BY <1>1, <2>1, <2>3 DEF CarefulInv, NewestIsCurrent, Current, Cut
    <3>2. g # out
      BY <1>3, <2>2, <3>1
    <3>3. QED
      BY <1>2, <3>1, <3>2
  <2>4. CASE buffered_index[id] # NoDoc
    <3>1. segments'[out].docs[id] = index[id]
      BY <1>2, <1>6, <2>4
    <3>2. ~\E g \in DOMAIN segments : g.kind = "compacted"
      BY <2>1 DEF CarefulInv, CompactedIsSettled, Settled, Current
    <3>3. f.kind = "flush" /\ f.ts \in Nat /\ f.n \in Nat /\ now \in Nat /\ segment_count \in Nat
      BY <1>1, <3>2 DEF TypeOK, Names
    <3>4. segments[f].whole
      BY <1>1, <1>3, <2>1 DEF CarefulInv, TornIsEmpty, Torn
    <3>5. f.ts < now \/ segment_count < 9
      BY <2>1, <2>4 DEF CarefulInv, OverwritesSortLast, Live, Current
    <3>6. f.ts < now \/ (f.ts = now /\ f.n <= segment_count)
      BY <1>1, <3>2, <3>3, <3>4 DEF NamesUsed, Covers
    <3>7. Before(f, out)
      <4>1. CASE f.ts < now
        BY <1>2, <3>3, <4>1 DEF Before
      <4>2. CASE f.ts = now /\ f.n <= segment_count /\ segment_count < 9
        <5>1. TextBefore(f.n, segment_count + 1)
          BY <3>3, <4>2, OneDigitNames
        <5>2. QED
          BY <1>2, <3>3, <4>2, <5>1 DEF Before
      <4>3. QED
        BY <3>3, <3>5, <3>6, <4>1, <4>2
    <3>8. QED
      BY <1>1, <3>1, <3>7
  <2>5. QED
    BY <2>3, <2>4
<1>11. CompactedIsSettled'
  BY <1>1, <1>2, <1>6 DEF CarefulInv, CompactedIsSettled, Settled, Current
<1>12. QED
  BY <1>5, <1>7, <1>8, <1>9, <1>10, <1>11 DEF CarefulInv

(* The log is truncated when the buffer is empty: the files have it all.     *)
LEMMA TruncateStep ==
  ASSUME IInv, CarefulInv, TruncateLog
  PROVE  CarefulInv'
<1> USE DEF Files, memory, Current
<1>1. /\ StageOK /\ pc = "truncate" /\ pc' # "down" /\ wal' = <<>>
      /\ UNCHANGED <<segments, index, buffered_index, segment_count, now>>
      /\ buffered_index = Empty /\ req' \in {req, NoRequest}
  BY DEF IInv, BufferMatchesLog, TruncateLog, Return
<1>2. \A id \in Ids : buffered_index[id] = NoDoc
  BY <1>1 DEF Empty
<1>3. req' \notin Mutations /\ ~\E id \in Ids : Mentions(wal', id) # {}
  BY <1>1 DEF StageOK, Mutations, Adds, Deletes, NoRequest, Mentions
<1>4. TornIsEmpty' /\ NoGhosts'
  BY <1>1 DEF CarefulInv, TornIsEmpty, NoGhosts, Flushed, Live
<1>5. RequestIsCareful' /\ BufferIsCurrent' /\ LogIsCurrent' /\ OverwritesSortLast'
  BY <1>1, <1>2, <1>3 DEF RequestIsCareful, BufferIsCurrent, LogIsCurrent, OverwritesSortLast,
     Live, Mentioned, Mutations, Adds, Deletes
<1>6. NewestIsCurrent'
  BY <1>1 DEF CarefulInv, NewestIsCurrent, Cut
<1>7. CompactedIsSettled'
  <2>1. req'.op = "compact" => req.op = "compact"
    BY <1>1 DEF NoRequest
  <2>2. QED
    BY <1>1, <2>1 DEF CarefulInv, CompactedIsSettled, Settled
<1>8. QED
  BY <1>4, <1>5, <1>6, <1>7 DEF CarefulInv

(* Merging files of which no copy is stale, in any order, keeps every copy.  *)
LEMMA MergeStep ==
  ASSUME IInv, CarefulInv, MergeSegments
  PROVE  CarefulInv'
<1> USE DEF Files, memory
<1>1. /\ TypeOK /\ StageOK /\ pc = "list" /\ pc' = "remove" /\ req.op = "compact"
      /\ UNCHANGED <<wal, index, buffered_index, req>> /\ Settled
  BY DEF IInv, StageOK, MergeSegments, CarefulInv, CompactedIsSettled
<1>2. PICK order \in SetToSeqs(DOMAIN segments) : segments' = WithFile(out', Whole(MergeAll(order)))
  BY DEF MergeSegments
<1>3. /\ DOMAIN segments' = DOMAIN segments \cup {out'}
      /\ segments'[out'].docs = MergeAll(order) /\ segments'[out'].whole
      /\ \A f \in DOMAIN segments : f # out' => segments'[f] = segments[f]
  BY <1>2 DEF WithFile, Whole
<1>4. \A id \in Ids : MergeAll(order)[id] \in {NoDoc, index[id]}
  <2> SUFFICES ASSUME NEW id \in Ids, Holders(order, id) # {}
               PROVE  MergeAll(order)[id] = index[id]
    BY DEF MergeAll
  <2> DEFINE f == order[Max(Holders(order, id))]
  <2>1. MergeAll(order)[id] = segments[f].docs[id]
    BY DEF MergeAll
  <2>2. f \in DOMAIN segments /\ segments[f].docs[id] # NoDoc
    BY <1>1, HoldersIndices DEF TypeOK
  <2>3. QED
    BY <1>1, <2>1, <2>2 DEF Settled, Current
<1>5. Settled'
  BY <1>1, <1>3, <1>4 DEF Settled, Current
<1>6. TornIsEmpty'
  BY <1>3 DEF CarefulInv, TornIsEmpty
<1>7. Flushed' \subseteq Flushed
  <2> SUFFICES ASSUME NEW f \in DOMAIN segments', NEW id \in Ids, segments'[f].docs[id] # NoDoc
               PROVE  \E g \in DOMAIN segments : segments[g].docs[id] # NoDoc
    BY DEF Flushed, Live
  <2>1. CASE f = out'
    BY <1>1, <1>3, <2>1, MergeHolds DEF TypeOK
  <2>2. CASE f # out'
    BY <1>3, <2>2
  <2>3. QED
    BY <2>1, <2>2
<1>8. req \notin Mutations
  BY <1>1 DEF Mutations, Adds, Deletes
<1>9. QED
  BY <1>1, <1>5, <1>6, <1>7, <1>8, SettledStep

(* Removing a file of which no copy is stale leaves no stale copy.           *)
LEMMA RemoveStep ==
  ASSUME IInv, CarefulInv, RemoveSource
  PROVE  CarefulInv'
<1> USE DEF Files, memory
<1>1. /\ pc = "remove" /\ pc' = "remove" /\ req.op = "compact"
      /\ UNCHANGED <<wal, index, buffered_index, req>> /\ Settled
  BY DEF IInv, StageOK, RemoveSource, CarefulInv, CompactedIsSettled
<1>2. /\ DOMAIN segments' \subseteq DOMAIN segments
      /\ \A f \in DOMAIN segments' : segments'[f] = segments[f]
  BY DEF RemoveSource, Restrict
<1>3. Settled' /\ TornIsEmpty'
  BY <1>1, <1>2 DEF CarefulInv, Settled, Current, TornIsEmpty
<1>4. Flushed' \subseteq Flushed
  BY <1>2 DEF Flushed, Live
<1>5. req \notin Mutations
  BY <1>1 DEF Mutations, Adds, Deletes
<1>6. QED
  BY <1>1, <1>3, <1>4, <1>5, SettledStep

----------------------------------------------------------------------------
(* A crash takes the buffer, and maybe half a record, but nothing else.      *)
LEMMA CrashStep ==
  ASSUME IInv, CarefulInv, Crash
  PROVE  CarefulInv'
<1> USE DEF Files, Current
<1>1. /\ TypeOK /\ StageOK /\ pc # "down" /\ pc' = "down" /\ ~Cut
      /\ UNCHANGED <<segments, index>> /\ buffered_index' = Empty /\ segment_count' = 0
      /\ req' = IF pc \in {"json", "logged"} THEN req ELSE NoRequest
      /\ ~Cut' => wal' = wal
  BY DEF IInv, Crash, Cut
<1>2. /\ req' \in Mutations => req' = req
      /\ req \in Mutations => req' = req
      /\ req'.op # "compact" /\ \A id \in Ids : Empty[id] = NoDoc
  BY <1>1 DEF TypeOK, StageOK, NoRequest, Mutations, Adds, Deletes, Empty
<1>3. TornIsEmpty' /\ NoGhosts' /\ CompactedIsSettled'
  BY <1>1, <1>2 DEF CarefulInv, TornIsEmpty, NoGhosts, CompactedIsSettled, Settled, Flushed, Live
<1>4. RequestIsCareful'
  BY <1>1, <1>2 DEF CarefulInv, RequestIsCareful, Mentioned, Mentions, Flushed, Live
<1>5. BufferIsCurrent' /\ OverwritesSortLast'
  BY <1>1, <1>2 DEF BufferIsCurrent, OverwritesSortLast, Live
<1>6. LogIsCurrent'
  <2>1. Expected' = Expected
    BY <1>1, <1>2, ExpectedIs DEF Expected, Pending, Effect, Mutations
  <2>2. QED
    BY <1>1, <2>1 DEF CarefulInv, LogIsCurrent, Mentioned, Mentions
<1>7. NewestIsCurrent'
  <2> SUFFICES ASSUME ~Cut', NEW id \in Ids, ~Mentioned(id), NEW f \in Files
               PROVE  Current(f, id) \/
                        \E g \in Files : Before(f, g) /\ segments[g].docs[id] = index[id]
    BY <1>1 DEF NewestIsCurrent, Mentioned, Mentions
  <2>1. buffered_index[id] = NoDoc
    BY DEF CarefulInv, BufferIsCurrent, Live
  <2>2. QED
    BY <1>1, <2>1 DEF CarefulInv, NewestIsCurrent
<1>8. QED
  BY <1>3, <1>4, <1>5, <1>6, <1>7 DEF CarefulInv

(* Opening the directory applies the request the crash fell into.            *)
LEMMA OpenStep ==
  ASSUME IInv, CarefulInv, LogWritable, Open
  PROVE  CarefulInv' /\ index' = Expected /\ req' = NoRequest
<1> USE DEF Files
<1>1. /\ TypeOK /\ NamesAreNew /\ pc = "down" /\ ~Cut /\ pc' = "idle" /\ ~Cut'
      /\ UNCHANGED <<wal, segments, now>> /\ req' = NoRequest
      /\ buffered_index' = Replay(Empty, wal)
  BY DEF IInv, Open, Openable, Return, Cut, disk
<1>2. PICK order \in SetToSeqs(Files) : InNameOrder(order) /\ index' = Recovered(order)
  BY DEF Open
<1>3. index' = Expected
  BY <1>1, <1>2, RecoveredIsExpected
<1>4. req' \notin Mutations /\ req'.op # "compact"
  BY <1>1 DEF NoRequest, Mutations, Adds, Deletes
<1>5. \A id \in Ids :
        buffered_index'[id] = IF Mentioned(id) THEN wal[Max(Mentions(wal, id))].doc ELSE NoDoc
  BY <1>1 DEF Replay, Mentioned, Empty
<1>6. \A id \in Ids : Mentioned(id) => wal[Max(Mentions(wal, id))].doc = index'[id]
  BY <1>1, <1>3 DEF CarefulInv, LogIsCurrent
<1>7. \A id \in Ids : ~Mentioned(id) => index'[id] = index[id]
  <2> SUFFICES ASSUME NEW id \in Ids, ~Mentioned(id) PROVE Expected[id] = index[id]
    BY <1>3
  <2>1. req \in Mutations => req.id # id
    BY <1>1 DEF CarefulInv, RequestIsCareful
  <2>2. QED
    BY <1>1, <2>1, ExpectedIs DEF Effect, TypeOK, Map
<1>8. \A id \in Ids : id \in Flushed => index'[id] # NoDoc
  <2> SUFFICES ASSUME NEW id \in Ids, id \in Flushed PROVE Expected[id] # NoDoc
    BY <1>3
  <2>1. index[id] # NoDoc
    BY DEF CarefulInv, NoGhosts, Live
  <2>2. req \in Mutations /\ req.id = id => req.doc # NoDoc
    BY NoDocAssumption DEF CarefulInv, RequestIsCareful, Mutations, Adds, Deletes
  <2>3. QED
    BY <1>1, <2>1, <2>2, ExpectedIs DEF Effect, TypeOK, Map
<1>9. TornIsEmpty'
  BY <1>1 DEF CarefulInv, TornIsEmpty
<1>10. RequestIsCareful'
  BY <1>4 DEF RequestIsCareful
<1>11. BufferIsCurrent'
  BY <1>1, <1>5, <1>6 DEF BufferIsCurrent, Live, Mentioned, Mentions
<1>12. LogIsCurrent'
  <2>1. Expected' = index'
    BY <1>1 DEF Expected, Pending
  <2>2. QED
    BY <1>1, <1>6, <2>1 DEF LogIsCurrent, Mentioned, Mentions
<1>13. NoGhosts'
  BY <1>1, <1>8 DEF NoGhosts, Flushed, Live
<1>14. NewestIsCurrent'
  <2> SUFFICES ASSUME NEW id \in Ids, buffered_index'[id] = NoDoc, NEW f \in Files,
                      segments[f].docs[id] \notin {NoDoc, index'[id]}
               PROVE  \E g \in Files : Before(f, g) /\ segments[g].docs[id] = index'[id]
    BY <1>1 DEF NewestIsCurrent, Current
  <2>1. ~Mentioned(id)
    BY <1>5, <1>6, <1>8, FlushedIs
  <2>2. QED
    BY <1>1, <1>7, <2>1 DEF CarefulInv, NewestIsCurrent, Current
<1>15. CompactedIsSettled'
  <2> SUFFICES ASSUME NEW h \in Files, h.kind = "compacted", NEW f \in Files, NEW id \in Ids,
                      segments[f].docs[id] # NoDoc
               PROVE  segments[f].docs[id] = Expected[id]
    BY <1>1, <1>3, <1>4 DEF CompactedIsSettled, Settled, Current
  <2>1. segments[f].docs[id] = index[id] /\ id \in Flushed
    BY FlushedIs DEF CarefulInv, CompactedIsSettled, Settled, Current
  <2>2. req \in Mutations => req.id # id
    BY <2>1 DEF CarefulInv, RequestIsCareful, Mutations, Adds, Deletes
  <2>3. QED
    BY <1>1, <2>1, <2>2, ExpectedIs DEF Effect, TypeOK, Map
<1>16. OverwritesSortLast'
  BY <1>1 DEF NamesAreNew, OverwritesSortLast
<1>17. QED
  BY <1>1, <1>3, <1>9, <1>10, <1>11, <1>12, <1>13, <1>14, <1>15, <1>16 DEF CarefulInv

----------------------------------------------------------------------------
(* An engine on a new directory satisfies the invariant.                     *)
LEMMA InitCareful == Init => CarefulInv
<1> SUFFICES ASSUME Init PROVE CarefulInv
  OBVIOUS
<1>1. Files = {} /\ req \notin Mutations /\ \A id \in Ids : Empty[id] = NoDoc
  BY DEF Init, Files, NoRequest, Mutations, Adds, Deletes, Empty
<1>2. QED
  BY <1>1 DEF Init, CarefulInv, TornIsEmpty, RequestIsCareful, BufferIsCurrent, LogIsCurrent,
     NoGhosts, NewestIsCurrent, CompactedIsSettled, OverwritesSortLast, Live, Flushed,
     Mentioned, Mentions, NoRequest

(* Every step careful clients allow keeps the invariant, while records reach *)
(* the log.                                                                  *)
LEMMA CarefulNext ==
  ASSUME IInv, CarefulInv, LogWritable, LogWritable', [Next /\ Careful]_vars
  PROVE  CarefulInv'
<1> USE DEF disk, memory, stage
<1>1. TypeOK /\ StageOK /\ OutputCovers
  BY DEF IInv
<1>2. ASSUME NEW r \in Records, AppendJson(r), Careful PROVE CarefulInv'
  BY <1>2, AppendStep
<1>3. CASE (\E r \in Records : AppendFails(r)) \/ NewlineFails
  BY <1>3 DEF AppendFails, NewlineFails, Fault, LogWritable
<1>4. CASE \/ AppendNewline \/ FlushCalled \/ SegmentFails \/ TruncateFails \/ NothingToMerge
           \/ MergeFails \/ RemoveFails \/ CompactDone \/ Tick
  <2>1. /\ pc # "down" /\ pc' # "down"
        /\ UNCHANGED <<wal, segments, index, buffered_index>>
    BY <1>4 DEF AppendNewline, FlushCalled, Call, SegmentFails, TruncateFails, NothingToMerge,
       MergeFails, RemoveFails, CompactDone, Tick, Return
  <2>2. now' \in Nat /\ now <= now'
    BY <1>1, <1>4 DEF AppendNewline, FlushCalled, Call, SegmentFails, TruncateFails,
       NothingToMerge, MergeFails, RemoveFails, CompactDone, Tick, TypeOK
  <2>3. req' # req => req \notin Mutations /\ req' \notin Mutations /\ req'.op # "compact"
    BY <1>1, <1>4 DEF AppendNewline, FlushCalled, Call, SegmentFails, TruncateFails,
       NothingToMerge, MergeFails, RemoveFails, CompactDone, Tick, Return, StageOK, NoRequest,
       Mutations, Adds, Deletes
  <2>4. \/ segment_count' = segment_count
        \/ req' \notin Mutations /\ \E f \in Files : f.kind = "compacted"
    <3>1. CASE CompactDone
      BY <1>1, <3>1 DEF CompactDone, Return, OutputCovers, Covers, NoRequest, Mutations, Adds,
         Deletes
    <3>2. CASE ~CompactDone
      BY <1>4, <3>2 DEF AppendNewline, FlushCalled, SegmentFails, TruncateFails,
         NothingToMerge, MergeFails, RemoveFails, Tick
    <3>3. QED
      BY <3>1, <3>2
  <2>5. QED
    BY <2>1, <2>2, <2>3, <2>4, QuietStep
<1>5. CASE ApplyAdd \/ ApplyDelete
  BY <1>5, ApplyStep
<1>6. ASSUME CompactCalled, Careful PROVE CarefulInv'
  BY <1>6, CompactStep
<1>7. CASE CreateSegment
  BY <1>7, CreateStep
<1>8. CASE FinishSegment
  BY <1>8, FinishStep
<1>9. CASE TruncateLog
  BY <1>9, TruncateStep
<1>10. CASE MergeSegments
  BY <1>10, MergeStep
<1>11. CASE RemoveSource
  BY <1>11, RemoveStep
<1>12. CASE Crash
  BY <1>12, CrashStep
<1>13. CASE Open
  BY <1>13, OpenStep
<1>14. CASE UNCHANGED vars
  <2>1. UNCHANGED <<wal, tail, segments, index, buffered_index, segment_count, pc, req, now>>
    BY <1>14 DEF vars
  <2>2. UNCHANGED <<Cut, Expected>>
    BY <2>1 DEF Cut, Expected, Pending, Effect
  <2>3. TornIsEmpty' /\ RequestIsCareful' /\ BufferIsCurrent' /\ LogIsCurrent'
    BY <2>1, <2>2 DEF CarefulInv, TornIsEmpty, RequestIsCareful, BufferIsCurrent, LogIsCurrent,
       Files, Flushed, Live, Mentioned, Mentions
  <2>4. NoGhosts' /\ NewestIsCurrent' /\ CompactedIsSettled' /\ OverwritesSortLast'
    BY <2>1, <2>2 DEF CarefulInv, NoGhosts, NewestIsCurrent, CompactedIsSettled, Settled,
       OverwritesSortLast, Current, Files, Flushed, Live, Mentioned, Mentions
  <2>5. QED
    BY <2>3, <2>4 DEF CarefulInv
<1>15. QED
  BY <1>2, <1>3, <1>4, <1>5, <1>6, <1>7, <1>8, <1>9, <1>10, <1>11, <1>12, <1>13, <1>14
  DEF Next, Query, Add, Proceed, Write, Flush, Compact, OpenFails

(* CarefulInv: with careful clients, and while every record reaches the log, *)
(* the stale copies in the files stay behind newer ones.                     *)
THEOREM CarefulInvariance == CarefulSpec /\ []LogWritable => [](IInv /\ CarefulInv)
<1>1. Init => IInv /\ CarefulInv
  BY InitInv, InitCareful
<1>2. IInv /\ [Next /\ Careful]_vars => IInv'
  BY NextInv
<1>3. IInv /\ CarefulInv /\ LogWritable /\ LogWritable' /\ [Next /\ Careful]_vars => CarefulInv'
  BY CarefulNext
<1>4. QED
  BY <1>1, <1>2, <1>3, PTL DEF CarefulSpec

(* RecoversExactly, for every set of ids and documents, whatever flush,      *)
(* truncation, merge or removal fails or is cut short by a crash: opening    *)
(* the directory gives what queries saw and the operation under way.         *)
THEOREM RestartIsExact == CarefulSpec /\ []LogWritable => []RecoversExactly
<1>1. IInv /\ CarefulInv => RecoversExactly
  <2> SUFFICES ASSUME IInv, CarefulInv, "append" \notin faults, Openable,
                      NEW order \in SetToSeqs(Files), InNameOrder(order)
               PROVE  Recovered(order) = Expected
    BY DEF RecoversExactly
  <2>1. LogWritable /\ ~Cut
    BY DEF LogWritable, Openable, Cut
  <2>2. QED
    BY <2>1, RecoveredIsExpected
<1>2. QED
  BY <1>1, CarefulInvariance, PTL

----------------------------------------------------------------------------
(* The first state of an engine is a first state of the store.               *)
LEMMA InitStore == Init => Store!Init
BY DEF Init, Store!Init, Pending, NoRequest, Adds, Deletes, Empty, Store!Empty, Store!NoRequest

(* Every step of the engine is a step of the store or none: a record that is *)
(* written asks, its application or the restart that replays it commits.     *)
LEMMA NextStore ==
  ASSUME IInv, CarefulInv, LogWritable, LogWritable', [Next /\ Careful]_vars
  PROVE  [Store!Next]_(Store!vars)
<1> USE DEF disk, memory, stage
<1>1. TypeOK /\ StageOK
  BY DEF IInv
<1>2. ASSUME index' = index, Pending' = Pending PROVE [Store!Next]_(Store!vars)
  BY <1>2 DEF Store!vars
<1>3. ASSUME index' = index, req' = req \/ (req \notin Mutations /\ req' \notin Mutations)
      PROVE  [Store!Next]_(Store!vars)
  BY <1>2, <1>3 DEF Pending, Mutations
<1>4. ASSUME NEW r \in Records, AppendJson(r) PROVE [Store!Next]_(Store!vars)
  <2>1. pc = "idle" /\ req = NoRequest /\ req' = r /\ index' = index /\ r \in Mutations
    BY <1>1, <1>4 DEF StageOK, AppendJson, Call, Records, Mutations
  <2>2. Pending = NoRequest /\ Pending' = r
    BY <2>1 DEF Pending, Mutations, Adds, Deletes, NoRequest
  <2>3. r \in Store!Requests /\ Store!NoRequest = NoRequest
    BY <2>1 DEF Mutations, Adds, Deletes, NoRequest, Store!Requests, Store!Adds, Store!Deletes,
       Store!NoRequest
  <2>4. Store!Ask(r)
    BY <2>1, <2>2, <2>3 DEF Store!Ask
  <2>5. QED
    BY <2>3, <2>4 DEF Store!Next
<1>5. CASE (\E r \in Records : AppendFails(r)) \/ NewlineFails
  BY <1>5 DEF AppendFails, NewlineFails, Fault, LogWritable
<1>6. ASSUME req \in Mutations, index' = Effect(index, req), req' \notin Mutations
      PROVE  [Store!Next]_(Store!vars)
  <2>1. Pending = req /\ Pending # NoRequest /\ Pending' = NoRequest
    BY <1>6 DEF Pending, Mutations, Adds, Deletes, NoRequest
  <2>2. Store!NoRequest = NoRequest /\ index' = Store!Effect(index, Pending)
    BY <1>6, <2>1 DEF Store!NoRequest, NoRequest, Effect, Store!Effect
  <2>3. Store!Commit
    BY <2>1, <2>2 DEF Store!Commit
  <2>4. QED
    BY <2>3 DEF Store!Next
<1>7. CASE ApplyAdd \/ ApplyDelete
  <2>1. /\ req \in Mutations /\ req' \notin Mutations /\ index' = Effect(index, req)
    BY <1>1, <1>7 DEF StageOK, ApplyAdd, ApplyDelete, Return, NoRequest, Mutations, Adds, Deletes
  <2>2. QED
    BY <1>6, <2>1
<1>8. CASE Open
  <2>1. index' = Expected /\ req' = NoRequest
    BY <1>8, OpenStep
  <2>2. req' \notin Mutations
    BY <2>1 DEF NoRequest, Mutations, Adds, Deletes
  <2>3. CASE req \in Mutations
    BY <1>6, <2>1, <2>2, <2>3, ExpectedIs
  <2>4. CASE req \notin Mutations
    BY <1>3, <2>1, <2>2, <2>4, ExpectedIs
  <2>5. QED
    BY <2>3, <2>4
<1>9. CASE Crash
  <2>1. index' = index /\ (req' = req \/ (req \notin Mutations /\ req' \notin Mutations))
    BY <1>1, <1>9 DEF Crash, TypeOK, StageOK, NoRequest, Mutations, Adds, Deletes
  <2>2. QED
    BY <1>3, <2>1
<1>10. CASE FlushCalled \/ CompactCalled \/ AppendNewline \/ Tick \/ Flush \/ Compact
  <2>1. index' = index
    BY <1>10 DEF FlushCalled, CompactCalled, AppendNewline, Tick, Flush, Compact, CreateSegment,
       FinishSegment, SegmentFails, TruncateLog, TruncateFails, NothingToMerge, MergeFails,
       MergeSegments, RemoveSource, RemoveFails, CompactDone
  <2>2. CASE FlushCalled \/ CompactCalled
    <3>1. req \notin Mutations /\ req' \notin Mutations
      BY <1>1, <2>2 DEF FlushCalled, CompactCalled, Call, StageOK, NoRequest, Mutations, Adds,
         Deletes
    <3>2. QED
      BY <1>3, <2>1, <3>1
  <2>3. CASE AppendNewline \/ Tick
    BY <1>3, <2>1, <2>3 DEF AppendNewline, Tick
  <2>4. CASE Flush \/ Compact
    <3>1. pc \in {"flush", "write", "truncate", "list", "remove"} /\ req' \in {req, NoRequest}
      BY <2>4 DEF Flush, Compact, CreateSegment, FinishSegment, SegmentFails, TruncateLog,
         TruncateFails, NothingToMerge, MergeFails, MergeSegments, RemoveSource, RemoveFails,
         CompactDone, Return
    <3>2. req \notin Mutations /\ NoRequest \notin Mutations
      BY <1>1, <3>1 DEF StageOK, NoRequest, Mutations, Adds, Deletes
    <3>3. QED
      BY <1>3, <2>1, <3>1, <3>2
  <2>5. QED
    BY <1>10, <2>2, <2>3, <2>4
<1>11. CASE UNCHANGED vars
  BY <1>3, <1>11 DEF vars
<1>12. QED
  BY <1>4, <1>5, <1>7, <1>8, <1>9, <1>10, <1>11
  DEF Next, Query, Add, Proceed, Write, OpenFails

(* ImplementsStore: with careful clients, and while every record reaches the *)
(* log, the engine is a DocumentStore through flushes, compactions, their    *)
(* failures, crashes and restarts.                                           *)
THEOREM EngineIsAStore == CarefulSpec /\ []LogWritable => ImplementsStore
<1>1. CarefulSpec => Init /\ [][Next /\ Careful]_vars
  BY PTL DEF CarefulSpec
<1>2. IInv /\ CarefulInv /\ LogWritable /\ LogWritable' /\ [Next /\ Careful]_vars
        => [Store!Next]_(Store!vars)
  BY NextStore
<1>3. QED
  BY <1>1, <1>2, InitStore, CarefulInvariance, PTL DEF Store!Spec, ImplementsStore

----------------------------------------------------------------------------
(* Where no file operation fails, every record reaches the log.              *)
LEMMA FaultlessLog ==
  ASSUME MaxFaults = 0
  PROVE  CarefulSpec => []LogWritable
<1> USE DEF disk, memory, stage
<1>1. Init => faults = {}
  BY DEF Init
<1>2. faults = {} /\ [Next /\ Careful]_vars => (faults = {})'
  <2> SUFFICES ASSUME faults = {}, [Next /\ Careful]_vars PROVE faults' = {}
    OBVIOUS
  <2>1. ASSUME NEW what, Fault(what) PROVE FALSE
    <3>1. faults' = {what} /\ Cardinality(faults') <= 0
      BY <2>1 DEF Fault
    <3>2. Cardinality({what}) = 1
      BY FS_Singleton
    <3>3. QED
      BY <3>1, <3>2
  <2>2. CASE Flush \/ Compact
    BY <2>1, <2>2 DEF Flush, Compact, CreateSegment, FinishSegment, SegmentFails,
       TruncateLog, TruncateFails, NothingToMerge, MergeFails, MergeSegments, RemoveSource,
       RemoveFails, CompactDone
  <2>3. CASE Add \/ Write
    BY <2>1, <2>3 DEF Add, AppendJson, AppendFails, Write, AppendNewline, NewlineFails,
       ApplyAdd, ApplyDelete
  <2>4. CASE FlushCalled \/ CompactCalled \/ Crash \/ Open \/ Tick
    BY <2>4 DEF FlushCalled, CompactCalled, Crash, Open, Tick
  <2>5. CASE UNCHANGED vars
    BY <2>5 DEF vars
  <2>6. QED
    BY <2>2, <2>3, <2>4, <2>5 DEF Next, Query, Proceed, OpenFails
<1>3. faults = {} => LogWritable
  BY DEF LogWritable
<1>4. QED
  BY <1>1, <1>2, <1>3, PTL DEF CarefulSpec

(* So on a disk that never fails a restart is exact and the engine a store,  *)
(* wherever the process is killed.                                           *)
THEOREM FaultlessEngine ==
  ASSUME MaxFaults = 0
  PROVE  CarefulSpec => []RecoversExactly /\ ImplementsStore
<1>1. CarefulSpec => []LogWritable
  BY FaultlessLog
<1>2. QED
  BY <1>1, RestartIsExact, EngineIsAStore, PTL
=============================================================================
