------------------------ MODULE EngineManagerProofs --------------------------
(* Theorems about EngineManager, for any number of threads, indexes and      *)
(* documents.                                                                *)
EXTENDS EngineManagerInvariant, FiniteSetTheorems, TLAPS

----------------------------------------------------------------------------
(* There is always a number no engine has.                                   *)
LEMMA FreshIsNew ==
  ASSUME IsFiniteSet(Live)
  PROVE  Fresh \in Nat \ {None} /\ Fresh \notin Live
<1> DEFINE c == Cardinality(Live)
           candidates == 1..(c + 1)
<1>1. c \in Nat
  BY FS_CardinalityType
<1>2. IsFiniteSet(candidates) /\ Cardinality(candidates) = c + 1
  <2>1. 1 \in Int /\ c + 1 \in Int /\ 1 <= c + 1 /\ c + 1 - 1 + 1 = c + 1
    BY <1>1
  <2>2. QED
    BY <2>1, FS_Interval
<1>3. ~(candidates \subseteq Live)
  <2>1. candidates \subseteq Live => Cardinality(candidates) <= Cardinality(Live)
    BY FS_Subset
  <2>2. QED
    BY <1>1, <1>2, <2>1
<1>4. \E e \in candidates : e \notin Live
  BY <1>3
<1>5. Fresh \in candidates /\ Fresh \notin Live
  BY <1>4 DEF Fresh
<1>6. QED
  BY <1>1, <1>5 DEF None

(* Numbering the members of a finite set from 1 on leaves no number out: each *)
(* engine a restart makes is that of an index it found.                      *)
LEMMA SlotsAreUsed ==
  ASSUME NEW S, IsFiniteSet(S), NEW slot \in [S -> 1..Cardinality(S)], IsInjective(slot)
  PROVE  \A k \in 1..Cardinality(S) : \E n \in S : slot[n] = k
<1> DEFINE T == 1..Cardinality(S)
<1>1. Cardinality(S) \in Nat
  BY FS_CardinalityType
<1>2. IsFiniteSet(T) /\ Cardinality(T) = Cardinality(S)
  BY <1>1, FS_Interval
<1>3. Range(slot) \subseteq T /\ slot \in Surjection(S, Range(slot))
  BY DEF Range, Surjection
<1>4. slot \in Injection(S, Range(slot))
  BY DEF Range, Injection, IsInjective
<1>5. Cardinality(Range(slot)) = Cardinality(S)
  BY <1>3, <1>4, FS_Surjection
<1>6. Range(slot) = T
  BY <1>2, <1>3, <1>5, FS_Subset
<1>7. QED
  BY <1>6 DEF Range

(* What opening a directory d finds.                                         *)
RecoveredOf(d) == (d.segments \cup With(d.log, "add")) \ With(d.log, "delete")

(* It is what a restart recovers of each index.                              *)
LEMMA RecoveredIsOf == \A n \in Names : Recovered(n) = RecoveredOf(disk[n])
BY DEF Recovered, RecoveredOf

(* Opening a directory gives an engine of its name that has what its log     *)
(* and its segments say.                                                     *)
LEMMA OpenedIs ==
  ASSUME TypeOK, NEW n \in Names
  PROVE  /\ Opened(n) \in Engines /\ Opened(n).name = n /\ Opened(n).linked
         /\ Opened(n).index = Recovered(n)
         /\ Opened(n).buffered = With(disk[n].log, "add")
<1>1. disk[n] \in Directories
  BY DEF TypeOK
<1>2. Recovered(n) \subseteq Ids /\ With(disk[n].log, "add") \subseteq Ids
  BY <1>1 DEF Recovered, With, Directories
<1>3. QED
  BY <1>2 DEF Opened, Engines

----------------------------------------------------------------------------
(* A step of a handler with the engine it refers to: the directory of its    *)
(* index becomes d, the engine becomes x, and the handler returns or stays.  *)
Working == {"waiting", "flush", "write", "list", "merge"}
Stays(h) == /\ \E stage \in Working : Goto(h, stage)
            /\ merged' \in [Handlers -> SUBSET Ids]
            /\ UNCHANGED <<req, ref, late>>
EngineStep(h, d, x) ==
  /\ pc[h] \in Working
  /\ UNCHANGED <<indexes, broken>>
  /\ disk' = [disk EXCEPT ![req[h].name] = d]
  /\ Return(h) \/ Stays(h)
  /\ DOMAIN engines' \subseteq Live
  /\ \A e \in Live : e \in Range(indexes') \cup Range(ref') => e \in DOMAIN engines'
  /\ engines' = [e \in DOMAIN engines' |-> IF e = ref[h] THEN x ELSE engines[e]]

\* It loses nothing the engine has, if it could be reopened before and is the
\* owner; without its log it only adds segments.
Good(d, x) == x.linked /\ x.index \subseteq RecoveredOf(d) /\ With(d.log, "add") \subseteq x.buffered
KeepsGood(owner, d0, x0, d, x) ==
  /\ d \in Directories /\ x \in Engines /\ x.name = x0.name /\ x.linked = x0.linked
  /\ d0.there => d.there
  /\ ~d.there => d = d0
  /\ ~x0.linked => d.log = d0.log /\ d0.segments \subseteq d.segments
  /\ owner /\ d0.there /\ Good(d0, x0) => Good(d, x)

(* Such a step keeps the invariant, if it changes the directory only through *)
(* the log that is linked there, or as its owner, or calls it stray.         *)
LEMMA EngineStepKeeps ==
  ASSUME ManagerInv, NEW h \in Handlers, NEW d, NEW x, EngineStep(h, d, x),
         KeepsGood(Owner(h), disk[req[h].name], engines[ref[h]], d, x),
         stray \subseteq stray', stray' \subseteq Names,
         d # disk[req[h].name] =>
           engines[ref[h]].linked \/ Owner(h) \/ req[h].name \in stray'
  PROVE  ManagerInv'
<1> DEFINE n == req[h].name
           i == ref[h]
<1> USE DEF Live
<1>1. /\ TypeOK /\ StagesOK /\ OneDeletion /\ MapOK /\ LinkedIsThere /\ GoneIsEmpty /\ OthersAreUnlinked
      /\ BufferHasLog /\ IndexesAreDurable /\ DeletedUnlessStray
  BY DEF ManagerInv
<1>2. /\ n \in Names /\ i \in DOMAIN engines /\ i # None /\ engines[i].name = n
      /\ req[h] \in Requests
  BY <1>1 DEF EngineStep, Working, StagesOK, Requests, TypeOK
<1>3. /\ pc' \in [Handlers -> {"idle", "waiting", "flush", "write", "list", "merge",
                               "remove", "reopen"}]
      /\ req' \in [Handlers -> Requests \cup {NoRequest}]
      /\ merged' \in [Handlers -> SUBSET Ids]
      /\ ref' \in [Handlers -> (DOMAIN engines) \cup {None}]
      /\ late' \subseteq Handlers
      /\ pc'[h] \notin {"remove", "reopen"}
      /\ \A k \in Handlers : k # h => /\ pc'[k] = pc[k] /\ req'[k] = req[k] /\ ref'[k] = ref[k]
                                      /\ k \in late' <=> k \in late
      /\ \/ pc'[h] = "idle" /\ ref'[h] = None
         \/ pc'[h] \in Working /\ req'[h] = req[h] /\ ref'[h] = ref[h] /\ late' = late
  <2>1. CASE Return(h)
    BY <1>1, <2>1 DEF Return, Goto, TypeOK
  <2>2. CASE Stays(h)
    BY <1>1, <2>2 DEF Stays, Goto, TypeOK, Working
  <2>3. QED
    BY <2>1, <2>2 DEF EngineStep
<1>4. /\ disk' \in [Names -> Directories] /\ disk'[n] = d
      /\ \A m \in Names : m # n => disk'[m] = disk[m]
  BY <1>1, <1>2 DEF EngineStep, KeepsGood, TypeOK
<1>5. /\ DOMAIN engines' \subseteq DOMAIN engines
      /\ \A k \in Handlers : ref'[k] # None => ref'[k] \in DOMAIN engines'
      /\ \A m \in Names : indexes[m] # None => indexes[m] \in DOMAIN engines'
      /\ \A e \in DOMAIN engines' : e # i => engines'[e] = engines[e]
      /\ i \in DOMAIN engines' => engines'[i] = x
      /\ \A e \in DOMAIN engines' :
           engines'[e].name = engines[e].name /\ engines'[e].linked = engines[e].linked
  <2>1. /\ DOMAIN engines' \subseteq DOMAIN engines /\ indexes' = indexes
        /\ \A e \in DOMAIN engines : e \in Range(indexes') \cup Range(ref') => e \in DOMAIN engines'
        /\ \A e \in DOMAIN engines' : engines'[e] = IF e = i THEN x ELSE engines[e]
    BY DEF EngineStep
  <2>2. \A k \in Handlers : ref'[k] # None => ref'[k] \in DOMAIN engines /\ ref'[k] \in Range(ref')
    BY <1>3 DEF Range
  <2>3. \A m \in Names : indexes[m] # None =>
          indexes[m] \in DOMAIN engines /\ indexes[m] \in Range(indexes')
    BY <1>1, <2>1 DEF Range, TypeOK
  <2>4. QED
    BY <2>1, <2>2, <2>3 DEF KeepsGood
<1>6. indexes' = indexes /\ broken' = broken
  BY DEF EngineStep
<1>7. (\A m : Deleting(m)' <=> Deleting(m)) /\ OneDeletion'
  <2>1. \A k \in Handlers : pc'[k] \in {"remove", "reopen"} => pc'[k] = pc[k] /\ req'[k] = req[k]
    BY <1>3
  <2>2. \A k \in Handlers : pc[k] \in {"remove", "reopen"} => pc'[k] = pc[k] /\ req'[k] = req[k]
    BY <1>3 DEF EngineStep, Working
  <2>3. QED
    BY <1>1, <2>1, <2>2 DEF Deleting, OneDeletion
<1>8. TypeOK'
  <2>1. engines' \in [DOMAIN engines' -> Engines]
    BY <1>1, <1>2, <1>5 DEF EngineStep, KeepsGood, TypeOK
  <2>2. /\ ref' \in [Handlers -> (DOMAIN engines') \cup {None}]
        /\ indexes' \in [Names -> (DOMAIN engines') \cup {None}]
    BY <1>1, <1>3, <1>5, <1>6 DEF TypeOK
  <2>3. QED
    BY <1>1, <1>3, <1>4, <1>5, <1>6, <2>1, <2>2 DEF TypeOK
<1>9. StagesOK'
  <2> SUFFICES ASSUME NEW k \in Handlers
               PROVE  /\ pc'[k] \in {"idle", "remove", "reopen"} <=> ref'[k] = None
                      /\ pc'[k] # "idle" => req'[k] \in Requests
                      /\ pc'[k] = "remove" => req'[k].name # Default /\ indexes'[req'[k].name] = None
                      /\ pc'[k] = "reopen" => req'[k].name = Default
                      /\ ref'[k] # None =>
                           /\ engines'[ref'[k]].name = req'[k].name
                           /\ k \notin late' => indexes'[req'[k].name] = ref'[k]
    BY DEF StagesOK
  <2>1. CASE k = h
    BY <1>1, <1>2, <1>3, <1>5, <1>6, <2>1 DEF StagesOK, Working
  <2>2. CASE k # h
    BY <1>1, <1>3, <1>5, <1>6, <2>2 DEF StagesOK
  <2>3. QED
    BY <2>1, <2>2
<1>10. MapOK'
  <2>1. IsFiniteSet(DOMAIN engines')
    BY <1>1, <1>5, FS_Subset DEF MapOK
  <2>2. QED
    BY <1>1, <1>5, <1>6, <2>1 DEF MapOK
<1>11. LinkedIsThere'
  BY <1>1, <1>2, <1>4, <1>5 DEF LinkedIsThere, KeepsGood, TypeOK, Engines
<1>12. GoneIsEmpty'
  BY <1>1, <1>2, <1>4 DEF GoneIsEmpty, KeepsGood
<1>13. OthersAreUnlinked'
  BY <1>1, <1>5, <1>6 DEF OthersAreUnlinked
<1>14. ASSUME n \notin stray', Gone(n)
       PROVE  d = disk[n]
  <2>1. disk[n] = NoDirectory /\ ~Owner(h)
    BY <1>1, <1>2, <1>14 DEF DeletedUnlessStray, Gone, Owner
  <2>2. ~engines[i].linked
    BY <1>1, <1>2, <2>1 DEF LinkedIsThere, NoDirectory
  <2>3. QED
    BY <1>14, <2>1, <2>2
<1>15. ASSUME NEW m \in Names, indexes[m] # None, ~Deleting(m), m \notin broken
       PROVE  Good(disk'[m], engines'[indexes[m]])
  <2>1. /\ indexes[m] \in DOMAIN engines' /\ engines[indexes[m]].name = m
        /\ Good(disk[m], engines[indexes[m]]) /\ disk[m].there
    <3>1. indexes[m] \in DOMAIN engines
      BY <1>1, <1>15 DEF TypeOK
    <3>2. engines[indexes[m]].name = m
      BY <1>1, <1>15 DEF MapOK
    <3>3. Good(disk[m], engines[indexes[m]])
      BY <1>1, <1>15, RecoveredIsOf DEF Good, IndexesAreDurable, BufferHasLog
    <3>4. disk[m].there
      BY <1>1, <3>1, <3>2, <3>3 DEF LinkedIsThere, Good
    <3>5. QED
      BY <1>5, <1>15, <3>2, <3>3, <3>4
  <2>2. CASE indexes[m] = i
    <3>1. m = n /\ Owner(h)
      BY <1>2, <1>15, <2>1, <2>2 DEF Owner
    <3>2. QED
      BY <1>4, <1>5, <2>1, <2>2, <3>1 DEF KeepsGood
  <2>3. CASE indexes[m] # i /\ m = n
    <3>1. ~engines[i].linked
      BY <1>1, <1>2, <1>15, <2>3 DEF OthersAreUnlinked
    <3>2. d.log = disk[n].log /\ disk[n].segments \subseteq d.segments
      BY <3>1 DEF KeepsGood
    <3>3. Good(d, engines[indexes[m]])
      BY <2>1, <2>3, <3>2 DEF Good, RecoveredOf
    <3>4. QED
      BY <1>4, <1>5, <2>1, <2>3, <3>3
  <2>4. CASE m # n
    BY <1>2, <1>4, <1>5, <2>1, <2>4
  <2>5. QED
    BY <2>2, <2>3, <2>4
<1>16. BufferHasLog' /\ IndexesAreDurable'
  <2>1. \A m \in Names : Recovered(m)' = RecoveredOf(disk'[m])
    BY DEF Recovered, RecoveredOf, With
  <2>2. QED
    BY <1>6, <1>7, <1>15, <2>1 DEF BufferHasLog, IndexesAreDurable, Good
<1>17. DeletedUnlessStray'
  <2> SUFFICES ASSUME NEW m \in Names, Gone(m), m \notin stray'
               PROVE  disk'[m] = NoDirectory
    BY <1>6, <1>7 DEF DeletedUnlessStray, Gone
  <2>1. disk[m] = NoDirectory
    BY <1>1 DEF DeletedUnlessStray
  <2>2. QED
    BY <1>2, <1>4, <1>14, <2>1
<1>18. QED
  BY <1>7, <1>8, <1>9, <1>10, <1>11, <1>12, <1>13, <1>16, <1>17 DEF ManagerInv

(* The step of a handler that changes the engine at hand, and drops those    *)
(* nothing refers to any more if it returns.                                 *)
LEMMA EngineStepIs ==
  ASSUME ManagerInv, NEW h \in Handlers, NEW d, NEW x, pc[h] \in Working, UNCHANGED <<indexes, broken>>,
         disk' = [disk EXCEPT ![req[h].name] = d],
         NEW all, all = [engines EXCEPT ![ref[h]] = x],
         \/ Return(h) /\ engines' = Kept(all)
         \/ Stays(h) /\ engines' = all
  PROVE  EngineStep(h, d, x)
<1>1. DOMAIN all = Live /\ \A e \in Live : all[e] = IF e = ref[h] THEN x ELSE engines[e]
  BY DEF Live
<1>2. CASE Return(h) /\ engines' = Kept(all)
  <2>1. /\ DOMAIN engines' = Live \cap (Range(indexes') \cup Range(ref'))
        /\ engines' = [e \in DOMAIN engines' |-> all[e]]
    BY <1>1, <1>2 DEF Kept, Restrict
  <2>2. /\ DOMAIN engines' \subseteq Live
        /\ \A e \in Live : e \in Range(indexes') \cup Range(ref') => e \in DOMAIN engines'
    BY <2>1
  <2>3. engines' = [e \in DOMAIN engines' |-> IF e = ref[h] THEN x ELSE engines[e]]
    <3>1. \A e \in DOMAIN engines' : engines'[e] = IF e = ref[h] THEN x ELSE engines[e]
      BY <1>1, <2>1, <2>2
    <3>2. QED
      BY <2>1, <3>1
  <2>4. QED
    BY <1>2, <2>2, <2>3 DEF EngineStep
<1>3. CASE Stays(h) /\ engines' = all
  BY <1>1, <1>3 DEF EngineStep
<1>4. QED
  BY <1>2, <1>3

(* What a handler refers to, and what is in its index's directory.           *)
LEMMA HandlerHas ==
  ASSUME ManagerInv, NEW h \in Handlers, pc[h] \in Working
  PROVE  /\ req[h] \in Requests /\ req[h].name \in Names /\ req[h].id \in Ids
         /\ ref[h] \in Live /\ engines[ref[h]] \in Engines
         /\ disk[req[h].name] \in Directories
         /\ merged[h] \subseteq Ids /\ merged \in [Handlers -> SUBSET Ids]
         /\ stray \subseteq Names
         /\ disk = [disk EXCEPT ![req[h].name] = disk[req[h].name]]
         /\ engines = [engines EXCEPT ![ref[h]] = engines[ref[h]]]
BY DEF ManagerInv, TypeOK, StagesOK, Working, Requests

(* A step that leaves directory and engine alone.                            *)
LEMMA IdleStep ==
  ASSUME ManagerInv, NEW h \in Handlers, pc[h] \in Working, UNCHANGED <<indexes, disk, stray, broken>>,
         \/ Return(h) /\ engines' = Kept(engines)
         \/ Stays(h) /\ engines' = engines
  PROVE  ManagerInv'
<1> DEFINE d == disk[req[h].name]
           x == engines[ref[h]]
<1>1. EngineStep(h, d, x)
  BY HandlerHas, EngineStepIs
<1>2. KeepsGood(Owner(h), d, x, d, x)
  BY HandlerHas DEF KeepsGood
<1>3. QED
  BY <1>1, <1>2, HandlerHas, EngineStepKeeps

(* An addition reaches the log its engine has open, the buffer and the index.*)
LEMMA AddDocumentKeeps ==
  ASSUME ManagerInv, NEW h \in Handlers, AddDocument(h)
  PROVE  ManagerInv'
<1> DEFINE n == req[h].name
           e == ref[h]
           id == req[h].id
           d == IF engines[e].linked THEN [disk[n] EXCEPT !.log = Mark(h, "add")] ELSE disk[n]
           x == [engines[e] EXCEPT !.index = @ \cup {id}, !.buffered = @ \cup {id}]
           all == [engines EXCEPT ![e].index = @ \cup {id}, ![e].buffered = @ \cup {id}]
<1>1. pc[h] \in Working
  BY DEF AddDocument, Acquire, Working
<1>2. /\ n \in Names /\ id \in Ids /\ engines[e] \in Engines /\ e \in Live
      /\ disk[n] \in Directories /\ merged \in [Handlers -> SUBSET Ids] /\ stray \subseteq Names
  BY <1>1, HandlerHas
<1>3. all = [engines EXCEPT ![e] = x]
  BY <1>2 DEF Live, Engines
<1>4. disk' = [disk EXCEPT ![n] = d]
  BY <1>1, <1>2, HandlerHas DEF AddDocument, Logged
<1>5. EngineStep(h, d, x)
  <2>1. UNCHANGED <<indexes, broken>> /\ ((Return(h) /\ engines' = Kept(all)) \/ (Stays(h) /\ engines' = all))
    BY <1>2 DEF AddDocument, Stays, Working
  <2>2. QED
    BY <1>1, <1>3, <1>4, <2>1, EngineStepIs
<1>6. KeepsGood(Owner(h), disk[n], engines[e], d, x)
  <2>1. Mark(h, "add") = [disk[n].log EXCEPT ![id] = "add"] /\ Mark(h, "add") \in Logs
    BY <1>2 DEF Mark, Logs, Directories
  <2>2. d \in Directories /\ x \in Engines /\ x.name = engines[e].name /\ x.linked = engines[e].linked
        /\ d.there = disk[n].there
    BY <1>2, <2>1 DEF Directories, Engines
  <2>3. ~d.there => d = disk[n]
    <3>1. engines[e].name = n
      BY <1>1 DEF ManagerInv, StagesOK, Working
    <3>2. engines[e].linked => disk[n].there
      BY <1>2, <3>1 DEF ManagerInv, LinkedIsThere
    <3>3. QED
      BY <2>2, <3>2
  <2>4. ASSUME Good(disk[n], engines[e]) PROVE Good(d, x)
    <3>1. engines[e].linked
      BY <2>4 DEF Good
    <3>2. /\ d.segments = disk[n].segments /\ d.log = Mark(h, "add")
          /\ x.index = engines[e].index \cup {id} /\ x.buffered = engines[e].buffered \cup {id}
          /\ x.linked
      BY <1>2, <2>1, <3>1 DEF Directories, Engines
    <3>3. /\ With(d.log, "add") = With(disk[n].log, "add") \cup {id}
          /\ With(d.log, "delete") = With(disk[n].log, "delete") \ {id}
      BY <1>2, <2>1, <3>2 DEF With, Directories, Logs
    <3>4. QED
      BY <2>4, <3>2, <3>3 DEF Good, RecoveredOf
  <2>5. QED
    BY <2>2, <2>3, <2>4 DEF KeepsGood
<1>7. stray' = stray
  BY DEF AddDocument
<1>8. QED
  BY <1>2, <1>5, <1>6, <1>7, EngineStepKeeps

(* A deletion reaches the log, the buffer and the index likewise.            *)
LEMMA DeleteDocumentKeeps ==
  ASSUME ManagerInv, NEW h \in Handlers, DeleteDocument(h)
  PROVE  ManagerInv'
<1> DEFINE n == req[h].name
           e == ref[h]
           id == req[h].id
           d == IF engines[e].linked THEN [disk[n] EXCEPT !.log = Mark(h, "delete")] ELSE disk[n]
           x == [engines[e] EXCEPT !.index = @ \ {id}, !.buffered = @ \ {id}]
           all == [engines EXCEPT ![e].index = @ \ {id}, ![e].buffered = @ \ {id}]
<1>1. pc[h] \in Working
  BY DEF DeleteDocument, Acquire, Working
<1>2. /\ n \in Names /\ id \in Ids /\ engines[e] \in Engines /\ e \in Live
      /\ disk[n] \in Directories /\ merged \in [Handlers -> SUBSET Ids] /\ stray \subseteq Names
  BY <1>1, HandlerHas
<1>3. all = [engines EXCEPT ![e] = x]
  BY <1>2 DEF Live, Engines
<1>4. disk' = [disk EXCEPT ![n] = d]
  BY <1>1, <1>2, HandlerHas DEF DeleteDocument, Logged
<1>5. EngineStep(h, d, x)
  <2>1. UNCHANGED <<indexes, broken>> /\ Return(h) /\ engines' = Kept(all)
    BY DEF DeleteDocument
  <2>2. QED
    BY <1>1, <1>3, <1>4, <2>1, EngineStepIs
<1>6. KeepsGood(Owner(h), disk[n], engines[e], d, x)
  <2>1. Mark(h, "delete") = [disk[n].log EXCEPT ![id] = "delete"] /\ Mark(h, "delete") \in Logs
    BY <1>2 DEF Mark, Logs, Directories
  <2>2. d \in Directories /\ x \in Engines /\ x.name = engines[e].name /\ x.linked = engines[e].linked
        /\ d.there = disk[n].there
    BY <1>2, <2>1 DEF Directories, Engines
  <2>3. ~d.there => d = disk[n]
    <3>1. engines[e].name = n
      BY <1>1 DEF ManagerInv, StagesOK, Working
    <3>2. engines[e].linked => disk[n].there
      BY <1>2, <3>1 DEF ManagerInv, LinkedIsThere
    <3>3. QED
      BY <2>2, <3>2
  <2>4. ASSUME Good(disk[n], engines[e]) PROVE Good(d, x)
    <3>1. engines[e].linked
      BY <2>4 DEF Good
    <3>2. /\ d.segments = disk[n].segments /\ d.log = Mark(h, "delete")
          /\ x.index = engines[e].index \ {id} /\ x.buffered = engines[e].buffered \ {id}
          /\ x.linked
      BY <1>2, <2>1, <3>1 DEF Directories, Engines
    <3>3. /\ With(d.log, "add") = With(disk[n].log, "add") \ {id}
          /\ With(d.log, "delete") = With(disk[n].log, "delete") \cup {id}
      BY <1>2, <2>1, <3>2 DEF With, Directories, Logs
    <3>4. QED
      BY <2>4, <3>2, <3>3 DEF Good, RecoveredOf
  <2>5. QED
    BY <2>2, <2>3, <2>4 DEF KeepsGood
<1>7. stray' = stray
  BY DEF DeleteDocument
<1>8. QED
  BY <1>2, <1>5, <1>6, <1>7, EngineStepKeeps

(* A flush brings its directory back; with an engine that was deleted the    *)
(* directory is stray.                                                       *)
LEMMA FlushDirectoryKeeps ==
  ASSUME ManagerInv, NEW h \in Handlers, FlushDirectory(h)
  PROVE  ManagerInv'
<1> DEFINE n == req[h].name
           x == engines[ref[h]]
           d == [disk[n] EXCEPT !.there = TRUE]
<1>1. pc[h] \in Working
  BY DEF FlushDirectory, Working
<1>2. /\ n \in Names /\ x \in Engines /\ engines = [engines EXCEPT ![ref[h]] = x]
      /\ disk[n] \in Directories /\ merged \in [Handlers -> SUBSET Ids] /\ stray \subseteq Names
  BY <1>1, HandlerHas
<1>3. EngineStep(h, d, x)
  <2>1. disk' = [disk EXCEPT ![n] = d]
    BY <1>1, <1>2, HandlerHas DEF FlushDirectory, Created, ManagerInv, TypeOK
  <2>2. UNCHANGED <<indexes, broken>> /\ Stays(h) /\ engines' = engines
    BY <1>2 DEF FlushDirectory, Stays, Working
  <2>3. QED
    BY <1>1, <1>2, <2>1, <2>2, EngineStepIs
<1>4. d \in Directories /\ d.there /\ d.segments = disk[n].segments /\ d.log = disk[n].log
  BY <1>2 DEF Directories
<1>5. KeepsGood(Owner(h), disk[n], x, d, x)
  BY <1>2, <1>4 DEF KeepsGood, Good, RecoveredOf
<1>6. stray' = Stray(h)
  BY DEF FlushDirectory
<1>7. QED
  BY <1>2, <1>3, <1>5, <1>6, EngineStepKeeps DEF Stray

(* A segment holds the buffer, and the log, if it is the engine's, is empty. *)
LEMMA WriteSegmentKeeps ==
  ASSUME ManagerInv, NEW h \in Handlers, WriteSegment(h)
  PROVE  ManagerInv'
<1> DEFINE n == req[h].name
           e == ref[h]
           log == IF engines[e].linked THEN NoLog ELSE disk[n].log
           d == [disk[n] EXCEPT !.log = log, !.segments = @ \cup engines[e].buffered]
           x == [engines[e] EXCEPT !.buffered = {}]
           all == [engines EXCEPT ![e].buffered = {}]
<1>1. pc[h] \in Working
  BY DEF WriteSegment, Working
<1>2. /\ n \in Names /\ engines[e] \in Engines /\ e \in Live
      /\ disk[n] \in Directories /\ merged \in [Handlers -> SUBSET Ids] /\ stray \subseteq Names
  BY <1>1, HandlerHas
<1>3. all = [engines EXCEPT ![e] = x]
  BY <1>2 DEF Live, Engines
<1>4. /\ NoLog \in Logs /\ With(NoLog, "delete") = {} /\ With(NoLog, "add") = {}
      /\ log \in Logs
  BY <1>2 DEF NoLog, Logs, With, Directories
<1>5. disk' = [disk EXCEPT ![n] = d]
  <2>1. Logged(h, NoLog) = [disk EXCEPT ![n].log = log]
    BY <1>2 DEF Logged, Directories, ManagerInv, TypeOK
  <2> DEFINE base == [disk EXCEPT ![n].log = log]
  <2>2. /\ base \in [Names -> Directories] /\ \A m \in Names : m # n => base[m] = disk[m]
        /\ base[n] = [disk[n] EXCEPT !.log = log]
    BY <1>2, <1>4 DEF Directories, ManagerInv, TypeOK
  <2>3. disk' = [base EXCEPT ![n].segments = @ \cup engines[e].buffered]
    BY <2>1 DEF WriteSegment
  <2> HIDE DEF base, log
  <2>4. /\ disk' = [base EXCEPT ![n] = [base[n] EXCEPT !.segments = @ \cup engines[e].buffered]]
        /\ [base[n] EXCEPT !.segments = @ \cup engines[e].buffered] = d
    BY <1>2, <2>2, <2>3 DEF Directories
  <2>5. disk \in [Names -> Directories]
    BY DEF ManagerInv, TypeOK
  <2> HIDE DEF d
  <2>6. QED
    BY <1>2, <2>2, <2>4, <2>5
<1>6. EngineStep(h, d, x)
  <2>1. UNCHANGED <<indexes, broken>> /\ ((Return(h) /\ engines' = Kept(all)) \/ (Stays(h) /\ engines' = all))
    BY <1>2 DEF WriteSegment, AfterFlush, Stays, Working
  <2>2. QED
    BY <1>1, <1>3, <1>5, <2>1, EngineStepIs
<1>7. KeepsGood(Owner(h), disk[n], engines[e], d, x)
  <2>1. /\ d \in Directories /\ d.there /\ d.log = log
        /\ d.segments = disk[n].segments \cup engines[e].buffered
        /\ x \in Engines /\ x.name = engines[e].name /\ x.linked = engines[e].linked
        /\ x.index = engines[e].index /\ x.buffered = {}
    BY <1>2, <1>4 DEF Directories, Engines, WriteSegment
  <2>2. Good(disk[n], engines[e]) => Good(d, x)
    BY <1>4, <2>1 DEF Good, RecoveredOf
  <2>3. QED
    BY <2>1, <2>2 DEF KeepsGood
<1>8. stray' = Stray(h)
  BY DEF WriteSegment
<1>9. QED
  BY <1>2, <1>6, <1>7, <1>8, EngineStepKeeps DEF Stray

(* With its directory gone, or part of it, the flush may lose the buffer; the *)
(* owner of a directory that is there never comes to that.                   *)
LEMMA WriteNowhereKeeps ==
  ASSUME ManagerInv, NEW h \in Handlers, WriteNowhere(h)
  PROVE  ManagerInv'
<1> DEFINE n == req[h].name
           e == ref[h]
           log == IF engines[e].linked THEN NoLog ELSE disk[n].log
           d == [disk[n] EXCEPT !.log = log]
           x == [engines[e] EXCEPT !.buffered = {}]
           all == [engines EXCEPT ![e].buffered = {}]
<1>1. pc[h] \in Working
  BY DEF WriteNowhere, Working
<1>2. CASE Return(h) /\ engines' = Kept(engines) /\ UNCHANGED disk
  BY <1>1, <1>2, IdleStep DEF WriteNowhere
<1>3. CASE AfterFlush(h, all) /\ disk' = Logged(h, NoLog)
  <2>1. /\ n \in Names /\ engines[e] \in Engines /\ e \in Live
        /\ disk[n] \in Directories /\ merged \in [Handlers -> SUBSET Ids] /\ stray \subseteq Names
        /\ disk = [disk EXCEPT ![n] = disk[n]]
    BY <1>1, HandlerHas
  <2>2. all = [engines EXCEPT ![e] = x]
    BY <2>1 DEF Live, Engines
  <2>3. NoLog \in Logs /\ log \in Logs
    BY <2>1 DEF NoLog, Logs, Directories
  <2>4. disk' = [disk EXCEPT ![n] = d]
    BY <1>3, <2>1 DEF Logged, Directories
  <2>5. EngineStep(h, d, x)
    <3>1. (Return(h) /\ engines' = Kept(all)) \/ (Stays(h) /\ engines' = all)
      BY <1>3, <2>1 DEF AfterFlush, Stays, Working
    <3>2. UNCHANGED <<indexes, broken>>
      BY DEF WriteNowhere
    <3>3. QED
      BY <1>1, <2>2, <2>4, <3>1, <3>2, EngineStepIs
  <2>6. /\ d \in Directories /\ d.log = log /\ d.segments = disk[n].segments
        /\ d.there = disk[n].there
        /\ x \in Engines /\ x.name = engines[e].name /\ x.linked = engines[e].linked
    BY <2>1, <2>3 DEF Directories, Engines
  <2>7. ~engines[e].linked => d = disk[n]
    BY <2>1 DEF Directories
  <2>8. engines[e].linked => disk[n].there
    BY <1>1, <2>1 DEF ManagerInv, LinkedIsThere, StagesOK, Working
  <2>9. ~(Owner(h) /\ disk[n].there)
    BY DEF WriteNowhere, Swept
  <2>10. KeepsGood(Owner(h), disk[n], engines[e], d, x)
    BY <2>6, <2>7, <2>8, <2>9 DEF KeepsGood
  <2>11. QED
    BY <2>1, <2>5, <2>7, <2>10, EngineStepKeeps DEF WriteNowhere
<1>4. QED
  BY <1>2, <1>3 DEF WriteNowhere

(* The union of the segments joins what is there.                            *)
LEMMA WriteMergedKeeps ==
  ASSUME ManagerInv, NEW h \in Handlers, WriteMerged(h)
  PROVE  ManagerInv'
<1> DEFINE n == req[h].name
           x == engines[ref[h]]
           d == [disk[n] EXCEPT !.segments = @ \cup merged[h]]
<1>1. pc[h] \in Working
  BY DEF WriteMerged, Working
<1>2. /\ n \in Names /\ x \in Engines /\ engines = [engines EXCEPT ![ref[h]] = x]
      /\ disk[n] \in Directories /\ merged[h] \subseteq Ids /\ stray \subseteq Names
  BY <1>1, HandlerHas
<1>3. CASE UNCHANGED <<disk, stray>>
  BY <1>1, <1>3, IdleStep DEF WriteMerged
<1>4. CASE disk[n].there /\ disk' = [disk EXCEPT ![n].segments = @ \cup merged[h]] /\ stray' = Stray(h)
  <2>1. EngineStep(h, d, x)
    <3>1. disk' = [disk EXCEPT ![n] = d]
      BY <1>2, <1>4 DEF WriteMerged, ManagerInv, TypeOK
    <3>2. UNCHANGED <<indexes, broken>> /\ Return(h) /\ engines' = Kept(engines)
      BY DEF WriteMerged
    <3>3. QED
      BY <1>1, <1>2, <3>1, <3>2, EngineStepIs
  <2>2. /\ d \in Directories /\ d.there /\ d.log = disk[n].log
        /\ d.segments = disk[n].segments \cup merged[h]
    BY <1>2, <1>4 DEF Directories
  <2>3. KeepsGood(Owner(h), disk[n], x, d, x)
    BY <1>2, <2>2 DEF KeepsGood, Good, RecoveredOf
  <2>4. QED
    BY <1>2, <1>4, <2>1, <2>3, EngineStepKeeps DEF Stray
<1>5. QED
  BY <1>3, <1>4 DEF WriteMerged

(* Reads, the beginning of a flush and the listing of segments change        *)
(* nothing on disk.                                                          *)
LEMMA QuietKeeps ==
  ASSUME ManagerInv, NEW h \in Handlers, Read(h) \/ FlushCalled(h) \/ ReadSegments(h)
  PROVE  ManagerInv'
<1>1. pc[h] \in Working
  BY DEF Read, FlushCalled, ReadSegments, Acquire, Working
<1>2. /\ merged \in [Handlers -> SUBSET Ids]
      /\ [merged EXCEPT ![h] = disk[req[h].name].segments] \in [Handlers -> SUBSET Ids]
  BY <1>1, HandlerHas DEF Directories
<1>3. /\ UNCHANGED <<indexes, disk, stray, broken>>
      /\ \/ Return(h) /\ engines' = Kept(engines)
         \/ Stays(h) /\ engines' = engines
  BY <1>2 DEF Read, FlushCalled, ReadSegments, Stays, Working
<1>4. QED
  BY <1>1, <1>3, IdleStep

----------------------------------------------------------------------------
(* The durability of an index in terms of its directory and its engine.      *)
LEMMA GoodIs ==
  ManagerInv => \A m \in Names : indexes[m] # None /\ ~Deleting(m) /\ m \notin broken =>
                  Good(disk[m], engines[indexes[m]])
BY RecoveredIsOf DEF ManagerInv, IndexesAreDurable, BufferHasLog, Good

(* It follows, in the next state, from every directory and engine being good. *)
LEMMA GoodMakes ==
  ASSUME \A m \in Names : indexes'[m] # None /\ ~Deleting(m)' /\ m \notin broken' =>
           Good(disk'[m], engines'[indexes'[m]])
  PROVE  IndexesAreDurable' /\ BufferHasLog'
<1>1. \A m \in Names : Recovered(m)' = RecoveredOf(disk'[m])
  BY DEF Recovered, RecoveredOf, With
<1>2. QED
  BY <1>1 DEF IndexesAreDurable, BufferHasLog, Good

(* A request that finds its engine, or none, changes nothing else.           *)
LEMMA GetKeeps ==
  ASSUME ManagerInv, NEW h \in Handlers, NEW r \in Requests, GetExisting(h, r) \/ Get(h, r)
  PROVE  ManagerInv'
<1> USE DEF Live
<1>1. /\ TypeOK /\ StagesOK /\ OneDeletion /\ MapOK /\ LinkedIsThere /\ GoneIsEmpty /\ OthersAreUnlinked
      /\ BufferHasLog /\ IndexesAreDurable /\ DeletedUnlessStray
  BY DEF ManagerInv
<1>2. /\ pc[h] = "idle" /\ UNCHANGED <<indexes, engines, disk, stray, broken>> /\ r.name \in Names
      /\ \/ UNCHANGED server
         \/ Hold(h, r, indexes[r.name]) /\ indexes[r.name] # None
  BY DEF GetExisting, Get, Begin, Existing, Requests
<1>3. CASE UNCHANGED server
  <2>1. UNCHANGED <<indexes, engines, disk, stray, broken, pc, req, ref, merged, late>>
    BY <1>2, <1>3 DEF server
  <2>2. TypeOK' /\ StagesOK' /\ OneDeletion' /\ MapOK'
    BY <1>1, <2>1 DEF TypeOK, StagesOK, OneDeletion, MapOK
  <2>3. LinkedIsThere' /\ GoneIsEmpty' /\ OthersAreUnlinked'
    BY <1>1, <2>1 DEF LinkedIsThere, GoneIsEmpty, OthersAreUnlinked
  <2>4. BufferHasLog' /\ IndexesAreDurable' /\ DeletedUnlessStray'
    BY <1>1, <2>1 DEF BufferHasLog, IndexesAreDurable, DeletedUnlessStray, Gone, Deleting, Recovered, With
  <2>5. QED
    BY <2>2, <2>3, <2>4 DEF ManagerInv
<1>4. CASE Hold(h, r, indexes[r.name]) /\ indexes[r.name] # None
  <2>1. /\ pc'[h] = "waiting" /\ req'[h] = r /\ ref'[h] = indexes[r.name]
        /\ merged' = merged /\ late' = late /\ indexes[r.name] \in DOMAIN engines
        /\ \A k \in Handlers : k # h => pc'[k] = pc[k] /\ req'[k] = req[k] /\ ref'[k] = ref[k]
    BY <1>1, <1>2, <1>4 DEF Hold, Goto, TypeOK
  <2>2. TypeOK'
    BY <1>1, <1>2, <1>4, <2>1 DEF Hold, Goto, TypeOK
  <2>3. StagesOK'
    BY <1>1, <1>2, <1>4, <2>1 DEF StagesOK, MapOK
  <2>4. (\A m : Deleting(m)' <=> Deleting(m)) /\ OneDeletion'
    BY <1>1, <1>2, <2>1 DEF Deleting, OneDeletion
  <2>5. MapOK' /\ LinkedIsThere' /\ GoneIsEmpty' /\ OthersAreUnlinked'
    BY <1>1, <1>2 DEF MapOK, LinkedIsThere, GoneIsEmpty, OthersAreUnlinked
  <2>6. BufferHasLog' /\ IndexesAreDurable' /\ DeletedUnlessStray'
    BY <1>1, <1>2, <2>4 DEF BufferHasLog, IndexesAreDurable, DeletedUnlessStray, Gone, Recovered, With
  <2>7. QED
    BY <2>2, <2>3, <2>4, <2>5, <2>6 DEF ManagerInv
<1>5. QED
  BY <1>2, <1>3, <1>4

(* A new directory, or one that is there already.                            *)
LEMMA CreatedIs ==
  ASSUME TypeOK, NEW n \in Names, disk' = Created(n)
  PROVE  /\ disk' \in [Names -> Directories] /\ disk'[n].there
         /\ \A m \in Names : m # n => disk'[m] = disk[m]
         /\ \A m \in Names : /\ disk[m].there => disk'[m].there
                             /\ disk'[m].log = disk[m].log
                             /\ RecoveredOf(disk'[m]) = RecoveredOf(disk[m])
<1>1. disk \in [Names -> Directories] /\ disk' = [disk EXCEPT ![n] = [disk[n] EXCEPT !.there = TRUE]]
  BY DEF TypeOK, Created
<1> DEFINE d == [disk[n] EXCEPT !.there = TRUE]
<1>2. d \in Directories /\ d.there /\ d.log = disk[n].log /\ d.segments = disk[n].segments
  BY <1>1 DEF Directories
<1> HIDE DEF d
<1>3. /\ disk' \in [Names -> Directories] /\ disk'[n] = d
      /\ \A m \in Names : m # n => disk'[m] = disk[m]
  BY <1>1, <1>2 DEF d
<1>4. QED
  BY <1>2, <1>3 DEF RecoveredOf

(* A new engine has what its directory has: nothing, if that is not stray.   *)
(* Engines of its name are without their log, or the index is broken.        *)
LEMMA CreateIndexKeeps ==
  ASSUME ManagerInv, NEW h \in Handlers, NEW r \in Requests, CreateIndex(h, r)
  PROVE  ManagerInv'
<1> DEFINE n == r.name
           e == Fresh
<1> USE DEF Live
<1>1. /\ TypeOK /\ StagesOK /\ OneDeletion /\ MapOK /\ LinkedIsThere /\ GoneIsEmpty /\ OthersAreUnlinked
      /\ BufferHasLog /\ IndexesAreDurable /\ DeletedUnlessStray
  BY DEF ManagerInv
<1>2. e \in Nat \ {None} /\ e \notin DOMAIN engines
  BY <1>1, FreshIsNew DEF MapOK
<1> HIDE DEF e
<1>3. /\ n \in Names /\ pc[h] = "idle" /\ indexes[n] = None /\ disk' = Created(n) /\ stray' = stray
      /\ broken' = IF \E f \in DOMAIN engines : engines[f].linked /\ engines[f].name = n
                     THEN broken \cup {n} ELSE broken
      /\ indexes' = [indexes EXCEPT ![n] = e]
      /\ engines' = [f \in DOMAIN engines \cup {e} |-> IF f = e THEN Opened(n) ELSE engines[f]]
      /\ Hold(h, r, e) \/ UNCHANGED server
      /\ ~ManagerLocked
  BY DEF CreateIndex, Begin, Existing, Requests, e
<1>4. /\ disk' \in [Names -> Directories] /\ disk'[n].there
      /\ \A m \in Names : m # n => disk'[m] = disk[m]
      /\ \A m \in Names : /\ disk[m].there => disk'[m].there
                          /\ disk'[m].log = disk[m].log
                          /\ RecoveredOf(disk'[m]) = RecoveredOf(disk[m])
  BY <1>1, <1>3, CreatedIs
<1>5. /\ Opened(n) \in Engines /\ Opened(n).name = n /\ Opened(n).linked
      /\ Opened(n).index = RecoveredOf(disk[n])
      /\ Opened(n).buffered = With(disk[n].log, "add")
  BY <1>1, <1>3, OpenedIs, RecoveredIsOf
<1>6. /\ DOMAIN engines' = DOMAIN engines \cup {e} /\ engines'[e] = Opened(n)
      /\ \A f \in DOMAIN engines : engines'[f] = engines[f]
      /\ indexes'[n] = e /\ \A m \in Names : m # n => indexes'[m] = indexes[m]
  BY <1>1, <1>2, <1>3 DEF TypeOK
<1>7. /\ \A k \in Handlers : k # h => pc'[k] = pc[k] /\ req'[k] = req[k] /\ ref'[k] = ref[k]
      /\ merged' = merged /\ late' = late
      /\ \/ pc'[h] = "waiting" /\ req'[h] = r /\ ref'[h] = e
         \/ pc'[h] = pc[h] /\ req'[h] = req[h] /\ ref'[h] = ref[h]
      /\ pc' \in [Handlers -> {"idle", "waiting", "flush", "write", "list", "merge",
                               "remove", "reopen"}]
      /\ req' \in [Handlers -> Requests \cup {NoRequest}]
      /\ ref' \in [Handlers -> (DOMAIN engines') \cup {None}]
  BY <1>1, <1>3, <1>6 DEF Hold, Goto, server, TypeOK
<1>8. (\A m : ~Deleting(m) /\ ~Deleting(m)') /\ OneDeletion'
  BY <1>3, <1>7 DEF Deleting, OneDeletion, ManagerLocked
<1>9. TypeOK'
  <2>1. engines' \in [DOMAIN engines' -> Engines] /\ DOMAIN engines' \subseteq Nat \ {None}
    BY <1>1, <1>2, <1>3, <1>5 DEF TypeOK
  <2>2. indexes' \in [Names -> (DOMAIN engines') \cup {None}] /\ indexes'[Default] # None
    BY <1>1, <1>2, <1>3, <1>6 DEF TypeOK
  <2>3. QED
    BY <1>1, <1>3, <1>4, <1>7, <2>1, <2>2 DEF TypeOK
<1>10. StagesOK'
  <2> SUFFICES ASSUME NEW k \in Handlers
               PROVE  /\ pc'[k] \in {"idle", "remove", "reopen"} <=> ref'[k] = None
                      /\ pc'[k] # "idle" => req'[k] \in Requests
                      /\ pc'[k] \notin {"remove", "reopen"}
                      /\ ref'[k] # None =>
                           /\ engines'[ref'[k]].name = req'[k].name
                           /\ k \notin late' => indexes'[req'[k].name] = ref'[k]
    BY DEF StagesOK
  <2>1. pc[k] \notin {"remove", "reopen"}
    BY <1>3 DEF ManagerLocked
  <2>2. ref[k] # None => ref[k] \in DOMAIN engines /\ req[k].name \in Names
    BY <1>1 DEF TypeOK, StagesOK, Requests
  <2>3. CASE pc'[k] = pc[k] /\ req'[k] = req[k] /\ ref'[k] = ref[k]
    <3>1. ref[k] # None /\ k \notin late => req[k].name # n
      BY <1>1, <1>3, <2>2 DEF StagesOK
    <3>2. QED
      BY <1>1, <1>6, <1>7, <2>1, <2>2, <2>3, <3>1 DEF StagesOK
  <2>4. CASE k = h /\ pc'[h] = "waiting" /\ req'[h] = r /\ ref'[h] = e
    BY <1>2, <1>5, <1>6, <2>4
  <2>5. QED
    BY <1>7, <2>3, <2>4
<1>11. MapOK'
  <2>1. IsFiniteSet(DOMAIN engines')
    BY <1>1, <1>6, FS_AddElement DEF MapOK
  <2>2. n # Default
    BY <1>1, <1>3 DEF TypeOK
  <2>3. \A f \in DOMAIN engines' : engines'[f].name = Default => f = indexes'[Default]
    BY <1>1, <1>5, <1>6, <2>2, DefaultAssumption DEF MapOK
  <2>4. QED
    BY <1>1, <1>5, <1>6, <2>1, <2>3 DEF MapOK, TypeOK
<1>12. LinkedIsThere' /\ GoneIsEmpty'
  BY <1>1, <1>4, <1>5, <1>6 DEF LinkedIsThere, GoneIsEmpty, TypeOK, Engines
<1>13. OthersAreUnlinked'
  <2> SUFFICES ASSUME NEW f \in DOMAIN engines', engines'[f].linked
               PROVE  indexes'[engines'[f].name] \in {None, f} \/ engines'[f].name \in broken'
    BY DEF OthersAreUnlinked
  <2>1. CASE f = e
    BY <1>5, <1>6, <2>1
  <2>2. CASE f # e
    <3>1. f \in DOMAIN engines /\ engines'[f] = engines[f] /\ engines[f].name \in Names
      BY <1>1, <1>6, <2>2 DEF TypeOK, Engines
    <3>2. CASE engines[f].name = n
      BY <1>3, <3>1, <3>2
    <3>3. CASE engines[f].name # n
      BY <1>1, <1>3, <1>6, <3>1, <3>3 DEF OthersAreUnlinked
    <3>4. QED
      BY <3>2, <3>3
  <2>3. QED
    BY <2>1, <2>2
<1>14. BufferHasLog' /\ IndexesAreDurable'
  <2> SUFFICES ASSUME NEW m \in Names, indexes'[m] # None, m \notin broken'
               PROVE  Good(disk'[m], engines'[indexes'[m]])
    BY GoodMakes
  <2>1. CASE m = n
    BY <1>4, <1>5, <1>6, <2>1 DEF Good
  <2>2. CASE m # n
    <3>1. indexes'[m] = indexes[m] /\ disk'[m] = disk[m] /\ indexes[m] \in DOMAIN engines
      BY <1>1, <1>4, <1>6, <2>2 DEF TypeOK
    <3>2. QED
      BY <1>3, <1>6, <1>8, <3>1, GoodIs
  <2>3. QED
    BY <2>1, <2>2
<1>15. DeletedUnlessStray'
  BY <1>1, <1>2, <1>3, <1>4, <1>6, <1>8 DEF DeletedUnlessStray, Gone
<1>16. QED
  BY <1>8, <1>9, <1>10, <1>11, <1>12, <1>13, <1>14, <1>15 DEF ManagerInv

(* A directory that could not be opened is stray.                            *)
LEMMA CreateFailsKeeps ==
  ASSUME ManagerInv, NEW h \in Handlers, NEW r \in Requests, CreateFails(h, r)
  PROVE  ManagerInv'
<1> USE DEF Live
<1>1. /\ TypeOK /\ StagesOK /\ OneDeletion /\ MapOK /\ LinkedIsThere /\ GoneIsEmpty /\ OthersAreUnlinked
      /\ BufferHasLog /\ IndexesAreDurable /\ DeletedUnlessStray
  BY DEF ManagerInv
<1>2. /\ r.name \in Names /\ disk' = Created(r.name) /\ stray' = stray \cup {r.name}
      /\ UNCHANGED <<indexes, engines, pc, req, ref, merged, late, broken>>
  BY DEF CreateFails, Requests, server
<1>3. /\ disk' \in [Names -> Directories] /\ disk'[r.name].there
      /\ \A m \in Names : m # r.name => disk'[m] = disk[m]
      /\ \A m \in Names : disk[m].there => disk'[m].there
  BY <1>1, <1>2, CreatedIs
<1>4. TypeOK' /\ StagesOK' /\ OneDeletion' /\ MapOK'
  BY <1>1, <1>2, <1>3 DEF TypeOK, StagesOK, OneDeletion, MapOK
<1>5. LinkedIsThere' /\ GoneIsEmpty' /\ OthersAreUnlinked'
  BY <1>1, <1>2, <1>3 DEF LinkedIsThere, GoneIsEmpty, OthersAreUnlinked, TypeOK, Engines
<1>6. BufferHasLog' /\ IndexesAreDurable'
  <2> SUFFICES ASSUME NEW m \in Names, indexes[m] # None, ~Deleting(m), m \notin broken
               PROVE  Good(disk'[m], engines[indexes[m]])
    BY <1>2, GoodMakes DEF Deleting
  <2>1. m # r.name
    BY <1>1, <1>2 DEF CreateFails, Existing
  <2>2. QED
    BY <1>3, <2>1, GoodIs
<1>7. DeletedUnlessStray'
  BY <1>1, <1>2, <1>3 DEF DeletedUnlessStray, Gone, Deleting
<1>8. QED
  BY <1>4, <1>5, <1>6, <1>7 DEF ManagerInv

----------------------------------------------------------------------------
(* An index that leaves the map takes the handlers at work on it along.      *)
LEMMA UnmapKeeps ==
  ASSUME ManagerInv, NEW h \in Handlers, NEW r \in Requests, Unmap(h, r), indexes[r.name] # None
  PROVE  ManagerInv'
<1> DEFINE n == r.name
<1> USE DEF Live
<1>1. /\ TypeOK /\ StagesOK /\ OneDeletion /\ MapOK /\ LinkedIsThere /\ GoneIsEmpty /\ OthersAreUnlinked
      /\ BufferHasLog /\ IndexesAreDurable /\ DeletedUnlessStray
  BY DEF ManagerInv
<1>2. /\ n \in Names /\ n # Default /\ pc[h] = "idle" /\ ~ManagerLocked
      /\ UNCHANGED <<disk, stray, ref, merged>> /\ broken' = broken \ {n}
      /\ indexes' = [indexes EXCEPT ![n] = None] /\ engines' = Kept(engines)
      /\ Goto(h, "remove") /\ req' = [req EXCEPT ![h] = r]
      /\ late' = late \cup Overtaken(h, n)
  BY DEF Unmap, Begin, Requests
<1>3. /\ indexes'[n] = None /\ \A m \in Names : m # n => indexes'[m] = indexes[m]
      /\ pc'[h] = "remove" /\ req'[h] = r
      /\ \A k \in Handlers : k # h => pc'[k] = pc[k] /\ req'[k] = req[k]
  BY <1>1, <1>2 DEF Goto, TypeOK
<1>4. /\ DOMAIN engines' \subseteq DOMAIN engines
      /\ \A e \in DOMAIN engines' : engines'[e] = engines[e]
      /\ \A k \in Handlers : ref[k] # None => ref[k] \in DOMAIN engines'
      /\ \A m \in Names : indexes'[m] # None => indexes'[m] \in DOMAIN engines'
  <2>1. DOMAIN engines' = DOMAIN engines \cap (Range(indexes') \cup Range(ref'))
    BY <1>2 DEF Kept, Restrict
  <2>2. \A e \in DOMAIN engines' : engines'[e] = engines[e]
    BY <1>2 DEF Kept, Restrict
  <2>3. \A k \in Handlers : ref[k] # None => ref[k] \in DOMAIN engines /\ ref[k] \in Range(ref')
    BY <1>1, <1>2 DEF TypeOK, Range
  <2>4. \A m \in Names : indexes'[m] # None =>
          indexes'[m] \in DOMAIN engines /\ indexes'[m] \in Range(indexes')
    BY <1>1, <1>2, <1>3 DEF TypeOK, Range
  <2>5. QED
    BY <2>1, <2>2, <2>3, <2>4
<1>5. /\ Deleting(n)' /\ OneDeletion'
      /\ \A m : ~Deleting(m)
      /\ \A m : m # n => ~Deleting(m)'
  BY <1>2, <1>3 DEF Deleting, OneDeletion, ManagerLocked
<1>6. TypeOK'
  <2>1. engines' \in [DOMAIN engines' -> Engines]
    <3>1. engines' = [e \in DOMAIN engines' |-> engines'[e]]
      BY <1>2 DEF Kept, Restrict
    <3>2. QED
      BY <1>1, <1>4, <3>1 DEF TypeOK
  <2>2. indexes' \in [Names -> (DOMAIN engines') \cup {None}] /\ indexes'[Default] # None
    BY <1>1, <1>2, <1>3, <1>4, DefaultAssumption DEF TypeOK
  <2>3. ref' \in [Handlers -> (DOMAIN engines') \cup {None}]
    BY <1>1, <1>2, <1>4 DEF TypeOK
  <2>4. late' \subseteq Handlers
    BY <1>1, <1>2 DEF TypeOK, Overtaken
  <2>5. QED
    BY <1>1, <1>2, <1>4, <2>1, <2>2, <2>3, <2>4 DEF TypeOK, Goto
<1>7. StagesOK'
  <2> SUFFICES ASSUME NEW k \in Handlers
               PROVE  /\ pc'[k] \in {"idle", "remove", "reopen"} <=> ref[k] = None
                      /\ pc'[k] # "idle" => req'[k] \in Requests
                      /\ pc'[k] = "remove" => req'[k].name # Default /\ indexes'[req'[k].name] = None
                      /\ pc'[k] = "reopen" => req'[k].name = Default
                      /\ ref[k] # None =>
                           /\ engines'[ref[k]].name = req'[k].name
                           /\ k \notin late' => indexes'[req'[k].name] = ref[k]
    BY <1>2 DEF StagesOK
  <2>1. CASE k = h
    BY <1>1, <1>2, <1>3, <2>1 DEF StagesOK
  <2>2. CASE k # h
    <3>1. pc[k] \notin {"remove", "reopen"} /\ pc'[k] = pc[k] /\ req'[k] = req[k]
      BY <1>2, <1>3, <2>2 DEF ManagerLocked
    <3>2. ref[k] # None => ref[k] \in DOMAIN engines' /\ req[k].name \in Names /\ pc[k] # "idle"
      BY <1>1, <1>4 DEF StagesOK, Requests
    <3>3. ref[k] # None /\ k \notin late' => req[k].name # n /\ k \notin late
      BY <1>2, <2>2, <3>2 DEF Overtaken
    <3>4. QED
      BY <1>1, <1>3, <1>4, <3>1, <3>2, <3>3 DEF StagesOK
  <2>3. QED
    BY <2>1, <2>2
<1>8. MapOK'
  <2>1. IsFiniteSet(DOMAIN engines')
    BY <1>1, <1>4, FS_Subset DEF MapOK
  <2>2. QED
    BY <1>1, <1>2, <1>3, <1>4, <2>1, DefaultAssumption DEF MapOK
<1>9. LinkedIsThere' /\ GoneIsEmpty'
  BY <1>1, <1>2, <1>4 DEF LinkedIsThere, GoneIsEmpty
<1>10. OthersAreUnlinked'
  <2> SUFFICES ASSUME NEW e \in DOMAIN engines', engines[e].linked
               PROVE  indexes'[engines[e].name] \in {None, e} \/ engines[e].name \in broken'
    BY <1>4 DEF OthersAreUnlinked
  <2>1. e \in DOMAIN engines /\ engines[e].name \in Names
    BY <1>1, <1>4 DEF TypeOK, Engines
  <2>2. QED
    BY <1>1, <1>2, <1>3, <2>1 DEF OthersAreUnlinked
<1>11. BufferHasLog' /\ IndexesAreDurable'
  <2> SUFFICES ASSUME NEW m \in Names, indexes'[m] # None, m \notin broken'
               PROVE  Good(disk'[m], engines'[indexes'[m]])
    BY GoodMakes
  <2>1. m # n
    BY <1>3
  <2>2. QED
    BY <1>2, <1>3, <1>4, <1>5, <2>1, GoodIs
<1>12. DeletedUnlessStray'
  BY <1>1, <1>2, <1>3, <1>5 DEF DeletedUnlessStray, Gone
<1>13. QED
  BY <1>5, <1>6, <1>7, <1>8, <1>9, <1>10, <1>11, <1>12 DEF ManagerInv

(* A removed directory is empty, and nobody has its log any more; if it could *)
(* not be removed it is stray, and whoever has its log keeps it.             *)
LEMMA RemovedIs ==
  ASSUME ManagerInv, NEW n \in Names, RemoveDirectory(n)
  PROVE  /\ disk' \in [Names -> Directories]
         /\ \A m \in Names : m # n => disk'[m] = disk[m]
         /\ ~disk'[n].there => disk'[n] = NoDirectory
         /\ n \notin stray' => disk'[n] = NoDirectory
         /\ engines' \in [Live -> Engines]
         /\ \A e \in Live : /\ engines'[e].name = engines[e].name
                            /\ engines[e].name # n => engines'[e] = engines[e]
                            /\ engines'[e].linked => engines[e].linked
                            /\ engines[e].name = n /\ engines'[e].linked => disk'[n].there
         /\ stray' \subseteq Names /\ \A m : m # n => (m \in stray' <=> m \in stray)
<1>1. disk \in [Names -> Directories] /\ engines \in [Live -> Engines] /\ stray \subseteq Names
  BY DEF ManagerInv, TypeOK
<1>2. PICK fails \in BOOLEAN, logGone \in BOOLEAN, left \in SUBSET disk[n].segments :
        /\ ~fails => logGone /\ left = {}
        /\ disk' = [disk EXCEPT ![n] = [there |-> fails, segments |-> left,
                                        log |-> IF logGone THEN NoLog ELSE @.log]]
        /\ engines' = [e \in Live |->
             [engines[e] EXCEPT !.linked = @ /\ ~(logGone /\ engines[e].name = n)]]
        /\ stray' = IF fails THEN stray \cup {n} ELSE stray \ {n}
  BY DEF RemoveDirectory
<1> DEFINE d == [there |-> fails, segments |-> left, log |-> IF logGone THEN NoLog ELSE disk[n].log]
<1>3. d \in Directories /\ d.there = fails
  BY <1>1 DEF Directories, NoLog, Logs
<1>4. ~fails => d = NoDirectory
  BY <1>2 DEF NoDirectory
<1> HIDE DEF d
<1>5. /\ disk' \in [Names -> Directories] /\ disk'[n] = d
      /\ \A m \in Names : m # n => disk'[m] = disk[m]
  BY <1>1, <1>2, <1>3 DEF d
<1>6. engines' \in [Live -> Engines]
  BY <1>1, <1>2 DEF Engines
<1>7. ASSUME NEW e \in Live
      PROVE  /\ engines'[e].name = engines[e].name
             /\ engines'[e].linked <=> engines[e].linked /\ ~(logGone /\ engines[e].name = n)
             /\ engines[e].name # n => engines'[e] = engines[e]
  <2>1. engines'[e] = [engines[e] EXCEPT !.linked = @ /\ ~(logGone /\ engines[e].name = n)]
    BY <1>2
  <2>2. engines[e] \in Engines
    BY <1>1
  <2>3. engines'[e].name = engines[e].name
    BY <2>1, <2>2 DEF Engines
  <2>4. engines'[e].linked <=> engines[e].linked /\ ~(logGone /\ engines[e].name = n)
    BY <2>1, <2>2 DEF Engines
  <2>5. engines[e].name # n => engines'[e] = engines[e]
    BY <2>1, <2>2 DEF Engines
  <2>6. QED
    BY <2>3, <2>4, <2>5
<1>8. QED
  BY <1>1, <1>2, <1>3, <1>4, <1>5, <1>6, <1>7

(* While its directory is removed an index is out of the map, or, the        *)
(* default one, being deleted.                                               *)
LEMMA RemoveKeeps ==
  ASSUME ManagerInv, NEW h \in Handlers,
         \/ DeleteDirectory(h)
         \/ \E r \in Requests : DeleteDefault(h, r)
  PROVE  ManagerInv'
<1> USE DEF Live
<1>1. /\ TypeOK /\ StagesOK /\ OneDeletion /\ MapOK /\ LinkedIsThere /\ GoneIsEmpty /\ OthersAreUnlinked
      /\ BufferHasLog /\ IndexesAreDurable /\ DeletedUnlessStray
  BY DEF ManagerInv
<1>2. PICK n \in Names :
        /\ RemoveDirectory(n) /\ UNCHANGED <<indexes, broken>>
        /\ \/ pc[h] = "remove" /\ n = req[h].name /\ Return(h)
           \/ /\ pc[h] = "idle" /\ n = Default /\ Goto(h, "reopen")
              /\ \E r \in Requests : r.name = Default /\ req' = [req EXCEPT ![h] = r]
              /\ late' = late \cup Overtaken(h, n)
              /\ UNCHANGED <<ref, merged>>
  <2>1. CASE DeleteDirectory(h)
    BY <1>1, <2>1 DEF DeleteDirectory, StagesOK, Requests
  <2>2. CASE \E r \in Requests : DeleteDefault(h, r)
    BY <2>2, DefaultAssumption DEF DeleteDefault, Begin
  <2>3. QED
    BY <2>1, <2>2
<1>3. /\ disk' \in [Names -> Directories]
      /\ \A m \in Names : m # n => disk'[m] = disk[m]
      /\ ~disk'[n].there => disk'[n] = NoDirectory
      /\ n \notin stray' => disk'[n] = NoDirectory
      /\ engines' \in [DOMAIN engines -> Engines]
      /\ \A e \in DOMAIN engines : /\ engines'[e].name = engines[e].name
                                   /\ engines[e].name # n => engines'[e] = engines[e]
                                   /\ engines'[e].linked => engines[e].linked
                                   /\ engines[e].name = n /\ engines'[e].linked => disk'[n].there
      /\ stray' \subseteq Names /\ \A m : m # n => (m \in stray' <=> m \in stray)
  BY <1>2, RemovedIs
<1>4. /\ pc' \in [Handlers -> {"idle", "waiting", "flush", "write", "list", "merge",
                               "remove", "reopen"}]
      /\ req' \in [Handlers -> Requests \cup {NoRequest}]
      /\ ref' \in [Handlers -> (DOMAIN engines) \cup {None}]
      /\ merged' \in [Handlers -> SUBSET Ids] /\ late' \subseteq Handlers
      /\ \A k \in Handlers : k # h => /\ pc'[k] = pc[k] /\ req'[k] = req[k] /\ ref'[k] = ref[k]
                                      /\ k \in late => k \in late'
      /\ ref[h] = None /\ ref'[h] = None
      /\ \/ pc'[h] = "idle" /\ pc[h] = "remove" /\ indexes[n] = None
         \/ pc'[h] = "reopen" /\ req'[h].name = Default /\ req'[h] \in Requests /\ n = Default
  BY <1>1, <1>2 DEF Return, Goto, TypeOK, StagesOK, Overtaken
<1>5. /\ \A m \in Names : m # n => (Deleting(m)' <=> Deleting(m))
      /\ pc'[h] = "reopen" => Deleting(n)'
  <2>1. ASSUME NEW m \in Names, m # n, NEW k \in Handlers
        PROVE  pc'[k] \in {"remove", "reopen"} /\ req'[k].name = m <=>
                  pc[k] \in {"remove", "reopen"} /\ req[k].name = m
    BY <1>2, <1>4, <2>1 DEF Return, Goto
  <2>2. QED
    BY <1>4, <2>1 DEF Deleting
<1>6. TypeOK'
  BY <1>1, <1>2, <1>3, <1>4 DEF TypeOK
<1>7. StagesOK'
  <2> SUFFICES ASSUME NEW k \in Handlers
               PROVE  /\ pc'[k] \in {"idle", "remove", "reopen"} <=> ref'[k] = None
                      /\ pc'[k] # "idle" => req'[k] \in Requests
                      /\ pc'[k] = "remove" => req'[k].name # Default /\ indexes[req'[k].name] = None
                      /\ pc'[k] = "reopen" => req'[k].name = Default
                      /\ ref'[k] # None =>
                           /\ engines'[ref'[k]].name = req'[k].name
                           /\ k \notin late' => indexes[req'[k].name] = ref'[k]
    BY <1>2 DEF StagesOK
  <2>1. CASE k = h
    BY <1>4, <2>1
  <2>2. CASE k # h
    BY <1>1, <1>3, <1>4, <2>2 DEF StagesOK, TypeOK
  <2>3. QED
    BY <2>1, <2>2
<1>8. MapOK'
  BY <1>1, <1>2, <1>3 DEF MapOK, TypeOK
<1>9. LinkedIsThere'
  <2> SUFFICES ASSUME NEW e \in DOMAIN engines, engines'[e].linked
               PROVE  disk'[engines[e].name].there
    BY <1>3 DEF LinkedIsThere
  <2>1. engines[e].name \in Names
    BY <1>1 DEF TypeOK, Engines
  <2>2. QED
    BY <1>1, <1>3, <2>1 DEF LinkedIsThere
<1>10. GoneIsEmpty'
  BY <1>1, <1>3 DEF GoneIsEmpty
<1>11. OthersAreUnlinked' /\ OneDeletion'
  <2>1. OthersAreUnlinked'
    BY <1>1, <1>2, <1>3 DEF OthersAreUnlinked
  <2>2. \A k \in Handlers : k # h => pc'[k] \notin {"remove", "reopen"}
    <3>1. pc[h] = "remove" \/ ~ManagerLocked
      BY DEF DeleteDirectory, DeleteDefault, Begin
    <3>2. QED
      BY <1>1, <1>4, <3>1 DEF OneDeletion, ManagerLocked
  <2>3. QED
    BY <2>1, <2>2 DEF OneDeletion
<1>12. BufferHasLog' /\ IndexesAreDurable'
  <2> SUFFICES ASSUME NEW m \in Names, indexes[m] # None, ~Deleting(m)', m \notin broken
               PROVE  Good(disk'[m], engines'[indexes[m]])
    BY <1>2, GoodMakes
  <2>1. m # n
    BY <1>4, <1>5
  <2>2. indexes[m] \in DOMAIN engines /\ engines[indexes[m]].name = m
    BY <1>1 DEF MapOK, TypeOK
  <2>3. QED
    BY <1>3, <1>5, <2>1, <2>2, GoodIs
<1>13. DeletedUnlessStray'
  <2> SUFFICES ASSUME NEW m \in Names, Gone(m)', m \notin stray'
               PROVE  disk'[m] = NoDirectory
    BY DEF DeletedUnlessStray
  <2>1. CASE m = n
    BY <1>3, <2>1
  <2>2. CASE m # n
    BY <1>1, <1>2, <1>3, <1>5, <2>2 DEF DeletedUnlessStray, Gone
  <2>3. QED
    BY <2>1, <2>2
<1>14. QED
  BY <1>6, <1>7, <1>8, <1>9, <1>10, <1>11, <1>12, <1>13 DEF ManagerInv

(* The default index's new engine has what its directory has.                *)
LEMMA ReopenKeeps ==
  ASSUME ManagerInv, NEW h \in Handlers, Reopen(h) \/ ReopenFails(h)
  PROVE  ManagerInv'
<1> DEFINE e == indexes[Default]
<1> USE DEF Live
<1>1. /\ TypeOK /\ StagesOK /\ OneDeletion /\ MapOK /\ LinkedIsThere /\ GoneIsEmpty /\ OthersAreUnlinked
      /\ BufferHasLog /\ IndexesAreDurable /\ DeletedUnlessStray
  BY DEF ManagerInv
<1>2. /\ pc[h] = "reopen" /\ disk' = Created(Default) /\ Return(h) /\ indexes' = indexes
      /\ \/ /\ engines' = [engines EXCEPT ![e] = Opened(Default)] /\ stray' = stray
            /\ broken' = broken \ {Default}
         \/ /\ engines' = engines /\ stray' = stray \cup {Default}
            /\ broken' = broken \cup {Default}
  BY DEF Reopen, ReopenFails
<1>3. Default \in Names /\ e # None /\ e \in DOMAIN engines /\ engines[e].name = Default
  BY <1>1, DefaultAssumption DEF TypeOK, MapOK
<1>4. /\ disk' \in [Names -> Directories] /\ disk'[Default].there
      /\ \A m \in Names : m # Default => disk'[m] = disk[m]
      /\ \A m \in Names : /\ disk[m].there => disk'[m].there
                          /\ disk'[m].log = disk[m].log
                          /\ RecoveredOf(disk'[m]) = RecoveredOf(disk[m])
  BY <1>1, <1>2, <1>3, CreatedIs
<1>5. /\ Opened(Default) \in Engines /\ Opened(Default).name = Default /\ Opened(Default).linked
      /\ Opened(Default).index = RecoveredOf(disk[Default])
      /\ Opened(Default).buffered = With(disk[Default].log, "add")
  BY <1>1, <1>3, OpenedIs, RecoveredIsOf
<1>6. /\ engines' \in [DOMAIN engines -> Engines]
      /\ \A f \in DOMAIN engines : f # e => engines'[f] = engines[f]
      /\ \A f \in DOMAIN engines : engines'[f].name = engines[f].name
      /\ Default \notin broken' => engines'[e] = Opened(Default)
      /\ stray \subseteq stray' /\ stray' \subseteq Names /\ broken' \subseteq Names
      /\ \A m : m # Default => (m \in broken' <=> m \in broken)
  BY <1>1, <1>2, <1>3, <1>5 DEF TypeOK
<1>7. /\ pc' \in [Handlers -> {"idle", "waiting", "flush", "write", "list", "merge",
                               "remove", "reopen"}]
      /\ req' \in [Handlers -> Requests \cup {NoRequest}]
      /\ ref' \in [Handlers -> (DOMAIN engines) \cup {None}]
      /\ merged' \in [Handlers -> SUBSET Ids] /\ late' \subseteq Handlers
      /\ \A k \in Handlers : k # h => /\ pc'[k] = pc[k] /\ req'[k] = req[k] /\ ref'[k] = ref[k]
                                      /\ k \in late => k \in late'
      /\ ref'[h] = None /\ pc'[h] = "idle"
      /\ req[h].name = Default
  BY <1>1, <1>2 DEF Return, Goto, TypeOK, StagesOK
<1>8. /\ \A m : ~Deleting(m)'
      /\ \A m : m # Default => ~Deleting(m)
      /\ OneDeletion'
  BY <1>1, <1>2, <1>7 DEF Deleting, OneDeletion
<1>9. TypeOK'
  BY <1>1, <1>2, <1>4, <1>6, <1>7 DEF TypeOK
<1>10. StagesOK'
  <2> SUFFICES ASSUME NEW k \in Handlers
               PROVE  /\ pc'[k] \in {"idle", "remove", "reopen"} <=> ref'[k] = None
                      /\ pc'[k] # "idle" => req'[k] \in Requests
                      /\ pc'[k] = "remove" => req'[k].name # Default /\ indexes[req'[k].name] = None
                      /\ pc'[k] = "reopen" => req'[k].name = Default
                      /\ ref'[k] # None =>
                           /\ engines'[ref'[k]].name = req'[k].name
                           /\ k \notin late' => indexes[req'[k].name] = ref'[k]
    BY <1>2 DEF StagesOK
  <2>1. CASE k = h
    BY <1>7, <2>1
  <2>2. CASE k # h
    BY <1>1, <1>6, <1>7, <2>2 DEF StagesOK, TypeOK
  <2>3. QED
    BY <2>1, <2>2
<1>11. MapOK' /\ GoneIsEmpty'
  BY <1>1, <1>2, <1>4, <1>6 DEF MapOK, GoneIsEmpty, TypeOK
<1>12. LinkedIsThere' /\ OthersAreUnlinked'
  <2> SUFFICES ASSUME NEW f \in DOMAIN engines, engines'[f].linked
               PROVE  /\ disk'[engines[f].name].there
                      /\ indexes[engines[f].name] \in {None, f} \/ engines[f].name \in broken'
    BY <1>2, <1>6 DEF LinkedIsThere, OthersAreUnlinked
  <2>1. engines[f].name \in Names
    BY <1>1 DEF TypeOK, Engines
  <2>2. CASE f = e
    BY <1>3, <1>4, <2>2
  <2>3. CASE f # e
    <3>1. engines[f].name # Default
      BY <1>1, <2>3 DEF MapOK
    <3>2. QED
      BY <1>1, <1>4, <1>6, <2>1, <2>3, <3>1 DEF LinkedIsThere, OthersAreUnlinked
  <2>4. QED
    BY <2>2, <2>3
<1>13. BufferHasLog' /\ IndexesAreDurable'
  <2> SUFFICES ASSUME NEW m \in Names, indexes[m] # None, m \notin broken'
               PROVE  Good(disk'[m], engines'[indexes[m]])
    BY <1>2, GoodMakes
  <2>1. CASE m = Default
    BY <1>3, <1>4, <1>5, <1>6, <2>1 DEF Good
  <2>2. CASE m # Default
    <3>1. indexes[m] \in DOMAIN engines /\ engines[indexes[m]].name = m
      BY <1>1 DEF MapOK, TypeOK
    <3>2. indexes[m] # e
      BY <1>3, <2>2, <3>1
    <3>3. QED
      BY <1>4, <1>6, <1>8, <2>2, <3>1, <3>2, GoodIs
  <2>3. QED
    BY <2>1, <2>2
<1>14. DeletedUnlessStray'
  <2> SUFFICES ASSUME NEW m \in Names, Gone(m)', m \notin stray'
               PROVE  disk'[m] = NoDirectory
    BY DEF DeletedUnlessStray
  <2>1. m # Default /\ Gone(m)
    BY <1>2, <1>8 DEF Gone
  <2>2. QED
    BY <1>1, <1>4, <1>6, <2>1 DEF DeletedUnlessStray
<1>15. QED
  BY <1>8, <1>9, <1>10, <1>11, <1>12, <1>13, <1>14 DEF ManagerInv

(* A restart opens what is on disk, so every index is what its directory     *)
(* says again, the stray ones too.                                           *)
LEMMA RestartKeeps ==
  ASSUME ManagerInv, Restart
  PROVE  ManagerInv'
<1> DEFINE slots == 1..Cardinality(Found)
<1> USE DEF Live
<1>1. TypeOK /\ GoneIsEmpty
  BY DEF ManagerInv
<1>2. PICK slot \in [Found -> slots] :
        /\ IsInjective(slot)
        /\ indexes' = [n \in Names |-> IF n \in Found THEN slot[n] ELSE None]
        /\ engines' = [e \in slots |-> Opened(CHOOSE n \in Found : slot[n] = e)]
        /\ disk' = Created(Default)
        /\ pc' = [h \in Handlers |-> "idle"]
        /\ req' = [h \in Handlers |-> NoRequest]
        /\ ref' = [h \in Handlers |-> None]
        /\ merged' = [h \in Handlers |-> {}]
        /\ late' = {} /\ stray' = {} /\ broken' = {}
  BY DEF Restart
<1>3. Found \subseteq Names /\ Default \in Found /\ IsFiniteSet(Found)
  <2>1. Found \subseteq Names /\ Default \in Found
    BY DefaultAssumption DEF Found
  <2>2. QED
    BY <2>1, HandlersAssumption, FS_Subset
<1>4. slots \subseteq Nat \ {None} /\ IsFiniteSet(slots)
  <2>1. Cardinality(Found) \in Nat
    BY <1>3, FS_CardinalityType
  <2>2. IsFiniteSet(slots)
    BY <2>1, FS_Interval
  <2>3. QED
    BY <2>1, <2>2 DEF None
<1> HIDE DEF slots
<1>5. ASSUME NEW e \in slots
      PROVE  \E n \in Found : slot[n] = e /\ engines'[e] = Opened(n)
  <2>1. \E n \in Found : slot[n] = e
    BY <1>2, <1>3, SlotsAreUsed DEF slots
  <2>2. QED
    BY <1>2, <2>1
<1>6. ASSUME NEW n \in Found
      PROVE  indexes'[n] = slot[n] /\ slot[n] \in slots /\ engines'[slot[n]] = Opened(n)
  <2>1. indexes'[n] = slot[n] /\ slot[n] \in slots
    BY <1>2, <1>3
  <2>2. PICK m \in Found : slot[m] = slot[n] /\ engines'[slot[n]] = Opened(m)
    BY <1>5, <2>1
  <2>3. m = n
    BY <1>2, <2>2 DEF IsInjective
  <2>4. QED
    BY <2>1, <2>2, <2>3
<1>7. DOMAIN engines' = slots /\ \A n \in Names \ Found : indexes'[n] = None
  BY <1>2
<1>8. /\ disk' \in [Names -> Directories] /\ disk'[Default].there
      /\ \A m \in Names : m # Default => disk'[m] = disk[m]
      /\ \A m \in Names : /\ disk[m].there => disk'[m].there
                          /\ disk'[m].log = disk[m].log
                          /\ RecoveredOf(disk'[m]) = RecoveredOf(disk[m])
  BY <1>1, <1>2, DefaultAssumption, CreatedIs
<1>9. /\ \A n \in Found : disk'[n].there
      /\ \A n \in Names \ Found : disk'[n] = NoDirectory
  BY <1>1, <1>3, <1>8 DEF Found, GoneIsEmpty
<1>10. ASSUME NEW n \in Found
       PROVE  /\ Opened(n) \in Engines /\ Opened(n).name = n
              /\ Good(disk'[n], Opened(n))
  <2>1. /\ Opened(n) \in Engines /\ Opened(n).name = n /\ Opened(n).linked
        /\ Opened(n).index = RecoveredOf(disk[n])
        /\ Opened(n).buffered = With(disk[n].log, "add")
    BY <1>1, <1>3, OpenedIs, RecoveredIsOf
  <2>2. QED
    BY <1>3, <1>8, <2>1 DEF Good
<1>11. TypeOK'
  <2>1. indexes' \in [Names -> slots \cup {None}] /\ indexes'[Default] # None
    BY <1>2, <1>3, <1>4, <1>6
  <2>2. engines' \in [slots -> Engines]
    BY <1>2, <1>5, <1>10
  <2>3. pc' \in [Handlers -> {"idle", "waiting", "flush", "write", "list", "merge",
                              "remove", "reopen"}]
    BY <1>2
  <2>4. /\ req' \in [Handlers -> Requests \cup {NoRequest}]
        /\ ref' \in [Handlers -> slots \cup {None}]
        /\ merged' \in [Handlers -> SUBSET Ids]
        /\ late' \subseteq Handlers /\ stray' \subseteq Names /\ broken' \subseteq Names
    BY <1>2
  <2>5. QED
    BY <1>4, <1>7, <1>8, <2>1, <2>2, <2>3, <2>4 DEF TypeOK
<1>12. StagesOK' /\ OneDeletion'
  BY <1>2 DEF StagesOK, OneDeletion
<1>13. MapOK'
  <2>1. \A e \in slots : engines'[e].name = Default => e = indexes'[Default]
    BY <1>5, <1>6, <1>10
  <2>2. QED
    BY <1>3, <1>4, <1>6, <1>7, <1>10, <2>1 DEF MapOK
<1>14. LinkedIsThere' /\ OthersAreUnlinked'
  <2> SUFFICES ASSUME NEW e \in slots
               PROVE  disk'[engines'[e].name].there /\ indexes'[engines'[e].name] = e
    BY <1>7 DEF LinkedIsThere, OthersAreUnlinked
  <2>1. PICK n \in Found : slot[n] = e /\ engines'[e] = Opened(n)
    BY <1>5
  <2>2. QED
    BY <1>6, <1>9, <1>10, <2>1
<1>15. GoneIsEmpty' /\ DeletedUnlessStray'
  BY <1>2, <1>3, <1>4, <1>6, <1>9 DEF GoneIsEmpty, DeletedUnlessStray, Gone, Deleting
<1>16. BufferHasLog' /\ IndexesAreDurable'
  <2>1. \A m \in Names : indexes'[m] # None => Good(disk'[m], engines'[indexes'[m]])
    BY <1>6, <1>7, <1>10
  <2>2. QED
    BY <2>1, GoodMakes
<1>17. QED
  BY <1>11, <1>12, <1>13, <1>14, <1>15, <1>16 DEF ManagerInv

----------------------------------------------------------------------------
(* The first state has the default index, empty, and nobody at work.         *)
LEMMA InitManager == Init => ManagerInv
<1> SUFFICES ASSUME Init PROVE ManagerInv
  OBVIOUS
<1> USE DEF Live
<1>1. /\ indexes = [n \in Names |-> IF n = Default THEN 1 ELSE None]
      /\ engines = [e \in {1} |-> [name |-> Default, index |-> {}, buffered |-> {},
                                   linked |-> TRUE]]
      /\ disk = [n \in Names |-> [NoDirectory EXCEPT !.there = (n = Default)]]
      /\ pc = [h \in Handlers |-> "idle"]
      /\ req = [h \in Handlers |-> NoRequest]
      /\ ref = [h \in Handlers |-> None]
      /\ merged = [h \in Handlers |-> {}]
      /\ late = {} /\ stray = {} /\ broken = {}
  BY DEF Init
<1>2. /\ DOMAIN engines = {1} /\ engines[1].name = Default /\ engines[1].index = {}
      /\ engines[1].buffered = {} /\ engines[1].linked /\ engines[1] \in Engines
  BY <1>1, DefaultAssumption DEF Engines
<1>3. /\ NoDirectory \in Directories /\ NoDirectory.log = NoLog /\ ~NoDirectory.there
      /\ With(NoLog, "add") = {}
  BY DEF NoDirectory, Directories, NoLog, Logs, With
<1>4. /\ disk \in [Names -> Directories]
      /\ \A n \in Names : disk[n].log = NoLog /\ (disk[n].there <=> n = Default)
      /\ \A n \in Names : n # Default => disk[n] = NoDirectory
  <2>1. \A n \in Names : disk[n] = [NoDirectory EXCEPT !.there = (n = Default)]
    BY <1>1
  <2>2. \A n \in Names : disk[n] \in Directories /\ disk[n].log = NoLog /\ (disk[n].there <=> n = Default)
    BY <1>3, <2>1 DEF Directories
  <2>3. \A n \in Names : n # Default => disk[n] = NoDirectory
    BY <2>1 DEF NoDirectory
  <2>4. QED
    BY <1>1, <2>2, <2>3
<1>5. TypeOK
  <2>1. indexes \in [Names -> {1} \cup {None}] /\ indexes[Default] # None
    BY <1>1, DefaultAssumption DEF None
  <2>2. engines \in [{1} -> Engines] /\ {1} \subseteq Nat \ {None}
    BY <1>1, <1>2 DEF None
  <2>3. pc \in [Handlers -> {"idle", "waiting", "flush", "write", "list", "merge",
                             "remove", "reopen"}]
    BY <1>1
  <2>4. /\ req \in [Handlers -> Requests \cup {NoRequest}]
        /\ ref \in [Handlers -> {1} \cup {None}]
        /\ merged \in [Handlers -> SUBSET Ids]
        /\ late \subseteq Handlers /\ stray \subseteq Names /\ broken \subseteq Names
    BY <1>1
  <2>5. QED
    BY <1>2, <1>4, <2>1, <2>2, <2>3, <2>4 DEF TypeOK
<1>6. StagesOK /\ OneDeletion
  BY <1>1 DEF StagesOK, OneDeletion
<1>7. \A n \in Names : indexes[n] # None => n = Default /\ indexes[n] = 1
  BY <1>1
<1>8. MapOK
  <2>1. IsFiniteSet(DOMAIN engines)
    BY <1>2, FS_Singleton
  <2>2. QED
    BY <1>1, <1>2, <1>7, <2>1, DefaultAssumption DEF MapOK
<1>9. LinkedIsThere /\ GoneIsEmpty /\ OthersAreUnlinked
  BY <1>1, <1>2, <1>4, DefaultAssumption DEF LinkedIsThere, GoneIsEmpty, OthersAreUnlinked
<1>10. BufferHasLog /\ IndexesAreDurable /\ DeletedUnlessStray
  <2>1. \A n \in Names : indexes[n] # None => Good(disk[n], engines[indexes[n]])
    BY <1>2, <1>3, <1>4, <1>7 DEF Good
  <2>2. \A n \in Names : indexes[n] = None => n # Default
    BY <1>1 DEF None
  <2>3. \A n \in Names : ~Deleting(n)
    BY <1>1 DEF Deleting
  <2>4. QED
    BY <1>4, <2>1, <2>2, <2>3, RecoveredIsOf
       DEF BufferHasLog, IndexesAreDurable, DeletedUnlessStray, Gone, Good
<1>11. QED
  BY <1>5, <1>6, <1>8, <1>9, <1>10 DEF ManagerInv

(* A step that changes nothing: a request refused, or none at all.           *)
LEMMA StutterKeeps == ManagerInv /\ UNCHANGED vars => ManagerInv'
<1> SUFFICES ASSUME ManagerInv, UNCHANGED vars PROVE ManagerInv'
  OBVIOUS
<1>1. UNCHANGED <<indexes, engines, disk, pc, req, ref, merged, late, stray, broken>>
  BY DEF vars, server
<1>2. TypeOK' /\ StagesOK' /\ OneDeletion' /\ MapOK'
  BY <1>1 DEF ManagerInv, TypeOK, StagesOK, OneDeletion, MapOK, Live
<1>3. LinkedIsThere' /\ GoneIsEmpty' /\ OthersAreUnlinked'
  BY <1>1 DEF ManagerInv, LinkedIsThere, GoneIsEmpty, OthersAreUnlinked, Live
<1>4. BufferHasLog' /\ IndexesAreDurable' /\ DeletedUnlessStray'
  BY <1>1 DEF ManagerInv, BufferHasLog, IndexesAreDurable, DeletedUnlessStray, Gone, Deleting,
              Recovered, With
<1>5. QED
  BY <1>2, <1>3, <1>4 DEF ManagerInv

----------------------------------------------------------------------------
(* Every step of the program keeps the invariant.                            *)
LEMMA ManagerNext == ManagerInv /\ [Next]_vars => ManagerInv'
<1> SUFFICES ASSUME ManagerInv, [Next]_vars PROVE ManagerInv'
  OBVIOUS
<1>1. ASSUME NEW h \in Handlers, NEW r \in Requests, Start(h, r)
      PROVE  ManagerInv'
  <2>1. CASE GetExisting(h, r) \/ Get(h, r)
    BY <2>1, GetKeeps
  <2>2. CASE CreateIndex(h, r)
    BY <2>2, CreateIndexKeeps
  <2>3. CASE CreateFails(h, r)
    BY <2>3, CreateFailsKeeps
  <2>4. CASE Unmap(h, r)
    <3>1. CASE indexes[r.name] # None
      BY <2>4, <3>1, UnmapKeeps
    <3>2. CASE indexes[r.name] = None
      BY <2>4, <3>2, StutterKeeps DEF Unmap, vars
    <3>3. QED
      BY <3>1, <3>2
  <2>5. CASE DeleteDefault(h, r)
    BY <2>5, RemoveKeeps
  <2>6. QED
    BY <1>1, <2>1, <2>2, <2>3, <2>4, <2>5 DEF Start
<1>2. ASSUME NEW h \in Handlers, Work(h)
      PROVE  ManagerInv'
  <2>1. CASE AddDocument(h)
    BY <2>1, AddDocumentKeeps
  <2>2. CASE DeleteDocument(h)
    BY <2>2, DeleteDocumentKeeps
  <2>3. CASE Read(h) \/ FlushCalled(h) \/ ReadSegments(h)
    BY <2>3, QuietKeeps
  <2>4. CASE FlushDirectory(h)
    BY <2>4, FlushDirectoryKeeps
  <2>5. CASE WriteSegment(h)
    BY <2>5, WriteSegmentKeeps
  <2>6. CASE WriteNowhere(h)
    BY <2>6, WriteNowhereKeeps
  <2>7. CASE WriteMerged(h)
    BY <2>7, WriteMergedKeeps
  <2>8. CASE DeleteDirectory(h)
    BY <2>8, RemoveKeeps
  <2>9. CASE Reopen(h) \/ ReopenFails(h)
    BY <2>9, ReopenKeeps
  <2>10. QED
    BY <1>2, <2>1, <2>2, <2>3, <2>4, <2>5, <2>6, <2>7, <2>8, <2>9 DEF Work
<1>3. CASE Restart
  BY <1>3, RestartKeeps
<1>4. CASE UNCHANGED vars
  BY <1>4, StutterKeeps
<1>5. QED
  BY <1>1, <1>2, <1>3, <1>4 DEF Next

(* The inductive invariant holds in every state the manager and its handlers *)
(* can reach.                                                                *)
THEOREM ManagerInvariance == Spec => []ManagerInv
BY InitManager, ManagerNext, PTL DEF Spec

(* The default index always has an engine, and nothing refers to an engine   *)
(* that was dropped (engine.rs:640-665).                                     *)
THEOREM ManagerTypes == Spec => []TypeOK
<1>1. ManagerInv => TypeOK
  BY DEF ManagerInv
<1>2. QED
  BY <1>1, ManagerInvariance, PTL

(* What queries of an index find a restart finds too, whatever handlers,     *)
(* deletions and the engines these left behind write to its directory, and   *)
(* whatever of it a failing removal leaves; unless it could not be opened    *)
(* again, or was created over a log another engine has open                  *)
(* (engine.rs:687-702, 712-740).                                             *)
THEOREM IndexesStayDurable == Spec => []IndexesAreDurable
<1>1. ManagerInv => IndexesAreDurable
  BY DEF ManagerInv
<1>2. QED
  BY <1>1, ManagerInvariance, PTL

(* A deleted index, the default one until it is opened again, leaves nothing *)
(* on disk that a restart could bring back, unless an engine at work wrote   *)
(* there meanwhile, the removal failed, or a creation failed                 *)
(* (engine.rs:717-718, 730-734).                                             *)
THEOREM DeletedIsGone == Spec => []DeletedUnlessStray
<1>1. ManagerInv => DeletedUnlessStray
  BY DEF ManagerInv
<1>2. QED
  BY <1>1, ManagerInvariance, PTL

(* A handler no deletion overtook adds to the engine queries reach.          *)
LEMMA AdditionSeen ==
  ASSUME ManagerInv, NEW h \in Handlers, AddDocument(h), h \notin late
  PROVE  /\ indexes'[req[h].name] # None
         /\ req[h].id \in engines'[indexes'[req[h].name]].index
<1> DEFINE n == req[h].name
           e == ref[h]
           all == [engines EXCEPT ![e].index = @ \cup {req[h].id},
                                  ![e].buffered = @ \cup {req[h].id}]
<1>1. pc[h] \in Working
  BY DEF AddDocument, Acquire, Working
<1>2. n \in Names /\ e \in DOMAIN engines /\ engines[e] \in Engines
  BY <1>1, HandlerHas DEF Live
<1>3. indexes' = indexes /\ indexes[n] = e /\ e # None
  BY <1>1 DEF AddDocument, ManagerInv, StagesOK, Working
<1>4. DOMAIN all = DOMAIN engines /\ req[h].id \in all[e].index
  BY <1>2 DEF Engines
<1>5. e \in Range(indexes')
  BY <1>2, <1>3 DEF Range, ManagerInv, TypeOK
<1>6. engines' = Kept(all) \/ engines' = all
  BY DEF AddDocument
<1>7. engines'[e] = all[e]
  BY <1>2, <1>4, <1>5, <1>6 DEF Kept, Restrict
<1>8. QED
  BY <1>3, <1>4, <1>7

(* An addition that returns is visible in its index, unless a deletion of    *)
(* the index overlapped it (server.rs:310-322).                              *)
THEOREM AdditionsAreSeen == Spec => AdditionsAreVisible
<1>1. ManagerInv /\ [Next]_vars =>
        [\A h \in Handlers :
           AddDocument(h) /\ h \notin late =>
             /\ indexes'[req[h].name] # None
             /\ req[h].id \in engines'[indexes'[req[h].name]].index]_vars
  BY AdditionSeen
<1>2. QED
  BY <1>1, ManagerInvariance, PTL DEF Spec, AdditionsAreVisible
=============================================================================
