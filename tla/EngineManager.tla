---------------------------- MODULE EngineManager ----------------------------
(***************************************************************************)
(* The EngineManager (src/engine.rs) and the HTTP handlers that use it     *)
(* (src/server.rs), run by several threads.                                *)
(*                                                                         *)
(* A handler takes the manager's RwLock to look an engine up, releases it, *)
(* then takes the engine's own RwLock: in between, and while it works, the *)
(* index may be deleted, because delete_index holds only the manager's     *)
(* lock while it removes the directory.  A lock is held in certain stages  *)
(* (pc), so it needs no variable.  What one engine does on its own is in   *)
(* SearchEngine; of a document only its id is kept here.                   *)
(* A definition named x_y, before the definition x, is x with a seeded bug *)
(* (PROJECT.json, "mutants"): a property that holds must fail with it.     *)
(***************************************************************************)
EXTENDS Integers, FiniteSets, Functions

CONSTANTS
  Handlers,    \* the threads that serve requests
  Names,       \* index names
  Default,     \* the index there always is
  Ids,         \* document ids
  Ops,         \* the requests that are made
  DiskFaults   \* may opening an engine or removing a directory fail by itself

ASSUME DefaultAssumption == Default \in Names
ASSUME HandlersAssumption == IsFiniteSet(Handlers) /\ IsFiniteSet(Names)
ASSUME DiskFaultsAssumption == DiskFaults \in BOOLEAN
ASSUME ManagerOpsAssumption ==
  Ops \subseteq {"index_doc", "delete_doc", "read", "flush", "compact",
                 "create_index", "delete_index"}

VARIABLES
  indexes,   \* EngineManager.indexes: from name to engine, or None
  engines,   \* the engines that indexes or a handler refers to
  disk,      \* the directory of each index
  pc,        \* the stage of each handler
  req,       \* its request
  ref,       \* the engine it refers to, or None
  merged,    \* what its compaction read
  late,      \* history: handlers whose index was deleted since they began
  stray,     \* history: names whose directory was written by an engine while
             \*   or after it was deleted, or not removed, or could not be opened
  broken     \* history: names whose engine could not be opened again, or was
             \*   opened on a log that an engine left by a deletion has open

server == <<pc, req, ref, merged, late>>
vars   == <<indexes, engines, disk, server, stray, broken>>

----------------------------------------------------------------------------
None == 0

Requests == [op : Ops, name : Names, id : Ids]
NoRequest == [op |-> "none"]

\* What wal.log says of each id: its last record, if any.
Logs == [Ids -> {"none", "add", "delete"}]
NoLog == [id \in Ids |-> "none"]
With(log, what) == {id \in Ids : log[id] = what}

\* A directory: is it there, the ids in its segments, and its log.  An engine:
\* its directory, its index and buffer, and whether the log file it holds open
\* is the one in its directory, as it is until that is removed.
Directories == [there : BOOLEAN, segments : SUBSET Ids, log : Logs]
NoDirectory == [there |-> FALSE, segments |-> {}, log |-> NoLog]
Engines == [name : Names, index : SUBSET Ids, buffered : SUBSET Ids, linked : BOOLEAN]

Recovered(n) ==
  (disk[n].segments \cup With(disk[n].log, "add")) \ With(disk[n].log, "delete")

Live == DOMAIN engines
Fresh == CHOOSE e \in 1..(Cardinality(Live) + 1) : e \notin Live

\* SearchEngine::open on the directory of n.
Opened(n) == [name |-> n, index |-> Recovered(n),
              buffered |-> With(disk[n].log, "add"), linked |-> TRUE]
Created(n) == [disk EXCEPT ![n].there = TRUE]

\* Engines that nothing refers to any more are dropped.
Kept(all) == Restrict(all, DOMAIN all \cap (Range(indexes') \cup Range(ref')))

\* The manager's lock, and the lock of an engine.
ManagerLocked == \E h \in Handlers : pc[h] \in {"remove", "reopen"}
EngineLocked(e) ==
  \E h \in Handlers : ref[h] = e /\ pc[h] \in {"flush", "write", "list", "merge"}

Deleting(n) == \E h \in Handlers : pc[h] \in {"remove", "reopen"} /\ req[h].name = n

----------------------------------------------------------------------------
Init ==
  /\ indexes = [n \in Names |-> IF n = Default THEN 1 ELSE None]
  /\ engines = [e \in {1} |-> [name |-> Default, index |-> {}, buffered |-> {},
                               linked |-> TRUE]]
  /\ disk = [n \in Names |-> [NoDirectory EXCEPT !.there = (n = Default)]]
  /\ pc = [h \in Handlers |-> "idle"]
  /\ req = [h \in Handlers |-> NoRequest]
  /\ ref = [h \in Handlers |-> None]
  /\ merged = [h \in Handlers |-> {}]
  /\ late = {} /\ stray = {} /\ broken = {}

Goto(h, stage) == pc' = [pc EXCEPT ![h] = stage]
Return(h) ==
  /\ Goto(h, "idle")
  /\ req' = [req EXCEPT ![h] = NoRequest]
  /\ ref' = [ref EXCEPT ![h] = None]
  /\ merged' = [merged EXCEPT ![h] = {}]
  /\ late' = late \ {h}

\* A request begins with the manager's lock.
Begin(h, r) == pc[h] = "idle" /\ r.op \in Ops /\ ~ManagerLocked

\* With the engine in hand, the handler releases the manager's lock.
Hold(h, r, e) ==
  /\ Goto(h, "waiting")
  /\ req' = [req EXCEPT ![h] = r]
  /\ ref' = [ref EXCEPT ![h] = e]
  /\ UNCHANGED <<merged, late>>

(* get_or_create, under the manager's write lock; create_index is just that. *)
Existing_unchecked(n) == None
Existing(n) == indexes[n]

GetExisting(h, r) ==
  /\ Begin(h, r) /\ r.op \in {"index_doc", "create_index"}
  /\ Existing(r.name) # None
  /\ IF r.op = "index_doc" THEN Hold(h, r, Existing(r.name)) ELSE UNCHANGED server
  /\ UNCHANGED <<indexes, engines, disk, stray, broken>>

CreateIndex(h, r) ==
  /\ Begin(h, r) /\ r.op \in {"index_doc", "create_index"}
  /\ Existing(r.name) = None
  /\ LET e == Fresh IN
       /\ indexes' = [indexes EXCEPT ![r.name] = e]
       /\ engines' = [f \in Live \cup {e} |-> IF f = e THEN Opened(r.name) ELSE engines[f]]
       /\ IF r.op = "index_doc" THEN Hold(h, r, e) ELSE UNCHANGED server
  /\ disk' = Created(r.name)
  /\ broken' = IF \E f \in Live : engines[f].linked /\ engines[f].name = r.name
                 THEN broken \cup {r.name} ELSE broken
  /\ UNCHANGED stray

\* The error goes to the client, after create_dir_all.
CreateFails(h, r) ==
  /\ Begin(h, r) /\ r.op \in {"index_doc", "create_index"} /\ DiskFaults
  /\ Existing(r.name) = None
  /\ disk' = Created(r.name)
  /\ stray' = stray \cup {r.name}
  /\ UNCHANGED <<indexes, engines, server, broken>>

\* The other handlers look the index up under the read lock; 404 if there is none.
Get(h, r) ==
  /\ Begin(h, r) /\ r.op \in {"delete_doc", "read", "flush", "compact"}
  /\ IF indexes[r.name] = None THEN UNCHANGED server ELSE Hold(h, r, indexes[r.name])
  /\ UNCHANGED <<indexes, engines, disk, stray, broken>>

----------------------------------------------------------------------------
(* Then it takes the engine's lock. *)

Acquire(h, op) == pc[h] = "waiting" /\ req[h].op = op /\ ~EngineLocked(ref[h])

\* A record reaches the directory only through the log file that is there.
Logged_byPath(h, log) == [disk EXCEPT ![req[h].name].log = log]
Logged(h, log) ==
  IF engines[ref[h]].linked THEN [disk EXCEPT ![req[h].name].log = log] ELSE disk
Mark(h, what) == [disk[req[h].name].log EXCEPT ![req[h].id] = what]

\* add_document may bring the buffer to the flush threshold.
AddDocument(h) ==
  /\ Acquire(h, "index_doc")
  /\ UNCHANGED <<indexes, stray, broken>>
  /\ disk' = Logged(h, Mark(h, "add"))
  /\ LET all == [engines EXCEPT ![ref[h]].index = @ \cup {req[h].id},
                                ![ref[h]].buffered = @ \cup {req[h].id}]
     IN \/ Return(h) /\ engines' = Kept(all)
        \/ Goto(h, "flush") /\ engines' = all /\ UNCHANGED <<req, ref, merged, late>>

DeleteDocument(h) ==
  /\ Acquire(h, "delete_doc")
  /\ UNCHANGED <<indexes, stray, broken>>
  /\ disk' = Logged(h, Mark(h, "delete"))
  /\ Return(h)
  /\ engines' = Kept([engines EXCEPT ![ref[h]].index = @ \ {req[h].id},
                                     ![ref[h]].buffered = @ \ {req[h].id}])

\* get_document, search and stats, under the engine's read lock.
Read(h) ==
  /\ Acquire(h, "read")
  /\ UNCHANGED <<indexes, disk, stray, broken>>
  /\ Return(h)
  /\ engines' = Kept(engines)

FlushCalled(h) ==
  /\ Acquire(h, "flush") \/ Acquire(h, "compact")
  /\ UNCHANGED <<indexes, disk, stray, broken>>
  /\ \/ engines[ref[h]].buffered # {} /\ Goto(h, "flush")
        /\ UNCHANGED <<engines, req, ref, merged, late>>
     \/ /\ engines[ref[h]].buffered = {}
        /\ IF req[h].op = "compact"
             THEN Goto(h, "list") /\ UNCHANGED <<engines, req, ref, merged, late>>
             ELSE Return(h) /\ engines' = Kept(engines)

\* Does this handler's engine own its directory, and nobody removes that?
Owner(h) == indexes[req[h].name] = ref[h] /\ ~Deleting(req[h].name)
Stray(h) == IF Owner(h) THEN stray ELSE stray \cup {req[h].name}

\* flush begins with create_dir_all, whatever became of the directory.
FlushDirectory_asksManager(h) ==
  /\ pc[h] = "flush" /\ ~ManagerLocked
  /\ disk' = Created(req[h].name)
  /\ stray' = Stray(h)
  /\ Goto(h, "write")
  /\ UNCHANGED <<indexes, engines, req, ref, merged, late, broken>>
FlushDirectory(h) ==
  /\ pc[h] = "flush"
  /\ disk' = Created(req[h].name)
  /\ stray' = Stray(h)
  /\ Goto(h, "write")
  /\ UNCHANGED <<indexes, engines, req, ref, merged, late, broken>>

AfterFlush(h, all) ==
  IF req[h].op = "compact"
    THEN Goto(h, "list") /\ engines' = all /\ UNCHANGED <<req, ref, merged, late>>
    ELSE Return(h) /\ engines' = Kept(all)

WriteSegment(h) ==
  LET n == req[h].name e == ref[h] IN
  /\ pc[h] = "write" /\ disk[n].there
  /\ UNCHANGED <<indexes, broken>>
  /\ disk' = [Logged(h, NoLog) EXCEPT ![n].segments = @ \cup engines[e].buffered]
  /\ AfterFlush(h, [engines EXCEPT ![e].buffered = {}])
  /\ stray' = Stray(h)

\* A deletion removed the directory, or what it could of it.
Swept(h) == LET n == req[h].name IN ~disk[n].there \/ (n \in stray /\ ~Owner(h))

\* It did so before File::create, or with the new file in it.
WriteNowhere(h) ==
  /\ pc[h] = "write" /\ Swept(h)
  /\ UNCHANGED <<indexes, stray, broken>>
  /\ \/ Return(h) /\ engines' = Kept(engines) /\ UNCHANGED disk
     \/ /\ AfterFlush(h, [engines EXCEPT ![ref[h]].buffered = {}])
        /\ disk' = Logged(h, NoLog)

\* compact reads every segment (one or none is left alone), then writes their
\* union and removes what it read, if the directory is still there.
ReadSegments(h) ==
  /\ pc[h] = "list"
  /\ UNCHANGED <<indexes, disk, stray, broken>>
  /\ \/ /\ disk[req[h].name].there
        /\ merged' = [merged EXCEPT ![h] = disk[req[h].name].segments]
        /\ Goto(h, "merge")
        /\ UNCHANGED <<engines, req, ref, late>>
     \/ Return(h) /\ engines' = Kept(engines)

WriteMerged(h) ==
  LET n == req[h].name IN
  /\ pc[h] = "merge"
  /\ UNCHANGED <<indexes, broken>>
  /\ \/ /\ disk[n].there
        /\ disk' = [disk EXCEPT ![n].segments = @ \cup merged[h]]
        /\ stray' = Stray(h)
     \/ Swept(h) /\ UNCHANGED <<disk, stray>>
  /\ Return(h)
  /\ engines' = Kept(engines)

----------------------------------------------------------------------------
(* delete_index, under the manager's write lock. *)

Overtaken(h, n) == {k \in Handlers \ {h} : pc[k] # "idle" /\ req[k].name = n}

\* All but the default index leave the map first; false if there was none.
Unmap_anyName(h, r) ==
  /\ Begin(h, r) /\ r.op = "delete_index"
  /\ UNCHANGED <<disk, stray>>
  /\ IF indexes[r.name] = None
       THEN UNCHANGED <<indexes, engines, server, broken>>
       ELSE /\ indexes' = [indexes EXCEPT ![r.name] = None]
            /\ broken' = broken \ {r.name}
            /\ Goto(h, "remove")
            /\ req' = [req EXCEPT ![h] = r]
            /\ late' = late \cup Overtaken(h, r.name)
            /\ UNCHANGED <<ref, merged>>
            /\ engines' = Kept(engines)
Unmap(h, r) ==
  /\ Begin(h, r) /\ r.op = "delete_index" /\ r.name # Default
  /\ UNCHANGED <<disk, stray>>
  /\ IF indexes[r.name] = None
       THEN UNCHANGED <<indexes, engines, server, broken>>
       ELSE /\ indexes' = [indexes EXCEPT ![r.name] = None]
            /\ broken' = broken \ {r.name}
            /\ Goto(h, "remove")
            /\ req' = [req EXCEPT ![h] = r]
            /\ late' = late \cup Overtaken(h, r.name)
            /\ UNCHANGED <<ref, merged>>
            /\ engines' = Kept(engines)

\* remove_dir_all of n, if it is there.  It gives up at the first error, ignored
\* by one of its callers and returned by the other, with some of the files gone:
\* at an I/O error anywhere, or, with the segments directory just emptied, because
\* a flush has put a file in it; the log may be gone by then or not.
Interrupted(n) == \E k \in Handlers : pc[k] \in {"write", "merge"} /\ req[k].name = n
RemoveDirectory(n) ==
  \E fails \in BOOLEAN, logGone \in BOOLEAN, left \in SUBSET disk[n].segments :
    /\ fails => disk[n].there /\ (DiskFaults \/ (Interrupted(n) /\ left = {}))
    /\ ~fails => logGone /\ left = {}
    /\ disk' = [disk EXCEPT ![n] = [there |-> fails, segments |-> left,
                                    log |-> IF logGone THEN NoLog ELSE @.log]]
    /\ engines' = [e \in Live |->
         [engines[e] EXCEPT !.linked = @ /\ ~(logGone /\ engines[e].name = n)]]
    /\ stray' = IF fails THEN stray \cup {n} ELSE stray \ {n}

DeleteDirectory_mapOnly(h) ==
  /\ pc[h] = "remove"
  /\ Return(h)
  /\ UNCHANGED <<indexes, engines, disk, stray, broken>>
DeleteDirectory(h) ==
  /\ pc[h] = "remove"
  /\ RemoveDirectory(req[h].name)
  /\ Return(h)
  /\ UNCHANGED <<indexes, broken>>

\* The default index keeps its engine: its directory is removed, then the
\* engine's lock is awaited, with the manager's lock held.
DeleteDefault(h, r) ==
  /\ Begin(h, r) /\ r.op = "delete_index" /\ r.name = Default
  /\ RemoveDirectory(Default)
  /\ Goto(h, "reopen")
  /\ req' = [req EXCEPT ![h] = r]
  /\ late' = late \cup Overtaken(h, Default)
  /\ UNCHANGED <<indexes, ref, merged, broken>>

Reopen(h) ==
  /\ pc[h] = "reopen" /\ ~EngineLocked(indexes[Default])
  /\ engines' = [engines EXCEPT ![indexes[Default]] = Opened(Default)]
  /\ disk' = Created(Default)
  /\ broken' = broken \ {Default}
  /\ Return(h)
  /\ UNCHANGED <<indexes, stray>>

\* The old engine stays, without its directory.
ReopenFails(h) ==
  /\ pc[h] = "reopen" /\ ~EngineLocked(indexes[Default]) /\ DiskFaults
  /\ disk' = Created(Default)
  /\ stray' = stray \cup {Default}
  /\ broken' = broken \cup {Default}
  /\ Return(h)
  /\ UNCHANGED <<indexes, engines>>

----------------------------------------------------------------------------
(* The process is killed and started again: load_existing_indexes opens     *)
(* every directory there is, and the default index.                         *)
Found == {n \in Names : disk[n].there} \cup {Default}
Restart ==
  \E slot \in {f \in [Found -> 1..Cardinality(Found)] : IsInjective(f)} :
    /\ indexes' = [n \in Names |-> IF n \in Found THEN slot[n] ELSE None]
    /\ engines' = [e \in 1..Cardinality(Found) |->
                     Opened(CHOOSE n \in Found : slot[n] = e)]
    /\ disk' = Created(Default)
    /\ pc' = [h \in Handlers |-> "idle"]
    /\ req' = [h \in Handlers |-> NoRequest]
    /\ ref' = [h \in Handlers |-> None]
    /\ merged' = [h \in Handlers |-> {}]
    /\ late' = {} /\ stray' = {} /\ broken' = {}

----------------------------------------------------------------------------
Start(h, r) == GetExisting(h, r) \/ CreateIndex(h, r) \/ CreateFails(h, r) \/ Get(h, r)
               \/ Unmap(h, r) \/ DeleteDefault(h, r)
Work(h) == AddDocument(h) \/ DeleteDocument(h) \/ Read(h) \/ FlushCalled(h)
           \/ FlushDirectory(h) \/ WriteSegment(h) \/ WriteNowhere(h)
           \/ ReadSegments(h) \/ WriteMerged(h)
           \/ DeleteDirectory(h) \/ Reopen(h) \/ ReopenFails(h)
Next == (\E h \in Handlers : (\E r \in Requests : Start(h, r)) \/ Work(h)) \/ Restart

Spec == Init /\ [][Next]_vars

\* Every thread is scheduled; nothing is assumed of who wins a contended lock.
FairSpec == Spec /\ \A h \in Handlers : WF_vars(Work(h))

----------------------------------------------------------------------------
(* The types; the default index always has an engine, and no index or        *)
(* handler refers to an engine that was dropped.                            *)
TypeOK ==
  /\ indexes \in [Names -> Live \cup {None}] /\ indexes[Default] # None
  /\ engines \in [Live -> Engines] /\ Live \subseteq Nat \ {None}
  /\ disk \in [Names -> Directories]
  /\ pc \in [Handlers -> {"idle", "waiting", "flush", "write", "list", "merge",
                          "remove", "reopen"}]
  /\ req \in [Handlers -> Requests \cup {NoRequest}]
  /\ ref \in [Handlers -> Live \cup {None}]
  /\ merged \in [Handlers -> SUBSET Ids]
  /\ late \subseteq Handlers /\ stray \subseteq Names /\ broken \subseteq Names

(* The engine queries reach owns its directory's log, and every document it *)
(* serves is in that directory, whatever engines that a deletion left behind *)
(* still write there, unless the index is being deleted (engine.rs:687-702, *)
(* 712-740).  Two indexes are excepted, until they are deleted or the        *)
(* process ends: the default one if it could not be opened again, and one    *)
(* that was created where a directory could not be removed, its log still    *)
(* open in an engine that a request holds (engine.rs:721, 733).              *)
IndexesAreDurable ==
  \A n \in Names : indexes[n] # None /\ ~Deleting(n) /\ n \notin broken =>
    engines[indexes[n]].linked /\ engines[indexes[n]].index \subseteq Recovered(n)

(* A deleted index is gone from disk too, the default one until it is opened *)
(* again.  Its directory may be there if an engine wrote to it while or      *)
(* after it was removed, if the removal failed (the client of a named index  *)
(* is told), or if a creation failed (engine.rs:717-718, 730-734).           *)
Gone(n) == IF n = Default THEN Deleting(n) ELSE indexes[n] = None /\ ~Deleting(n)
DeletedUnlessStray ==
  \A n \in Names : Gone(n) /\ n \notin stray => disk[n] = NoDirectory

(* An addition that returns is visible in its index, unless a deletion of   *)
(* the index overlapped it: no two handlers ever create the same index      *)
(* twice, which would lose what went to the first (server.rs:310-322).      *)
AdditionsAreVisible ==
  [][\A h \in Handlers :
       AddDocument(h) /\ h \notin late =>
         /\ indexes'[req[h].name] # None
         /\ req[h].id \in engines'[indexes'[req[h].name]].index]_vars

(* The threads never wait on each other for good: while all are busy, one   *)
(* of them will end (manager's lock before engine's, engine.rs:717-720).    *)
SomeRequestEnds == []<>(\E h \in Handlers : pc[h] = "idle")

(* A deletion, which keeps every new request waiting for the manager's lock, *)
(* ends: the default index's waits for the handlers at work on the engine,   *)
(* and they need no manager (engine.rs:712-728).                             *)
DeletionsEnd ==
  \A h \in Handlers : pc[h] \in {"remove", "reopen"} ~> pc[h] = "idle"

(* engine.rs:711: delete_index deletes the index from disk and memory.      *)
DeletedFromDisk ==
  \A n \in Names : indexes[n] = None /\ ~Deleting(n) => disk[n] = NoDirectory
=============================================================================
