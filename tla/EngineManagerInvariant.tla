----------------------- MODULE EngineManagerInvariant ------------------------
(***************************************************************************)
(* The inductive invariant behind the theorems of EngineManagerProofs.     *)
(* That an index is durable depends on who else has its log open: engines  *)
(* that outlived a deletion have lost their log file, and if one has not,  *)
(* because the directory could not be removed, an index that is created    *)
(* there is broken.  The buffer of the engine in the map has every         *)
(* addition the log alone holds, so that the flush which empties the log   *)
(* loses none.                                                             *)
(***************************************************************************)
EXTENDS EngineManager

(* What a handler refers to, by its stage; a handler no deletion overtook   *)
(* has the engine of the map.                                               *)
StagesOK ==
  \A h \in Handlers :
    /\ pc[h] \in {"idle", "remove", "reopen"} <=> ref[h] = None
    /\ pc[h] # "idle" => req[h] \in Requests
    /\ pc[h] = "remove" => req[h].name # Default /\ indexes[req[h].name] = None
    /\ pc[h] = "reopen" => req[h].name = Default
    /\ ref[h] # None =>
         engines[ref[h]].name = req[h].name
         /\ (h \notin late => indexes[req[h].name] = ref[h])

(* A deletion holds the manager's lock, so there is one at a time.           *)
OneDeletion ==
  \A h, k \in Handlers :
    pc[h] \in {"remove", "reopen"} /\ pc[k] \in {"remove", "reopen"} => h = k

(* The map and the engines agree on names, the default index never has but  *)
(* one engine, and new engines can be numbered.                             *)
MapOK ==
  /\ IsFiniteSet(Live)
  /\ \A n \in Names : indexes[n] # None => engines[indexes[n]].name = n
  /\ \A e \in Live : engines[e].name = Default => e = indexes[Default]

(* No directory, no log: an engine whose log is linked has its directory.   *)
LinkedIsThere == \A e \in Live : engines[e].linked => disk[engines[e].name].there
GoneIsEmpty   == \A n \in Names : ~disk[n].there => disk[n] = NoDirectory

(* While there is an engine in the map, only that writes to the log.        *)
OthersAreUnlinked ==
  \A e \in Live :
    engines[e].linked => \/ indexes[engines[e].name] \in {None, e}
                         \/ engines[e].name \in broken

(* Its buffer has every addition that only the log holds.                   *)
BufferHasLog ==
  \A n \in Names : indexes[n] # None /\ ~Deleting(n) /\ n \notin broken =>
    With(disk[n].log, "add") \subseteq engines[indexes[n]].buffered

ManagerInv ==
  /\ TypeOK /\ StagesOK /\ OneDeletion /\ MapOK
  /\ LinkedIsThere /\ GoneIsEmpty /\ OthersAreUnlinked /\ BufferHasLog
  /\ IndexesAreDurable /\ DeletedUnlessStray
=============================================================================
