---------------------------- MODULE DocumentStore ----------------------------
(***************************************************************************)
(* What a persistent SearchEngine promises its callers: a map from         *)
(* document ids to documents that changes only when a requested            *)
(* add_document or delete_document takes effect, once, and never because   *)
(* of a flush, a compaction, a crash or a restart.  At most one request is *)
(* under way, as the methods take `&mut self`.                             *)
(***************************************************************************)
CONSTANTS Ids,      \* document ids
          Docs,     \* documents (title and body)
          NoDoc     \* "there is no document with this id"

VARIABLES docs,     \* the document each id stands for
          pending   \* the request that has not taken effect, or NoRequest

vars == <<docs, pending>>

Adds    == [op : {"add"}, id : Ids, doc : Docs]
Deletes == [op : {"delete"}, id : Ids, doc : {NoDoc}]
Requests  == Adds \cup Deletes
NoRequest == [op |-> "none"]

Empty == [id \in Ids |-> NoDoc]
Effect(map, r) == [map EXCEPT ![r.id] = r.doc]

Init == docs = Empty /\ pending = NoRequest

Ask(r) == pending = NoRequest /\ pending' = r /\ UNCHANGED docs

Commit == /\ pending # NoRequest
          /\ docs' = Effect(docs, pending)
          /\ pending' = NoRequest

\* A crash before the request reached the disk: the caller got no answer.
Forget == pending # NoRequest /\ pending' = NoRequest /\ UNCHANGED docs

Next == (\E r \in Requests : Ask(r)) \/ Commit \/ Forget

Spec == Init /\ [][Next]_vars
=============================================================================
