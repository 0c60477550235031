---------------------------- MODULE InvertedIndex ----------------------------
(***************************************************************************)
(* The InvertedIndex (src/index.rs): postings, stored documents and corpus *)
(* metadata, kept in step by every change.  One index is changed by its    *)
(* users; another stands for a segment, which is written from the first,   *)
(* read back, and merged with it as opening and compaction do.             *)
(* A document is the sequence of terms its title and body are analysed     *)
(* into; a term's positions count from 0, from the title into the body.    *)
(* A definition named x_y, before the definition x, is x with a seeded bug *)
(* (PROJECT.json, "mutants"): a property that holds must fail with it.     *)
(***************************************************************************)
EXTENDS SequencesExt

CONSTANTS Ids,     \* document ids
          Terms,   \* terms
          Docs     \* documents: sequences of terms

ASSUME DocsAssumption == Docs \subseteq Seq(Terms)

VARIABLES index,     \* the index that is changed
          segment    \* a segment's index

vars == <<index, segment>>

----------------------------------------------------------------------------
PositionsOf(doc, t) == {p \in 0..Len(doc) - 1 : doc[p + 1] = t}
Posting(id, doc, t) ==
  [doc_id |-> id, term_frequency |-> Cardinality(PositionsOf(doc, t)),
   positions |-> PositionsOf(doc, t)]

\* An index: from term to its postings, in the order they were added; the
\* documents by id; and the metadata.
New == [postings |-> <<>>, documents |-> <<>>,
        total_docs |-> 0, total_doc_length |-> 0, doc_lengths |-> <<>>]

Get(postings, t) == IF t \in DOMAIN postings THEN postings[t] ELSE <<>>
\* The postings of other documents, in their order.
Without(list, ids) ==
  LET kept[k \in 0..Len(list)] ==
        IF k = 0 THEN <<>>
        ELSE IF list[k].doc_id \in ids THEN kept[k - 1] ELSE Append(kept[k - 1], list[k])
  IN kept[Len(list)]

\* Terms whose postings become empty leave the index.
DropPostings(postings, ids) ==
  [t \in {u \in DOMAIN postings : Without(postings[u], ids) # <<>>} |->
     Without(postings[t], ids)]

RemoveDocumentPostings_postingsOnly(ix, id) ==
  [ix EXCEPT !.postings = DropPostings(@, {id})]
RemoveDocumentPostings(ix, id) ==
  LET dropped == [ix EXCEPT !.postings = DropPostings(@, {id})]
  IN IF id \in DOMAIN ix.doc_lengths
       THEN [dropped EXCEPT !.total_doc_length = @ - ix.doc_lengths[id],
                            !.total_docs = @ - 1,
                            !.doc_lengths = Restrict(@, DOMAIN @ \ {id})]
       ELSE dropped

Put(f, x, v) == [y \in DOMAIN f \cup {x} |-> IF y = x THEN v ELSE f[y]]

AddDocument(ix, id, doc) ==
  LET old == IF id \in DOMAIN ix.documents THEN RemoveDocumentPostings(ix, id) ELSE ix
  IN [postings  |-> [t \in DOMAIN old.postings \cup ToSet(doc) |->
                       IF t \in ToSet(doc)
                         THEN Append(Get(old.postings, t), Posting(id, doc, t))
                         ELSE old.postings[t]],
      documents |-> Put(old.documents, id, doc),
      total_docs |-> old.total_docs + 1,
      total_doc_length |-> old.total_doc_length + Len(doc),
      doc_lengths |-> Put(old.doc_lengths, id, Len(doc))]

DeleteDocument(ix, id) ==
  IF id \notin DOMAIN ix.documents THEN ix
  ELSE RemoveDocumentPostings(
         [ix EXCEPT !.documents = Restrict(@, DOMAIN @ \ {id})], id)

\* merge_with: documents of both are the other's, so their old postings go
\* first; a posting takes the place of the first one of its document, or is added.
Place(list, p) ==
  LET same == {k \in DOMAIN list : list[k].doc_id = p.doc_id}
  IN IF same = {} THEN Append(list, p) ELSE [list EXCEPT ![Min(same)] = p]
MergeLists(list, more) ==
  LET merged[k \in 0..Len(more)] == IF k = 0 THEN list ELSE Place(merged[k - 1], more[k])
  IN merged[Len(more)]
Replaced_none(ix, other) == {}
Replaced(ix, other) == DOMAIN ix.documents \cap DOMAIN other.documents

MergeWith(ix, other) ==
  LET old == DropPostings(ix.postings, Replaced(ix, other))
      documents == [id \in DOMAIN ix.documents \cup DOMAIN other.documents |->
                      IF id \in DOMAIN other.documents THEN other.documents[id]
                      ELSE ix.documents[id]]
      lengths == [id \in DOMAIN documents |-> Len(documents[id])]
  IN [postings  |-> [t \in DOMAIN old \cup DOMAIN other.postings |->
                       MergeLists(Get(old, t), Get(other.postings, t))],
      documents |-> documents,
      total_docs |-> Cardinality(DOMAIN documents),
      total_doc_length |-> SumFunction(lengths),
      doc_lengths |-> lengths]

\* A segment file holds the documents, postings and lengths; the number of
\* documents is read back as the number of entries.
ReadBack(ix) == [ix EXCEPT !.total_docs = Cardinality(DOMAIN ix.documents)]

----------------------------------------------------------------------------
Init == index = New /\ segment = New

Add(id, doc) == index' = AddDocument(index, id, doc) /\ UNCHANGED segment
Delete(id)   == index' = DeleteDocument(index, id) /\ UNCHANGED segment

\* A flush empties the buffer into a segment; opening and compaction merge the
\* segment with what was read before or after it.
Flush == segment' = ReadBack(index) /\ index' = New
LoadAfter  == index' = MergeWith(index, segment) /\ UNCHANGED segment
LoadBefore == index' = MergeWith(segment, index) /\ UNCHANGED segment

Next == \/ \E id \in Ids : Delete(id) \/ \E doc \in Docs : Add(id, doc)
        \/ Flush \/ LoadAfter \/ LoadBefore

Spec == Init /\ [][Next]_vars

----------------------------------------------------------------------------
Holding(ix, t) == {id \in DOMAIN ix.documents : t \in ToSet(ix.documents[id])}

(* The postings of each term are one per document that holds it, with its   *)
(* positions there, and there are no other terms: nothing of a replaced or  *)
(* deleted document is left, whatever was merged (index.rs:158-171,         *)
(* 253-275).  A search sees exactly the stored documents.                   *)
PostingsMatch(ix) ==
  /\ DOMAIN ix.postings = UNION {ToSet(ix.documents[id]) : id \in DOMAIN ix.documents}
  /\ \A t \in DOMAIN ix.postings :
       /\ ToSet(ix.postings[t]) =
            {Posting(id, ix.documents[id], t) : id \in Holding(ix, t)}
       /\ Len(ix.postings[t]) = Cardinality(Holding(ix, t))

(* The metadata count the stored documents: incremental changes and the     *)
(* recount of a merge agree, and no subtraction goes below zero             *)
(* (index.rs:138-141, 166-170, 276-294).                                    *)
MetadataMatches(ix) ==
  /\ ix.doc_lengths = [id \in DOMAIN ix.documents |-> Len(ix.documents[id])]
  /\ ix.total_docs = Cardinality(DOMAIN ix.documents)
  /\ ix.total_doc_length = SumFunction(ix.doc_lengths)

(* Both, for the index in use and for the one in the segment.               *)
PostingsMatchDocuments == PostingsMatch(index) /\ PostingsMatch(segment)
MetadataMatchDocuments == MetadataMatches(index) /\ MetadataMatches(segment)

(* The types: counters are natural numbers, postings belong to known ids.   *)
TypeOK ==
  \A ix \in {index, segment} :
    /\ DOMAIN ix.documents \subseteq Ids /\ DOMAIN ix.postings \subseteq Terms
    /\ ix.total_docs \in Nat /\ ix.total_doc_length \in Nat
    /\ DOMAIN ix.doc_lengths = DOMAIN ix.documents
=============================================================================
