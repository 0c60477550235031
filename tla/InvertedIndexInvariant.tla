----------------------- MODULE InvertedIndexInvariant ------------------------
(***************************************************************************)
(* The inductive invariant behind the theorems of InvertedIndexProofs: the *)
(* properties of InvertedIndex with the lists of postings one by one, none *)
(* of which has two postings of a document, or is empty.                   *)
(***************************************************************************)
EXTENDS InvertedIndex

AllPostings == {Posting(id, doc, t) : id \in Ids, doc \in Docs, t \in Terms}

\* The ids of the documents that hold a term.
HoldingIn(documents, t) == {id \in DOMAIN documents : t \in ToSet(documents[id])}

\* No document has two postings in a list.
Distinct(list) ==
  \A i, j \in 1..Len(list) : list[i].doc_id = list[j].doc_id => i = j

\* The list of a term: a posting for each document that holds it.
ListMatches(list, documents, t) ==
  /\ list \in Seq(AllPostings) /\ Distinct(list)
  /\ ToSet(list) = {Posting(id, documents[id], t) : id \in HoldingIn(documents, t)}

DocumentsOK(documents) ==
  /\ DOMAIN documents \subseteq Ids /\ IsFiniteSet(DOMAIN documents)
  /\ documents \in [DOMAIN documents -> Docs]

Matches(postings, documents) ==
  /\ DocumentsOK(documents)
  /\ DOMAIN postings \subseteq Terms /\ postings \in [DOMAIN postings -> Seq(AllPostings)]
  /\ \A t \in Terms : ListMatches(Get(postings, t), documents, t)
  /\ \A t \in DOMAIN postings : postings[t] # <<>>

IndexOK(ix) ==
  /\ ix = [postings |-> ix.postings, documents |-> ix.documents,
           total_docs |-> ix.total_docs, total_doc_length |-> ix.total_doc_length,
           doc_lengths |-> ix.doc_lengths]
  /\ Matches(ix.postings, ix.documents)
  /\ MetadataMatches(ix)

(* The index in use and the one in the segment are in step with the         *)
(* documents they store.                                                    *)
IndexInv == IndexOK(index) /\ IndexOK(segment)
=============================================================================
