----------------------------- MODULE QueriesProofs -----------------------------
(* Theorems about Queries: what each kind of query finds, for any ids, terms, *)
(* documents and queries, after any history of the index.                    *)
EXTENDS Queries, InvertedIndexProofs

----------------------------------------------------------------------------
(* The documents of a list of postings are those that hold its term.         *)
LEMMA DocIdsAre ==
  ASSUME NEW ix, IndexOK(ix), NEW t
  PROVE  DocIds(Get(ix.postings, t)) = Holding(ix, t)
<1> DEFINE P == ix.postings
           M == ix.documents
<1>1. Matches(P, M) /\ DocumentsOK(M)
  BY IndexHas
<1>2. Holding(ix, t) = HoldingIn(M, t)
  BY DEF Holding, HoldingIn
<1> HIDE DEF P, M
<1>3. CASE t \in Terms
  <2>1. ToSet(Get(P, t)) = {Posting(id, M[id], t) : id \in HoldingIn(M, t)}
    BY <1>1, <1>3 DEF Matches, ListMatches
  <2>2. DocIds(Get(P, t)) = HoldingIn(M, t)
    BY <2>1, DocsHave DEF DocIds
  <2>3. QED
    BY <1>2, <2>2 DEF P
<1>4. CASE t \notin Terms
  <2>1. Get(P, t) = <<>>
    BY <1>1, <1>4 DEF Matches, Get
  <2>2. DocIds(<<>>) = {}
    BY DEF DocIds, ToSet
  <2>3. HoldingIn(M, t) = {}
    BY <1>1, <1>4, DocsHave DEF DocumentsOK, HoldingIn
  <2>4. QED
    BY <1>2, <2>1, <2>2, <2>3 DEF P
<1>5. QED
  BY <1>3, <1>4

(* The terms of the index, and the documents that hold one of them.          *)
LEMMA TermsHave ==
  ASSUME NEW ix, IndexOK(ix)
  PROVE  /\ DOMAIN ix.postings \subseteq Terms
         /\ \A t \in DOMAIN ix.postings : DocIds(ix.postings[t]) = Holding(ix, t)
         /\ \A id \in DOMAIN ix.documents : ToSet(ix.documents[id]) \subseteq DOMAIN ix.postings
<1>1. DOMAIN ix.postings \subseteq Terms
  BY IndexImplies
<1>2. ASSUME NEW t \in DOMAIN ix.postings PROVE DocIds(ix.postings[t]) = Holding(ix, t)
  <2>1. Get(ix.postings, t) = ix.postings[t]
    BY DEF Get
  <2>2. QED
    BY <2>1, DocIdsAre
<1>3. DOMAIN ix.postings = UNION {ToSet(ix.documents[id]) : id \in DOMAIN ix.documents}
  BY IndexImplies DEF PostingsMatch
<1>4. QED
  BY <1>1, <1>2, <1>3

(* The first term of a query is one of its terms.                            *)
LEMMA QueryHas ==
  ASSUME NEW q \in Asked
  PROVE  /\ Len(q) \in Nat /\ DOMAIN q = 1..Len(q) /\ ToSet(q) = {q[i] : i \in 1..Len(q)}
         /\ q # <<>> => Len(q) >= 1 /\ q[1] \in ToSet(q)
<1>1. q \in Seq(Seq(Chars))
  BY AskedAssumption
<1>2. Len(q) \in Nat /\ DOMAIN q = 1..Len(q)
  BY <1>1, LenProperties
<1>3. q # <<>> => Len(q) # 0
  BY <1>1, EmptySeq
<1>4. ToSet(q) = {q[i] : i \in 1..Len(q)}
  BY <1>2 DEF ToSet
<1>5. QED
  BY <1>2, <1>3, <1>4

(* An OR query finds the documents with a term of it.                        *)
LEMMA OrIs ==
  ASSUME NEW ix, IndexOK(ix), NEW q \in Asked
  PROVE  OrDocIds(ix, q) =
           {id \in DOMAIN ix.documents : ToSet(q) \cap ToSet(ix.documents[id]) # {}}
<1>1. \A t : DocIds(Get(ix.postings, t)) = Holding(ix, t)
  BY DocIdsAre
<1>2. OrDocIds(ix, q) = UNION {Holding(ix, t) : t \in ToSet(q)}
  BY <1>1 DEF OrDocIds
<1>3. QED
  BY <1>2 DEF Holding

(* An AND query finds the documents with every term of it.                   *)
LEMMA AndIs ==
  ASSUME NEW ix, IndexOK(ix), NEW q \in Asked, q # <<>>
  PROVE  AndDocIds(ix, q) =
           {id \in DOMAIN ix.documents : ToSet(q) \subseteq ToSet(ix.documents[id])}
<1>1. \A t : DocIds(Get(ix.postings, t)) = Holding(ix, t)
  BY DocIdsAre
<1>2. AndDocIds(ix, q) =
        {id \in Holding(ix, q[1]) : \A t \in ToSet(q) : id \in Holding(ix, t)}
  BY <1>1 DEF AndDocIds
<1>3. q[1] \in ToSet(q)
  BY QueryHas
<1>4. QED
  BY <1>2, <1>3 DEF Holding

(* Every document an AND query finds is scored.                              *)
LEMMA AndScores ==
  ASSUME NEW ix, IndexOK(ix), NEW q \in Asked, q # <<>>, NEW ids,
         ids \subseteq AndDocIds(ix, q)
  PROVE  Scored(ix, ids, q) = ids
<1>1. q[1] \in ToSet(q)
  BY QueryHas
<1>2. AndDocIds(ix, q) \subseteq OrDocIds(ix, q)
  BY <1>1, AndIs, OrIs
<1>3. QED
  BY <1>2 DEF Scored

(* After any additions, deletions, flushes and merges, an OR query finds the *)
(* documents that hold one of its terms: OrFindsAny (engine.rs:554-566).     *)
THEOREM OrQueries == Spec => []OrFindsAny
<1>1. ASSUME IndexInv PROVE OrFindsAny
  <2>1. IndexOK(index)
    BY <1>1 DEF IndexInv
  <2> SUFFICES ASSUME NEW q \in Asked
               PROVE  Scored(index, OrDocIds(index, q), q) =
                        {id \in DOMAIN index.documents :
                           ToSet(q) \cap ToSet(index.documents[id]) # {}}
    BY DEF OrFindsAny, Matching
  <2>2. QED
    BY <2>1, OrIs DEF Scored
<1>2. QED
  BY <1>1, IndexInvariance, PTL

(* An AND query finds those that hold all of its terms, and ranks each of    *)
(* them: AndFindsAll (engine.rs:516-551).                                    *)
THEOREM AndQueries == Spec => []AndFindsAll
<1>1. ASSUME IndexInv PROVE AndFindsAll
  <2>1. IndexOK(index)
    BY <1>1 DEF IndexInv
  <2> SUFFICES ASSUME NEW q \in Asked, q # <<>>
               PROVE  Scored(index, AndDocIds(index, q), q) =
                        {id \in DOMAIN index.documents :
                           ToSet(q) \subseteq ToSet(index.documents[id])}
    BY DEF AndFindsAll, Matching
  <2>2. QED
    BY <2>1, AndIs, AndScores
<1>2. QED
  BY <1>1, IndexInvariance, PTL

----------------------------------------------------------------------------
(* Phrases.                                                                  *)

(* The positions a list gives for a document are those of the term in it.    *)
LEMMA FirstPositionsAre ==
  ASSUME NEW ix, IndexOK(ix), NEW t \in DOMAIN ix.postings, NEW id \in Holding(ix, t)
  PROVE  FirstPositions(ix, t, id) = PositionsOf(ix.documents[id], t)
<1> DEFINE list == ix.postings[t]
           M == ix.documents
           First(k) == list[k].doc_id = id /\ \A j \in 1..k - 1 : list[j].doc_id # id
<1>1. ListMatches(list, M, t)
  <2>1. Matches(ix.postings, M)
    BY IndexHas
  <2>2. t \in Terms /\ Get(ix.postings, t) = list
    BY TermsHave DEF Get
  <2>3. QED
    BY <2>1, <2>2 DEF Matches
<1>2. Len(list) \in Nat /\ DOMAIN list = 1..Len(list)
  BY <1>1, LenProperties DEF ListMatches
<1>3. {list[k] : k \in 1..Len(list)} = {Posting(d, M[d], t) : d \in HoldingIn(M, t)}
  BY <1>1, <1>2 DEF ListMatches, ToSet
<1>4. id \in HoldingIn(M, t)
  BY DEF Holding, HoldingIn
<1>5. FirstPositions(ix, t, id) = list[CHOOSE k \in DOMAIN list : First(k)].positions
  BY DEF FirstPositions
<1>6. \A i, j \in 1..Len(list) : list[i].doc_id = list[j].doc_id => i = j
  BY <1>1 DEF ListMatches, Distinct
<1> HIDE DEF list, M
<1>7. \E k \in 1..Len(list) : First(k)
  <2>1. PICK k \in 1..Len(list) : list[k] = Posting(id, M[id], t)
    BY <1>3, <1>4
  <2>2. list[k].doc_id = id
    BY <2>1, DocsHave
  <2>3. \A j \in 1..k - 1 : j \in 1..Len(list) /\ j # k
    BY <1>2
  <2>4. QED
    BY <1>6, <2>2, <2>3
<1>8. PICK k \in 1..Len(list) : list[k].doc_id = id
                                /\ FirstPositions(ix, t, id) = list[k].positions
  <2> DEFINE k == CHOOSE k \in DOMAIN list : First(k)
  <2>1. k \in 1..Len(list) /\ First(k)
    BY <1>2, <1>7
  <2> HIDE DEF k
  <2>2. QED
    BY <1>5, <2>1 DEF k
<1>9. PICK d \in HoldingIn(M, t) : list[k] = Posting(d, M[d], t)
  BY <1>3
<1>10. d = id
  BY <1>8, <1>9, DocsHave
<1>11. QED
  BY <1>8, <1>9, <1>10 DEF Posting, M

(* Terms at successive positions are a part of the document.                 *)
LEMMA AdjacentIs ==
  ASSUME NEW doc \in Docs, NEW q \in Asked, q # <<>>
  PROVE  (\E start \in PositionsOf(doc, q[1]) :
            \A i \in 2..Len(q) : start + i - 1 \in PositionsOf(doc, q[i]))
         <=> \E k \in 0..Len(doc) - Len(q) : SubSeq(doc, k + 1, k + Len(q)) = q
<1> DEFINE n == Len(q)
           m == Len(doc)
<1>1. /\ n \in Nat /\ n >= 1 /\ m \in Nat /\ doc \in Seq(Terms) /\ q \in Seq(Seq(Chars))
      /\ \A i \in 1..m : doc[i] \in Terms
  BY QueryHas, DocsHave, DocsAssumption, AskedAssumption, ElementOfSeq
<1>2. \A p, t : p \in PositionsOf(doc, t) <=> p \in 0..m - 1 /\ doc[p + 1] = t
  BY DEF PositionsOf
<1> HIDE DEF n, m
<1>3. ASSUME NEW k \in 0..m - n
      PROVE  SubSeq(doc, k + 1, k + n) = q <=> \A i \in 1..n : doc[k + i] = q[i]
  <2>1. /\ k + 1 \in Int /\ k + n \in Int /\ k + 1 <= k + n
        /\ (k + n) - (k + 1) + 1 = n /\ \A i \in (k + 1)..(k + n) : i \in 1..m
        /\ \A i \in 1..n : (k + 1) + i - 1 = k + i
    BY <1>1
  <2>2. /\ SubSeq(doc, k + 1, k + n) \in Seq(Terms) /\ Len(SubSeq(doc, k + 1, k + n)) = n
        /\ \A i \in 1..n : SubSeq(doc, k + 1, k + n)[i] = doc[k + i]
    BY <1>1, <2>1, SubSeqProperties
  <2> DEFINE part == SubSeq(doc, k + 1, k + n)
  <2> HIDE DEF part
  <2>3. /\ part \in Seq(Terms) /\ Len(part) = n
        /\ \A i \in 1..n : part[i] = doc[k + i]
    BY <2>2 DEF part
  <2>4. ASSUME \A i \in 1..n : part[i] = q[i] PROVE part = q
    <3>1. Len(part) = Len(q) /\ \A i \in 1..Len(part) : part[i] = q[i]
      BY <2>3, <2>4 DEF n
    <3>2. part \in Seq(Terms) /\ q \in Seq(Seq(Chars))
      BY <1>1, <2>3
    <3>3. QED
      BY <3>1, <3>2, SeqEqual
  <2>5. QED
    BY <2>3, <2>4 DEF part
<1>4. ASSUME NEW start \in PositionsOf(doc, q[1]),
             \A i \in 2..n : start + i - 1 \in PositionsOf(doc, q[i])
      PROVE  \E k \in 0..m - n : SubSeq(doc, k + 1, k + n) = q
  <2>1. start \in 0..m - 1 /\ doc[start + 1] = q[1]
    BY <1>2
  <2>2. ASSUME NEW i \in 1..n PROVE start + i - 1 \in 0..m - 1 /\ doc[start + i] = q[i]
    <3>1. CASE i = 1
      BY <1>1, <2>1, <3>1
    <3>2. CASE i \in 2..n
      <4>1. start + i - 1 \in 0..m - 1 /\ doc[(start + i - 1) + 1] = q[i]
        BY <1>2, <1>4, <3>2
      <4>2. (start + i - 1) + 1 = start + i
        BY <2>1
      <4>3. QED
        BY <4>1, <4>2
    <3>3. QED
      BY <1>1, <3>1, <3>2
  <2>3. start + n - 1 \in 0..m - 1
    <3>1. n \in 1..n
      BY <1>1
    <3>2. QED
      BY <2>2, <3>1
  <2>4. start \in 0..m - n
    BY <1>1, <2>1, <2>3
  <2>5. QED
    BY <1>3, <2>2, <2>4
<1>5. ASSUME NEW k \in 0..m - n, SubSeq(doc, k + 1, k + n) = q
      PROVE  \E start \in PositionsOf(doc, q[1]) :
               \A i \in 2..n : start + i - 1 \in PositionsOf(doc, q[i])
  <2>1. \A i \in 1..n : doc[k + i] = q[i]
    BY <1>3, <1>5
  <2>2. ASSUME NEW i \in 1..n PROVE k + i - 1 \in PositionsOf(doc, q[i])
    <3>1. k + i - 1 \in 0..m - 1 /\ (k + i - 1) + 1 = k + i
      BY <1>1
    <3>2. QED
      BY <1>2, <2>1, <3>1
  <2>3. k + 1 - 1 = k /\ 1 \in 1..n /\ \A i \in 2..n : i \in 1..n
    BY <1>1
  <2>4. k \in PositionsOf(doc, q[1])
    BY <2>2, <2>3
  <2>5. QED
    BY <2>2, <2>3, <2>4
<1>6. QED
  BY <1>4, <1>5 DEF n, m

(* A phrase query finds the documents the phrase is a part of.               *)
LEMMA PhraseIs ==
  ASSUME NEW ix, IndexOK(ix), NEW q \in Asked, q # <<>>
  PROVE  PhraseDocIds(ix, q) =
           {id \in DOMAIN ix.documents :
              \E k \in 0..Len(ix.documents[id]) - Len(q) :
                SubSeq(ix.documents[id], k + 1, k + Len(q)) = q}
<1> DEFINE M == ix.documents
           Starts(id) == \E start \in PositionsOf(M[id], q[1]) :
                           \A i \in 2..Len(q) : start + i - 1 \in PositionsOf(M[id], q[i])
<1>1. /\ Len(q) \in Nat /\ Len(q) >= 1 /\ ToSet(q) = {q[i] : i \in 1..Len(q)}
  BY QueryHas
<1>2. \A id \in DOMAIN M : M[id] \in Docs
  BY IndexHas DEF DocumentsOK
<1>3. \A id \in DOMAIN M : Starts(id) <=>
        \E k \in 0..Len(M[id]) - Len(q) : SubSeq(M[id], k + 1, k + Len(q)) = q
  BY <1>2, AdjacentIs
<1>4. \A id : id \in AndDocIds(ix, q) <=> id \in DOMAIN M /\ ToSet(q) \subseteq ToSet(M[id])
  BY AndIs
<1>5. ASSUME NEW id \in DOMAIN M, Starts(id) PROVE id \in AndDocIds(ix, q)
  <2>1. \A t : PositionsOf(M[id], t) # {} => t \in ToSet(M[id])
    <3>1. M[id] \in Seq(Terms)
      BY <1>2, DocsAssumption
    <3>2. Len(M[id]) \in Nat /\ DOMAIN M[id] = 1..Len(M[id])
      BY <3>1, LenProperties
    <3>3. \A p \in 0..Len(M[id]) - 1 : p + 1 \in 1..Len(M[id])
      BY <3>2
    <3>4. QED
      BY <3>2, <3>3 DEF PositionsOf, ToSet
  <2>2. \A i \in 1..Len(q) : PositionsOf(M[id], q[i]) # {}
    <3> TAKE i \in 1..Len(q)
    <3>1. i = 1 \/ i \in 2..Len(q)
      BY <1>1
    <3>2. QED
      BY <1>5, <3>1
  <2>3. QED
    BY <1>1, <1>4, <2>1, <2>2
<1>6. ASSUME NEW id \in AndDocIds(ix, q), NEW i \in 1..Len(q)
      PROVE  FirstPositions(ix, q[i], id) = PositionsOf(M[id], q[i])
  <2>1. q[i] \in ToSet(q) /\ id \in DOMAIN M /\ q[i] \in ToSet(M[id])
    BY <1>1, <1>4
  <2>2. q[i] \in DOMAIN ix.postings
    BY <2>1, TermsHave
  <2>3. id \in Holding(ix, q[i])
    BY <2>1 DEF Holding
  <2>4. QED
    BY <2>2, <2>3, FirstPositionsAre
<1>7. CASE Len(q) <= 1
  <2>1. Len(q) = 1 /\ PhraseDocIds(ix, q) = AndDocIds(ix, q)
    <3>1. Len(q) = 1
      <4> DEFINE n == Len(q)
      <4>1. n \in Nat /\ n >= 1 /\ n <= 1
        BY <1>1, <1>7
      <4> HIDE DEF n
      <4>2. n = 1
        BY <4>1
      <4>3. QED
        BY <4>2 DEF n
    <3>2. PhraseDocIds(ix, q) = AndDocIds(ix, q)
      BY <1>7 DEF PhraseDocIds
    <3>3. QED
      BY <3>1, <3>2
  <2>2. \A id \in DOMAIN M : ToSet(q) \subseteq ToSet(M[id]) => Starts(id)
    <3> TAKE id \in DOMAIN M
    <3> HAVE ToSet(q) \subseteq ToSet(M[id])
    <3>1. /\ M[id] \in Seq(Terms) /\ Len(M[id]) \in Nat /\ DOMAIN M[id] = 1..Len(M[id])
      BY <1>2, DocsAssumption, LenProperties
    <3>2. q[1] \in ToSet(M[id])
      BY <1>1
    <3>3. PICK j \in 1..Len(M[id]) : M[id][j] = q[1]
      BY <3>1, <3>2 DEF ToSet
    <3>4. j - 1 \in 0..Len(M[id]) - 1 /\ (j - 1) + 1 = j
      BY <3>1
    <3>5. j - 1 \in PositionsOf(M[id], q[1])
      BY <3>3, <3>4 DEF PositionsOf
    <3>6. 2..Len(q) = {}
      BY <2>1
    <3>7. QED
      BY <3>5, <3>6
  <2> HIDE DEF M
  <2>3. PhraseDocIds(ix, q) = {id \in DOMAIN M : Starts(id)}
    BY <1>4, <1>5, <2>1, <2>2
  <2> HIDE DEF Starts
  <2>4. QED
    BY <1>3, <2>3 DEF M
<1>8. CASE ~(Len(q) <= 1)
  <2>1. PhraseDocIds(ix, q) =
          {id \in AndDocIds(ix, q) :
             \E start \in FirstPositions(ix, q[1], id) :
               \A i \in 2..Len(q) : start + i - 1 \in FirstPositions(ix, q[i], id)}
    BY <1>8 DEF PhraseDocIds
  <2>2. 1 \in 1..Len(q) /\ \A i \in 2..Len(q) : i \in 1..Len(q)
    BY <1>1
  <2> HIDE DEF M
  <2>3. \A id \in AndDocIds(ix, q) :
          Starts(id) <=> \E start \in FirstPositions(ix, q[1], id) :
                           \A i \in 2..Len(q) : start + i - 1 \in FirstPositions(ix, q[i], id)
    BY <1>6, <2>2
  <2>4. PhraseDocIds(ix, q) = {id \in DOMAIN M : Starts(id)}
    <3> HIDE DEF Starts
    <3>1. QED
      BY <1>4, <1>5, <2>1, <2>3
  <2> HIDE DEF Starts
  <2>5. QED
    BY <1>3, <2>4 DEF M
<1>9. QED
  BY <1>7, <1>8

(* A phrase query finds the documents in which its terms stand side by side  *)
(* in that order, and ranks each of them: PhraseFindsAdjacent                *)
(* (engine.rs:413-488).                                                      *)
THEOREM PhraseQueries == Spec => []PhraseFindsAdjacent
<1>1. ASSUME IndexInv PROVE PhraseFindsAdjacent
  <2>1. IndexOK(index)
    BY <1>1 DEF IndexInv
  <2> SUFFICES ASSUME NEW q \in Asked, q # <<>>
               PROVE  Scored(index, PhraseDocIds(index, q), q) =
                        {id \in DOMAIN index.documents :
                           \E k \in 0..Len(index.documents[id]) - Len(q) :
                             SubSeq(index.documents[id], k + 1, k + Len(q)) = q}
    BY DEF PhraseFindsAdjacent, Matching
  <2>2. PhraseDocIds(index, q) \subseteq AndDocIds(index, q)
    BY DEF PhraseDocIds
  <2>3. Scored(index, PhraseDocIds(index, q), q) = PhraseDocIds(index, q)
    BY <2>1, <2>2, AndScores
  <2>4. QED
    BY <2>1, <2>3, PhraseIs
<1>2. QED
  BY <1>1, IndexInvariance, PTL

----------------------------------------------------------------------------
(* Prefixes.                                                                 *)

(* Comparing the beginnings of two terms is comparing their characters.      *)
LEMMA BeginningsAre ==
  ASSUME NEW s \in Seq(Chars), NEW t \in Seq(Chars), NEW k \in Nat, k <= Len(s), k <= Len(t)
  PROVE  SubSeq(s, 1, k) = SubSeq(t, 1, k) <=> \A i \in 1..k : s[i] = t[i]
<1>1. /\ Len(s) \in Nat /\ Len(t) \in Nat
      /\ \A i \in 1..k : s[i] \in Chars /\ t[i] \in Chars
  BY ElementOfSeq
<1>2. /\ SubSeq(s, 1, k) \in Seq(Chars) /\ Len(SubSeq(s, 1, k)) = k
      /\ \A i \in 1..k : SubSeq(s, 1, k)[i] = s[i]
  BY <1>1, SubSeqProperties
<1>3. /\ SubSeq(t, 1, k) \in Seq(Chars) /\ Len(SubSeq(t, 1, k)) = k
      /\ \A i \in 1..k : SubSeq(t, 1, k)[i] = t[i]
  BY <1>1, SubSeqProperties
<1> DEFINE u == SubSeq(s, 1, k)
           v == SubSeq(t, 1, k)
<1> HIDE DEF u, v
<1>4. /\ u \in Seq(Chars) /\ v \in Seq(Chars) /\ Len(u) = k /\ Len(v) = k
      /\ \A i \in 1..k : u[i] = s[i] /\ v[i] = t[i]
  BY <1>2, <1>3 DEF u, v
<1>5. ASSUME \A i \in 1..k : s[i] = t[i] PROVE u = v
  <2>1. \A i \in 1..Len(u) : u[i] = v[i]
    BY <1>4, <1>5
  <2>2. QED
    BY <1>4, <2>1, SeqEqual
<1>6. QED
  BY <1>4, <1>5 DEF u, v

(* The order of terms, character by character.                               *)
LEMMA LessIs ==
  ASSUME NEW s \in Seq(Chars), NEW t \in Seq(Chars)
  PROVE  Less(s, t) <=>
           \E k \in 1..Len(t) :
             /\ k <= Len(s) + 1 /\ \A i \in 1..k - 1 : s[i] = t[i]
             /\ k <= Len(s) => s[k] < t[k]
<1>1. Len(s) \in Nat /\ Len(t) \in Nat
  BY LenProperties
<1>2. \A k \in 1..Len(t) : k <= Len(s) + 1 =>
        (SubSeq(s, 1, k - 1) = SubSeq(t, 1, k - 1) <=> \A i \in 1..k - 1 : s[i] = t[i])
  <2> TAKE k \in 1..Len(t)
  <2> HAVE k <= Len(s) + 1
  <2>1. k - 1 \in Nat /\ k - 1 <= Len(s) /\ k - 1 <= Len(t)
    BY <1>1
  <2>2. QED
    BY <2>1, BeginningsAre
<1>3. QED
  BY <1>2 DEF Less

(* The upper bound differs from the prefix in its last character, which is   *)
(* the next one.                                                             *)
LEMMA UpperBoundIs ==
  ASSUME NEW p \in Seq(Chars), p # <<>>, Last(p) + 1 \in Chars
  PROVE  /\ UpperBound(p) \in Seq(Chars) /\ Len(p) \in Nat /\ Len(p) >= 1
         /\ Len(UpperBound(p)) = Len(p) /\ UpperBound(p)[Len(p)] = p[Len(p)] + 1
         /\ \A i \in 1..Len(p) - 1 : UpperBound(p)[i] = p[i]
<1> DEFINE n == Len(p)
           c == Last(p) + 1
           u == SubSeq(p, 1, n - 1)
<1>1. n \in Nat /\ n >= 1 /\ \A i \in 1..n : p[i] \in Chars
  <2>1. n \in Nat /\ n # 0 /\ \A i \in 1..n : p[i] \in Chars
    BY LenProperties, EmptySeq, ElementOfSeq
  <2> HIDE DEF n
  <2>2. QED
    BY <2>1
<1>2. UpperBound(p) = Append(u, c)
  BY DEF UpperBound, After, Front
<1>3. c \in Chars /\ c = p[n] + 1
  BY DEF Last
<1>4. u \in Seq(Chars) /\ Len(u) = n - 1 /\ \A i \in 1..n - 1 : u[i] = p[i]
  <2> HIDE DEF n
  <2>1. n - 1 \in Int /\ \A i \in 1..n - 1 : p[i] \in Chars
    BY <1>1
  <2>2. /\ SubSeq(p, 1, n - 1) \in Seq(Chars)
        /\ Len(SubSeq(p, 1, n - 1)) = IF 1 <= n - 1 THEN n - 1 - 1 + 1 ELSE 0
        /\ \A i \in 1..n - 1 - 1 + 1 : SubSeq(p, 1, n - 1)[i] = p[1 + i - 1]
    BY <2>1, SubSeqProperties
  <2>3. QED
    BY <1>1, <2>2
<1> HIDE DEF n, c, u
<1>5. /\ Append(u, c) \in Seq(Chars) /\ Len(Append(u, c)) = Len(u) + 1
      /\ \A i \in 1..Len(u) : Append(u, c)[i] = u[i]
      /\ Append(u, c)[Len(u) + 1] = c
  BY <1>3, <1>4, AppendProperties
<1>6. QED
  BY <1>1, <1>2, <1>3, <1>4, <1>5 DEF n

(* The range of terms from a prefix up to its bound holds the terms that     *)
(* begin with it.                                                            *)
LEMMA RangeIs ==
  ASSUME NEW p \in Seq(Chars), p # <<>>, Last(p) + 1 \in Chars, NEW t \in Seq(Chars)
  PROVE  ~Less(t, p) /\ Less(t, UpperBound(p)) <=> IsPrefix(p, t)
<1> DEFINE n == Len(p)
           m == Len(t)
           u == UpperBound(p)
<1>1. /\ u \in Seq(Chars) /\ n \in Nat /\ n >= 1 /\ Len(u) = n /\ u[n] = p[n] + 1
      /\ \A i \in 1..n - 1 : u[i] = p[i]
  BY UpperBoundIs
<1>2. m \in Nat /\ (\A i \in 1..n : p[i] \in Int) /\ (\A i \in 1..m : t[i] \in Int)
  <2>1. Chars \subseteq Int
    BY CharsAssumption DEF Chars
  <2>2. (\A i \in 1..n : p[i] \in Chars) /\ (\A i \in 1..m : t[i] \in Chars)
    BY ElementOfSeq
  <2>3. QED
    BY <2>1, <2>2, LenProperties
<1>3. Less(t, p) <=> \E k \in 1..n : /\ k <= m + 1 /\ \A i \in 1..k - 1 : t[i] = p[i]
                                     /\ k <= m => t[k] < p[k]
  BY LessIs
<1>4. Less(t, u) <=> \E k \in 1..n : /\ k <= m + 1 /\ \A i \in 1..k - 1 : t[i] = u[i]
                                     /\ k <= m => t[k] < u[k]
  BY <1>1, LessIs
<1>5. IsPrefix(p, t) <=> n <= m /\ \A i \in 1..n : p[i] = t[i]
  BY <1>1, <1>2, BeginningsAre DEF IsPrefix
<1> HIDE DEF n, m, u
<1>6. ASSUME n <= m, \A i \in 1..n : p[i] = t[i] PROVE ~Less(t, p) /\ Less(t, u)
  <2>1. \A k \in 1..n : k <= m /\ ~(t[k] < p[k])
    BY <1>1, <1>2, <1>6
  <2>2. n \in 1..n /\ n <= m + 1 /\ t[n] < u[n] /\ \A i \in 1..n - 1 : t[i] = u[i]
    <3>1. n \in 1..n /\ n <= m + 1 /\ \A i \in 1..n - 1 : i \in 1..n
      BY <1>1, <1>2, <1>6
    <3>2. t[n] = p[n] /\ p[n] \in Int
      BY <1>2, <1>6, <3>1
    <3>3. QED
      BY <1>1, <1>6, <3>1, <3>2
  <2>3. QED
    BY <1>3, <1>4, <2>1, <2>2
<1>7. ASSUME ~Less(t, p), Less(t, u) PROVE n <= m /\ \A i \in 1..n : p[i] = t[i]
  <2>1. PICK k \in 1..n : /\ k <= m + 1 /\ \A i \in 1..k - 1 : t[i] = u[i]
                          /\ k <= m => t[k] < u[k]
    BY <1>4, <1>7
  <2>2. \A i \in 1..k - 1 : t[i] = p[i]
    <3>1. \A i \in 1..k - 1 : i \in 1..n - 1
      BY <1>1
    <3>2. QED
      BY <1>1, <2>1, <3>1
  <2>3. k <= m /\ ~(t[k] < p[k])
    BY <1>2, <1>3, <1>7, <2>1, <2>2
  <2>4. k = n
    <3>1. CASE k \in 1..n - 1
      BY <1>1, <2>1, <2>3, <3>1
    <3>2. QED
      BY <1>1, <3>1
  <2>5. t[n] = p[n]
    <3>1. n \in 1..n /\ n \in 1..m
      BY <1>1, <1>2, <2>3, <2>4
    <3>2. t[n] \in Int /\ p[n] \in Int /\ t[n] < p[n] + 1 /\ ~(t[n] < p[n])
      BY <1>1, <1>2, <2>1, <2>3, <2>4, <3>1
    <3>3. QED
      BY <3>2
  <2>6. \A i \in 1..n : i \in 1..n - 1 \/ i = n
    BY <1>1
  <2>7. QED
    BY <2>2, <2>3, <2>4, <2>5, <2>6
<1>8. QED
  BY <1>5, <1>6, <1>7 DEF u

(* A prefix query finds the documents holding a term that begins with it,    *)
(* if its last character has a next one: PrefixFindsExtensions               *)
(* (index.rs:202-217).                                                       *)
THEOREM PrefixQueries == Spec => []PrefixFindsExtensions
<1>1. ASSUME IndexInv PROVE PrefixFindsExtensions
  <2>1. IndexOK(index)
    BY <1>1 DEF IndexInv
  <2> DEFINE P == index.postings
             M == index.documents
  <2> SUFFICES ASSUME NEW p \in Begun, p # <<>>, Last(p) + 1 \in Chars
               PROVE  PrefixDocIds(index, p) =
                        {id \in DOMAIN M : \E t \in ToSet(M[id]) : IsPrefix(p, t)}
    BY DEF PrefixFindsExtensions, Matching
  <2>2. /\ DOMAIN P \subseteq Seq(Chars) /\ p \in Seq(Chars)
        /\ \A t \in DOMAIN P : DocIds(P[t]) = {id \in DOMAIN M : t \in ToSet(M[id])}
        /\ \A id \in DOMAIN M : ToSet(M[id]) \subseteq DOMAIN P
    BY <2>1, TermsHave, CharsAssumption, AskedAssumption DEF Holding
  <2>3. \A t \in DOMAIN P : ~Less(t, p) /\ Less(t, UpperBound(p)) <=> IsPrefix(p, t)
    BY <2>2, RangeIs
  <2>4. GetTermsWithPrefix(index, p) = {t \in DOMAIN P : IsPrefix(p, t)}
    BY <2>3 DEF GetTermsWithPrefix
  <2>5. PrefixDocIds(index, p) = UNION {DocIds(P[t]) : t \in {t \in DOMAIN P : IsPrefix(p, t)}}
    BY <2>4 DEF PrefixDocIds
  <2> HIDE DEF P, M
  <2>6. QED
    BY <2>2, <2>5
<1>2. QED
  BY <1>1, IndexInvariance, PTL

----------------------------------------------------------------------------
(* The distance of two terms.                                                *)

(* The least of three numbers.                                               *)
LEMMA LeastOfThree ==
  ASSUME NEW x \in Nat, NEW y \in Nat, NEW z \in Nat
  PROVE  /\ Min({x, y, z}) \in {x, y, z} /\ Min({x, y, z}) \in Nat
         /\ Min({x, y, z}) <= x /\ Min({x, y, z}) <= y /\ Min({x, y, z}) <= z
<1> DEFINE S == {x, y, z}
<1>1. PICK v \in S : \A w \in S : v <= w
  <2>1. S \subseteq Nat /\ S # {}
    OBVIOUS
  <2> HIDE DEF S
  <2>2. QED
    BY <2>1, LeastNumber
<1> DEFINE m == Min(S)
<1>2. m \in S /\ \A w \in S : m <= w
  BY <1>1 DEF Min
<1> HIDE DEF m
<1>3. m \in {x, y, z} /\ m <= x /\ m <= y /\ m <= z
  BY <1>2
<1>4. m \in Nat
  BY <1>3
<1>5. QED
  BY <1>3, <1>4 DEF m

Cost(a, b, i, j) == IF a[i] = b[j] THEN 0 ELSE 1

(* What the code computes from three cells.                                  *)
Best(a, b, i, j, replaced, inserted, removed) ==
  Min({replaced + Cost(a, b, i, j), inserted + 1, removed + 1})

LEMMA BestIs ==
  ASSUME NEW a, NEW b, NEW i, NEW j, NEW x \in Nat, NEW y \in Nat, NEW z \in Nat
  PROVE  LET v == Best(a, b, i, j, x, y, z)
         IN /\ v \in Nat /\ v <= x + Cost(a, b, i, j) /\ v <= y + 1 /\ v <= z + 1
            /\ v = x + Cost(a, b, i, j) \/ v = y + 1 \/ v = z + 1
<1>1. Cost(a, b, i, j) \in Nat
  BY DEF Cost
<1>2. x + Cost(a, b, i, j) \in Nat /\ y + 1 \in Nat /\ z + 1 \in Nat
  BY <1>1
<1>3. QED
  BY <1>2, LeastOfThree DEF Best

(* A row after another.                                                      *)
Row(b) == [0..Len(b) -> Nat]
Follows(a, b, i, row, above) ==
  /\ row \in Row(b) /\ row[0] = i
  /\ \A j \in 1..Len(b) :
       row[j] = Best(a, b, i, j, above[j - 1], row[j - 1], above[j])

LEMMA RowFollows ==
  ASSUME NEW a, NEW b, Len(b) \in Nat, NEW i \in Nat, NEW above \in Row(b)
  PROVE  \E row : Follows(a, b, i, row, above)
<1> DEFINE n == Len(b)
           G == [j \in 1..n |-> [x \in Nat |-> Best(a, b, i, j, above[j - 1], x, above[j])]]
<1>1. ASSUME NEW j \in 1..n, NEW x \in Nat
      PROVE  Best(a, b, i, j, above[j - 1], x, above[j]) \in Nat
  <2>1. j - 1 \in 0..n /\ j \in 0..n
    OBVIOUS
  <2>2. above[j - 1] \in Nat /\ above[j] \in Nat
    BY <2>1 DEF Row
  <2>3. QED
    BY <2>2, BestIs
<1>2. G \in [1..n -> [Nat -> Nat]]
  BY <1>1
<1>3. \A j \in 1..n, x \in Nat : G[j][x] = Best(a, b, i, j, above[j - 1], x, above[j])
  OBVIOUS
<1> HIDE DEF G
<1>4. PICK f : Iterates(f, n, Nat, i, G)
  <2> DEFINE X == Nat
             m == n
  <2>1. i \in X /\ G \in Steps(m, X) /\ m \in Nat
    BY <1>2 DEF Steps
  <2> HIDE DEF X, m
  <2>2. \E f : Iterates(f, m, X, i, G)
    BY <2>1, Iteration
  <2>3. QED
    BY <2>2 DEF X, m
<1>5. f \in [0..n -> Nat] /\ f[0] = i /\ \A j \in 1..n : f[j] = G[j][f[j - 1]]
  BY <1>4 DEF Iterates
<1>6. ASSUME NEW j \in 1..n
      PROVE  f[j] = Best(a, b, i, j, above[j - 1], f[j - 1], above[j])
  <2>1. j - 1 \in 0..n
    OBVIOUS
  <2>2. f[j - 1] \in Nat
    BY <1>5, <2>1
  <2>3. QED
    BY <1>3, <1>5, <2>2
<1>7. Follows(a, b, i, f, above)
  BY <1>5, <1>6 DEF Follows, Row
<1>8. QED
  BY <1>7

(* The rows of the table.                                                    *)
Rows(a, b, f) ==
  /\ f \in [0..Len(a) -> Row(b)] /\ f[0] = [j \in 0..Len(b) |-> j]
  /\ \A i \in 1..Len(a) : Follows(a, b, i, f[i], f[i - 1])

LEMMA RowsAre ==
  ASSUME NEW a, NEW b, Len(a) \in Nat, Len(b) \in Nat
  PROVE  \E f : Rows(a, b, f)
<1> DEFINE m == Len(a)
           X == Row(b)
           x0 == [j \in 0..Len(b) |-> j]
           G == [i \in 1..m |-> [above \in X |-> CHOOSE row : Follows(a, b, i, row, above)]]
<1>1. ASSUME NEW i \in 1..m, NEW above \in X
      PROVE  Follows(a, b, i, G[i][above], above) /\ G[i][above] \in X
  <2>1. \E row : Follows(a, b, i, row, above)
    <3>1. i \in Nat
      OBVIOUS
    <3>2. QED
      BY <3>1, RowFollows
  <2>2. G[i][above] = CHOOSE row : Follows(a, b, i, row, above)
    OBVIOUS
  <2> HIDE DEF G
  <2>3. Follows(a, b, i, G[i][above], above)
    BY <2>1, <2>2
  <2>4. QED
    BY <2>3 DEF Follows
<1>2. G \in Steps(m, X)
  <2>1. \A i \in 1..m, above \in X : (CHOOSE row : Follows(a, b, i, row, above)) \in X
    BY <1>1
  <2> HIDE DEF X
  <2>2. QED
    BY <2>1 DEF Steps
<1>3. x0 \in X
  BY DEF Row
<1> HIDE DEF G, X, x0
<1>4. PICK f : Iterates(f, m, X, x0, G)
  <2> DEFINE k == m
  <2>1. k \in Nat /\ G \in Steps(k, X)
    BY <1>2
  <2> HIDE DEF k
  <2>2. \E f : Iterates(f, k, X, x0, G)
    BY <1>3, <2>1, Iteration
  <2>3. QED
    BY <2>2 DEF k
<1>5. f \in [0..m -> X] /\ f[0] = x0 /\ \A i \in 1..m : f[i] = G[i][f[i - 1]]
  BY <1>4 DEF Iterates
<1>6. ASSUME NEW i \in 1..m PROVE Follows(a, b, i, f[i], f[i - 1])
  <2>1. i - 1 \in 0..m
    OBVIOUS
  <2>2. f[i - 1] \in X
    BY <1>5, <2>1
  <2>3. QED
    BY <1>1, <1>5, <2>2
<1>7. Rows(a, b, f)
  BY <1>5, <1>6 DEF Rows, X, x0
<1>8. QED
  BY <1>7

(* The table has the numbers from 0 on its edges, and its other cells come   *)
(* from three neighbours (fuzzy.rs:29-43).                                   *)
Entry(a, b, D, c) ==
  IF c[1] = 0 \/ c[2] = 0 THEN c[1] + c[2]
  ELSE Min({D[<<c[1] - 1, c[2] - 1>>] + IF a[c[1]] = b[c[2]] THEN 0 ELSE 1,
            D[<<c[1], c[2] - 1>>] + 1, D[<<c[1] - 1, c[2]>>] + 1})
IsTable(a, b, D) ==
  /\ \A i \in 0..Len(a), j \in 0..Len(b) : D[<<i, j>>] \in Nat
  /\ \A i \in 0..Len(a) : D[<<i, 0>>] = i
  /\ \A j \in 0..Len(b) : D[<<0, j>>] = j
  /\ \A i \in 1..Len(a), j \in 1..Len(b) :
       D[<<i, j>>] = Best(a, b, i, j, D[<<i - 1, j - 1>>], D[<<i, j - 1>>], D[<<i - 1, j>>])

LEMMA TableExists ==
  ASSUME NEW a, NEW b, Len(a) \in Nat, Len(b) \in Nat
  PROVE  \E D : D = [c \in Cells(a, b) |-> Entry(a, b, D, c)]
<1>1. PICK f : Rows(a, b, f)
  BY RowsAre
<1> DEFINE D == [c \in Cells(a, b) |-> f[c[1]][c[2]]]
<1>2. \A i \in 0..Len(a), j \in 0..Len(b) : D[<<i, j>>] = f[i][j]
  BY DEF Cells
<1>3. \A c \in Cells(a, b) : D[c] = f[c[1]][c[2]]
  OBVIOUS
<1>4. DOMAIN D = Cells(a, b) /\ D = [c \in Cells(a, b) |-> D[c]]
  OBVIOUS
<1> HIDE DEF D
<1>5. ASSUME NEW c \in Cells(a, b) PROVE D[c] = Entry(a, b, D, c)
  <2> DEFINE i == c[1]
             j == c[2]
  <2>1. i \in 0..Len(a) /\ j \in 0..Len(b) /\ c = <<i, j>>
    BY DEF Cells
  <2>2. D[c] = f[i][j]
    BY <1>3
  <2> HIDE DEF i, j
  <2>3. CASE i = 0
    <3>1. f[0][j] = j
      BY <1>1, <2>1 DEF Rows
    <3>2. D[c] = i + j
      BY <2>1, <2>2, <2>3, <3>1
    <3>3. QED
      BY <2>3, <3>2 DEF Entry, i, j
  <2>4. CASE i # 0 /\ j = 0
    <3>1. i \in 1..Len(a)
      BY <2>1, <2>4
    <3>2. f[i][0] = i
      BY <1>1, <3>1 DEF Rows, Follows
    <3>3. D[c] = i + j
      BY <2>1, <2>2, <2>4, <3>2
    <3>4. QED
      BY <2>4, <3>3 DEF Entry, i, j
  <2>5. CASE i # 0 /\ j # 0
    <3>1. i \in 1..Len(a) /\ j \in 1..Len(b)
      BY <2>1, <2>5
    <3>2. Follows(a, b, i, f[i], f[i - 1])
      BY <1>1, <3>1 DEF Rows
    <3>3. f[i][j] = Best(a, b, i, j, f[i - 1][j - 1], f[i][j - 1], f[i - 1][j])
      BY <3>1, <3>2 DEF Follows
    <3>4. i - 1 \in 0..Len(a) /\ j - 1 \in 0..Len(b)
      BY <3>1
    <3>5. /\ f[i - 1][j - 1] = D[<<i - 1, j - 1>>]
          /\ f[i][j - 1] = D[<<i, j - 1>>] /\ f[i - 1][j] = D[<<i - 1, j>>]
      BY <1>2, <2>1, <3>4
    <3>6. D[c] = Best(a, b, i, j, D[<<i - 1, j - 1>>], D[<<i, j - 1>>], D[<<i - 1, j>>])
      BY <2>2, <3>3, <3>5
    <3>7. Best(a, b, i, j, D[<<i - 1, j - 1>>], D[<<i, j - 1>>], D[<<i - 1, j>>])
            = Entry(a, b, D, c)
      BY <2>5 DEF Best, Cost, Entry, i, j
    <3>8. QED
      BY <3>6, <3>7
  <2>6. QED
    BY <2>3, <2>4, <2>5
<1>6. D = [c \in Cells(a, b) |-> Entry(a, b, D, c)]
  BY <1>4, <1>5
<1>7. QED
  BY <1>6

Table(a, b) == CHOOSE D : D = [c \in Cells(a, b) |-> Entry(a, b, D, c)]

LEMMA TableIs ==
  ASSUME NEW a, NEW b, Len(a) \in Nat, Len(b) \in Nat
  PROVE  IsTable(a, b, Table(a, b)) /\ Levenshtein(a, b) = Table(a, b)[<<Len(a), Len(b)>>]
<1> DEFINE D == Table(a, b)
           I == 0..Len(a)
           J == 0..Len(b)
<1>1. D = [c \in Cells(a, b) |-> Entry(a, b, D, c)]
  BY TableExists DEF Table
<1>2. Levenshtein(a, b) = D[<<Len(a), Len(b)>>]
  BY DEF Levenshtein, Table, Entry
<1> HIDE DEF D
<1>3. ASSUME NEW i \in I, NEW j \in J
      PROVE  D[<<i, j>>] = Entry(a, b, D, <<i, j>>)
  <2>1. <<i, j>> \in Cells(a, b)
    BY DEF Cells
  <2> DEFINE c == <<i, j>>
  <2> HIDE DEF c
  <2>2. c \in Cells(a, b) => D[c] = Entry(a, b, D, c)
    BY <1>1
  <2>3. QED
    BY <2>1, <2>2 DEF c
<1>4. ASSUME NEW i \in I, NEW j \in J, i = 0 \/ j = 0 PROVE D[<<i, j>>] = i + j
  BY <1>3, <1>4 DEF Entry
<1>5. ASSUME NEW i \in 1..Len(a), NEW j \in 1..Len(b)
      PROVE  D[<<i, j>>] = Best(a, b, i, j, D[<<i - 1, j - 1>>], D[<<i, j - 1>>],
                                D[<<i - 1, j>>])
  <2>1. i \in I /\ j \in J /\ i # 0 /\ j # 0
    OBVIOUS
  <2>2. D[<<i, j>>] = Entry(a, b, D, <<i, j>>)
    BY <1>3, <2>1
  <2>3. Entry(a, b, D, <<i, j>>) =
          Best(a, b, i, j, D[<<i - 1, j - 1>>], D[<<i, j - 1>>], D[<<i - 1, j>>])
    BY <2>1 DEF Entry, Best, Cost
  <2>4. QED
    BY <2>2, <2>3
<1>6. \A i \in I : D[<<i, 0>>] = i
  BY <1>4
<1>7. \A j \in J : D[<<0, j>>] = j
  BY <1>4
<1>8. \A i \in I, j \in J : D[<<i, j>>] \in Nat
  <2> DEFINE T == {i \in I : \A j \in J : D[<<i, j>>] \in Nat}
  <2>1. 0 \in T
    BY <1>7
  <2>2. ASSUME NEW i \in 0..Len(a) - 1, i \in T PROVE i + 1 \in T
    <3> DEFINE k == i + 1
               U == {j \in J : D[<<k, j>>] \in Nat}
    <3>1. k \in I /\ k \in 1..Len(a) /\ k - 1 = i
      OBVIOUS
    <3>2. 0 \in U
      BY <1>6, <3>1
    <3>3. ASSUME NEW j \in 0..Len(b) - 1, j \in U PROVE j + 1 \in U
      <4>1. j + 1 \in 1..Len(b) /\ j + 1 \in J /\ (j + 1) - 1 = j /\ j \in J
        OBVIOUS
      <4> HIDE DEF k
      <4>2. D[<<i, j>>] \in Nat /\ D[<<k, j>>] \in Nat /\ D[<<i, j + 1>>] \in Nat
        BY <2>2, <3>3, <4>1
      <4>3. D[<<k, j + 1>>] =
              Best(a, b, k, j + 1, D[<<i, j>>], D[<<k, j>>], D[<<i, j + 1>>])
        BY <1>5, <3>1, <4>1
      <4>4. D[<<k, j + 1>>] \in Nat
        <5> DEFINE x == D[<<i, j>>]
                   y == D[<<k, j>>]
                   z == D[<<i, j + 1>>]
                   l == j + 1
        <5>1. x \in Nat /\ y \in Nat /\ z \in Nat
          BY <4>2
        <5> HIDE DEF x, y, z, l
        <5>2. Best(a, b, k, l, x, y, z) \in Nat
          BY <5>1, BestIs
        <5>3. QED
          BY <4>3, <5>2 DEF x, y, z, l
      <4>5. QED
        BY <4>1, <4>4
    <3> HIDE DEF U
    <3>4. \A j \in J : j \in U
      BY <3>2, <3>3, Climb
    <3> HIDE DEF k
    <3>5. k \in T
      BY <3>1, <3>4 DEF U
    <3>6. QED
      BY <3>5 DEF k
  <2> HIDE DEF T
  <2>3. \A i \in I : i \in T
    BY <2>1, <2>2, Climb
  <2>4. QED
    BY <2>3 DEF T
<1>9. IsTable(a, b, D)
  BY <1>5, <1>6, <1>7, <1>8 DEF IsTable
<1>10. QED
  BY <1>2, <1>9 DEF D

(* A cell is at most one more than those above it and to its left, at most   *)
(* the cost of a replacement more than the one before both, and comes from   *)
(* one of these.                                                             *)
Cell(a, b, i, j) == Table(a, b)[<<i, j>>]
FromAbove(a, b, i, j) == i > 0 /\ Cell(a, b, i, j) = Cell(a, b, i - 1, j) + 1
FromLeft(a, b, i, j) == j > 0 /\ Cell(a, b, i, j) = Cell(a, b, i, j - 1) + 1
FromBoth(a, b, i, j) ==
  i > 0 /\ j > 0 /\ Cell(a, b, i, j) = Cell(a, b, i - 1, j - 1) + Cost(a, b, i, j)

LEMMA CellIs ==
  ASSUME NEW a, NEW b, Len(a) \in Nat, Len(b) \in Nat,
         NEW i \in 0..Len(a), NEW j \in 0..Len(b)
  PROVE  /\ Cell(a, b, i, j) \in Nat /\ Cell(a, b, 0, 0) = 0
         /\ i > 0 => /\ Cell(a, b, i - 1, j) \in Nat
                     /\ Cell(a, b, i, j) <= Cell(a, b, i - 1, j) + 1
         /\ j > 0 => /\ Cell(a, b, i, j - 1) \in Nat
                     /\ Cell(a, b, i, j) <= Cell(a, b, i, j - 1) + 1
         /\ i > 0 /\ j > 0 =>
              /\ Cell(a, b, i - 1, j - 1) \in Nat
              /\ Cell(a, b, i, j) <= Cell(a, b, i - 1, j - 1) + Cost(a, b, i, j)
         /\ i > 0 \/ j > 0 =>
              FromAbove(a, b, i, j) \/ FromLeft(a, b, i, j) \/ FromBoth(a, b, i, j)
<1>1. IsTable(a, b, Table(a, b))
  BY TableIs
<1>2. \A k \in 0..Len(a), l \in 0..Len(b) : Cell(a, b, k, l) \in Nat
  BY <1>1 DEF IsTable, Cell
<1>3. \A k \in 0..Len(a) : Cell(a, b, k, 0) = k
  BY <1>1 DEF IsTable, Cell
<1>4. \A l \in 0..Len(b) : Cell(a, b, 0, l) = l
  BY <1>1 DEF IsTable, Cell
<1>5. CASE i = 0
  <2>1. Cell(a, b, i, j) = j /\ Cell(a, b, 0, 0) = 0
    BY <1>4, <1>5
  <2>2. j > 0 => Cell(a, b, i, j - 1) = j - 1
    BY <1>4, <1>5
  <2>3. QED
    BY <1>5, <2>1, <2>2 DEF FromLeft
<1>6. CASE i > 0 /\ j = 0
  <2>1. Cell(a, b, i, j) = i /\ Cell(a, b, i - 1, j) = i - 1 /\ Cell(a, b, 0, 0) = 0
    BY <1>3, <1>6
  <2>2. QED
    BY <1>6, <2>1 DEF FromAbove
<1>7. CASE i > 0 /\ j > 0
  <2> DEFINE x == Cell(a, b, i - 1, j - 1)
             y == Cell(a, b, i, j - 1)
             z == Cell(a, b, i - 1, j)
             v == Cell(a, b, i, j)
  <2>1. x \in Nat /\ y \in Nat /\ z \in Nat /\ v \in Nat
    <3>1. i - 1 \in 0..Len(a) /\ j - 1 \in 0..Len(b)
      BY <1>7
    <3>2. QED
      BY <1>2, <3>1
  <2>2. v = Best(a, b, i, j, x, y, z)
    BY <1>1, <1>7 DEF IsTable, Cell
  <2>3. Cell(a, b, 0, 0) = 0
    BY <1>3
  <2> HIDE DEF x, y, z, v
  <2>4. /\ v <= x + Cost(a, b, i, j) /\ v <= y + 1 /\ v <= z + 1
        /\ v = x + Cost(a, b, i, j) \/ v = y + 1 \/ v = z + 1
    <3> DEFINE w == Best(a, b, i, j, x, y, z)
    <3>1. /\ w <= x + Cost(a, b, i, j) /\ w <= y + 1 /\ w <= z + 1
          /\ w = x + Cost(a, b, i, j) \/ w = y + 1 \/ w = z + 1
      BY <2>1, BestIs
    <3> HIDE DEF w
    <3>2. v = w
      BY <2>2 DEF w
    <3>3. QED
      BY <3>1, <3>2
  <2>5. QED
    BY <1>7, <2>1, <2>3, <2>4 DEF FromAbove, FromLeft, FromBoth, x, y, z, v
<1>8. QED
  BY <1>5, <1>6, <1>7

(* The distance is the last cell.                                            *)
LEMMA DistanceIs ==
  ASSUME NEW a, NEW b, Len(a) \in Nat, Len(b) \in Nat
  PROVE  Levenshtein(a, b) = Cell(a, b, Len(a), Len(b)) /\ Levenshtein(a, b) \in Nat
<1>1. Levenshtein(a, b) = Cell(a, b, Len(a), Len(b))
  BY TableIs DEF Cell
<1>2. Len(a) \in 0..Len(a) /\ Len(b) \in 0..Len(b)
  OBVIOUS
<1>3. QED
  BY <1>1, <1>2, CellIs

(* Going through terms that agree costs nothing.                             *)
LEMMA Diagonal ==
  ASSUME NEW a, NEW b, Len(a) \in Nat, Len(b) \in Nat,
         NEW i \in 0..Len(a), NEW j \in 0..Len(b), NEW n \in Nat,
         i + n <= Len(a), j + n <= Len(b),
         \A k \in 1..n : a[i + k] = b[j + k]
  PROVE  Cell(a, b, i + n, j + n) \in Nat /\ Cell(a, b, i + n, j + n) <= Cell(a, b, i, j)
<1> DEFINE T == {k \in 0..n : Cell(a, b, i + k, j + k) <= Cell(a, b, i, j)}
<1>1. Cell(a, b, i, j) \in Nat
  BY CellIs
<1>2. 0 \in T
  BY <1>1
<1>3. ASSUME NEW k \in 0..n - 1, k \in T PROVE k + 1 \in T
  <2> DEFINE p == i + (k + 1)
             q == j + (k + 1)
  <2>1. /\ p \in 0..Len(a) /\ q \in 0..Len(b) /\ p > 0 /\ q > 0
        /\ p - 1 = i + k /\ q - 1 = j + k /\ k + 1 \in 1..n
    OBVIOUS
  <2>2. Cost(a, b, p, q) = 0
    BY <2>1 DEF Cost
  <2>3. Cell(a, b, i + k, j + k) <= Cell(a, b, i, j)
    BY <1>3
  <2> HIDE DEF p, q
  <2>4. /\ Cell(a, b, p - 1, q - 1) \in Nat /\ Cell(a, b, p, q) \in Nat
        /\ Cell(a, b, p, q) <= Cell(a, b, p - 1, q - 1) + Cost(a, b, p, q)
    BY <2>1, CellIs
  <2>5. Cell(a, b, p - 1, q - 1) <= Cell(a, b, i, j)
    BY <2>1, <2>3
  <2> DEFINE x == Cell(a, b, p - 1, q - 1)
             y == Cell(a, b, p, q)
             z == Cell(a, b, i, j)
  <2>6. /\ x \in Nat /\ y \in Nat /\ z \in Nat
        /\ y <= x + Cost(a, b, p, q) /\ x <= z
    BY <1>1, <2>4, <2>5
  <2> HIDE DEF x, y, z
  <2>7. y <= z
    BY <2>2, <2>6
  <2>8. QED
    BY <2>1, <2>7 DEF p, q, y, z
<1> HIDE DEF T
<1>4. \A k \in 0..n : k \in T
  BY <1>2, <1>3, Climb
<1>5. Cell(a, b, i + n, j + n) <= Cell(a, b, i, j)
  BY <1>4 DEF T
<1>6. i + n \in 0..Len(a) /\ j + n \in 0..Len(b)
  OBVIOUS
<1>7. QED
  BY <1>5, <1>6, CellIs

(* A detour is no shorter.                                                   *)
Detour(a, b, c, i, j, k) == Cell(a, c, i, k) <= Cell(a, b, i, j) + Cell(b, c, j, k)

LEMMA DetourStep ==
  ASSUME NEW a, NEW b, NEW c, Len(a) \in Nat, Len(b) \in Nat, Len(c) \in Nat,
         NEW i \in 0..Len(a), NEW j \in 0..Len(b), NEW k \in 0..Len(c),
         i > 0 => Detour(a, b, c, i - 1, j, k),
         k > 0 => Detour(a, b, c, i, j, k - 1),
         j > 0 => Detour(a, b, c, i, j - 1, k),
         i > 0 /\ j > 0 => Detour(a, b, c, i - 1, j - 1, k),
         j > 0 /\ k > 0 => Detour(a, b, c, i, j - 1, k - 1),
         i > 0 /\ j > 0 /\ k > 0 => Detour(a, b, c, i - 1, j - 1, k - 1)
  PROVE  Detour(a, b, c, i, j, k)
<1> DEFINE ab == Cell(a, b, i, j)
           bc == Cell(b, c, j, k)
           ac == Cell(a, c, i, k)
<1>1. ab \in Nat /\ bc \in Nat /\ ac \in Nat
  BY CellIs
<1>2. CASE FromAbove(a, b, i, j)
  <2> DEFINE x == Cell(a, b, i - 1, j)
             y == Cell(a, c, i - 1, k)
  <2>1. i > 0 /\ ab = x + 1
    BY <1>2 DEF FromAbove
  <2>2. y \in Nat /\ ac <= y + 1 /\ x \in Nat
    BY <2>1, CellIs
  <2>3. y <= x + bc
    BY <2>1 DEF Detour
  <2> HIDE DEF x, y
  <2>4. ac <= ab + bc
    <3> HIDE DEF ab, bc, ac
    <3>1. QED
      BY <1>1, <2>1, <2>2, <2>3
  <2>5. QED
    BY <2>4 DEF Detour
<1>3. CASE FromLeft(b, c, j, k)
  <2> DEFINE x == Cell(b, c, j, k - 1)
             y == Cell(a, c, i, k - 1)
  <2>1. k > 0 /\ bc = x + 1
    BY <1>3 DEF FromLeft
  <2>2. y \in Nat /\ ac <= y + 1 /\ x \in Nat
    BY <2>1, CellIs
  <2>3. y <= ab + x
    BY <2>1 DEF Detour
  <2> HIDE DEF x, y
  <2>4. ac <= ab + bc
    <3> HIDE DEF ab, bc, ac
    <3>1. QED
      BY <1>1, <2>1, <2>2, <2>3
  <2>5. QED
    BY <2>4 DEF Detour
<1>4. CASE FromBoth(a, b, i, j) /\ FromBoth(b, c, j, k)
  <2> DEFINE x == Cell(a, b, i - 1, j - 1)
             y == Cell(b, c, j - 1, k - 1)
             z == Cell(a, c, i - 1, k - 1)
             p == Cost(a, b, i, j)
             q == Cost(b, c, j, k)
             r == Cost(a, c, i, k)
  <2>1. i > 0 /\ j > 0 /\ k > 0 /\ ab = x + p /\ bc = y + q
    BY <1>4 DEF FromBoth
  <2>2. z \in Nat /\ ac <= z + r /\ x \in Nat /\ y \in Nat
    BY <2>1, CellIs
  <2>3. z <= x + y
    BY <2>1 DEF Detour
  <2>4. r <= p + q /\ p \in Nat /\ q \in Nat /\ r \in Nat
    BY DEF Cost
  <2> HIDE DEF x, y, z, p, q, r
  <2>5. ac <= ab + bc
    <3> HIDE DEF ab, bc, ac
    <3>1. QED
      BY <1>1, <2>1, <2>2, <2>3, <2>4
  <2>6. QED
    BY <2>5 DEF Detour
<1>5. CASE FromBoth(a, b, i, j) /\ FromAbove(b, c, j, k)
  <2> DEFINE x == Cell(a, b, i - 1, j - 1)
             y == Cell(b, c, j - 1, k)
             z == Cell(a, c, i - 1, k)
             p == Cost(a, b, i, j)
  <2>1. i > 0 /\ j > 0 /\ ab = x + p /\ bc = y + 1
    BY <1>5 DEF FromBoth, FromAbove
  <2>2. z \in Nat /\ ac <= z + 1 /\ x \in Nat /\ y \in Nat
    BY <2>1, CellIs
  <2>3. z <= x + y
    BY <2>1 DEF Detour
  <2>4. p \in Nat
    BY DEF Cost
  <2> HIDE DEF x, y, z, p
  <2>5. ac <= ab + bc
    <3> HIDE DEF ab, bc, ac
    <3>1. QED
      BY <1>1, <2>1, <2>2, <2>3, <2>4
  <2>6. QED
    BY <2>5 DEF Detour
<1>6. CASE FromLeft(a, b, i, j) /\ FromBoth(b, c, j, k)
  <2> DEFINE x == Cell(a, b, i, j - 1)
             y == Cell(b, c, j - 1, k - 1)
             z == Cell(a, c, i, k - 1)
             q == Cost(b, c, j, k)
  <2>1. j > 0 /\ k > 0 /\ ab = x + 1 /\ bc = y + q
    BY <1>6 DEF FromBoth, FromLeft
  <2>2. z \in Nat /\ ac <= z + 1 /\ x \in Nat /\ y \in Nat
    BY <2>1, CellIs
  <2>3. z <= x + y
    BY <2>1 DEF Detour
  <2>4. q \in Nat
    BY DEF Cost
  <2> HIDE DEF x, y, z, q
  <2>5. ac <= ab + bc
    <3> HIDE DEF ab, bc, ac
    <3>1. QED
      BY <1>1, <2>1, <2>2, <2>3, <2>4
  <2>6. QED
    BY <2>5 DEF Detour
<1>7. CASE FromLeft(a, b, i, j) /\ FromAbove(b, c, j, k)
  <2> DEFINE x == Cell(a, b, i, j - 1)
             y == Cell(b, c, j - 1, k)
  <2>1. j > 0 /\ ab = x + 1 /\ bc = y + 1
    BY <1>7 DEF FromAbove, FromLeft
  <2>2. x \in Nat /\ y \in Nat
    BY <2>1, CellIs
  <2>3. ac <= x + y
    BY <2>1 DEF Detour
  <2> HIDE DEF x, y
  <2>4. ac <= ab + bc
    <3> HIDE DEF ab, bc, ac
    <3>1. QED
      BY <1>1, <2>1, <2>2, <2>3
  <2>5. QED
    BY <2>4 DEF Detour
<1>8. CASE i = 0 /\ j = 0
  <2>1. ab = 0 /\ ac = bc
    <3>1. ab = 0
      BY <1>8, CellIs
    <3>2. ac = k /\ bc = k
      BY <1>8, TableIs DEF IsTable, Cell
    <3>3. QED
      BY <3>1, <3>2
  <2>2. ac <= ab + bc
    BY <1>1, <2>1
  <2>3. QED
    BY <2>2 DEF Detour
<1>9. CASE j = 0 /\ k = 0
  <2>1. bc = 0 /\ ac = ab
    <3>1. bc = 0
      BY <1>9, CellIs
    <3>2. ac = i /\ ab = i
      BY <1>9, TableIs DEF IsTable, Cell
    <3>3. QED
      BY <3>1, <3>2
  <2>2. ac <= ab + bc
    BY <1>1, <2>1
  <2>3. QED
    BY <2>2 DEF Detour
<1>10. i > 0 \/ j > 0 => FromAbove(a, b, i, j) \/ FromLeft(a, b, i, j) \/ FromBoth(a, b, i, j)
  BY CellIs
<1>11. j > 0 \/ k > 0 => FromAbove(b, c, j, k) \/ FromLeft(b, c, j, k) \/ FromBoth(b, c, j, k)
  BY CellIs
<1>12. QED
  BY <1>2, <1>3, <1>4, <1>5, <1>6, <1>7, <1>8, <1>9, <1>10, <1>11

(* The distance by way of another term is no shorter.                        *)
LEMMA TriangleInequality ==
  ASSUME NEW a, NEW b, NEW c, Len(a) \in Nat, Len(b) \in Nat, Len(c) \in Nat
  PROVE  Levenshtein(a, c) <= Levenshtein(a, b) + Levenshtein(b, c)
<1> DEFINE I == 0..Len(a)
           J == 0..Len(b)
           K == 0..Len(c)
           T == {s \in Nat : \A i \in I, j \in J, k \in K :
                               i + j + k <= s => Detour(a, b, c, i, j, k)}
<1>1. ASSUME NEW i \in I, NEW j \in J, NEW k \in K,
             \A x \in I, y \in J, z \in K :
               x + y + z < i + j + k => Detour(a, b, c, x, y, z)
      PROVE  Detour(a, b, c, i, j, k)
  <2>1. i > 0 => i - 1 \in I
    OBVIOUS
  <2>2. j > 0 => j - 1 \in J
    OBVIOUS
  <2>3. k > 0 => k - 1 \in K
    OBVIOUS
  <2>4. /\ i > 0 => Detour(a, b, c, i - 1, j, k)
        /\ k > 0 => Detour(a, b, c, i, j, k - 1)
        /\ j > 0 => Detour(a, b, c, i, j - 1, k)
    <3>1. (i - 1) + j + k < i + j + k /\ i + j + (k - 1) < i + j + k
          /\ i + (j - 1) + k < i + j + k
      OBVIOUS
    <3> HIDE DEF I, J, K
    <3>2. QED
      BY <1>1, <2>1, <2>2, <2>3, <3>1
  <2>5. /\ i > 0 /\ j > 0 => Detour(a, b, c, i - 1, j - 1, k)
        /\ j > 0 /\ k > 0 => Detour(a, b, c, i, j - 1, k - 1)
        /\ i > 0 /\ j > 0 /\ k > 0 => Detour(a, b, c, i - 1, j - 1, k - 1)
    <3>1. (i - 1) + (j - 1) + k < i + j + k /\ i + (j - 1) + (k - 1) < i + j + k
          /\ (i - 1) + (j - 1) + (k - 1) < i + j + k
      OBVIOUS
    <3> HIDE DEF I, J, K
    <3>2. QED
      BY <1>1, <2>1, <2>2, <2>3, <3>1
  <2>6. QED
    BY <2>4, <2>5, DetourStep
<1>2. 0 \in T
  <2>1. ASSUME NEW i \in I, NEW j \in J, NEW k \in K, i + j + k <= 0
        PROVE  Detour(a, b, c, i, j, k)
    <3>1. \A x \in I, y \in J, z \in K : ~(x + y + z < i + j + k)
      BY <2>1
    <3>2. QED
      BY <1>1, <3>1
  <2>2. QED
    BY <2>1
<1>3. ASSUME NEW s \in T PROVE s + 1 \in T
  <2>1. ASSUME NEW i \in I, NEW j \in J, NEW k \in K, i + j + k <= s + 1
        PROVE  Detour(a, b, c, i, j, k)
    <3>1. ASSUME NEW x \in I, NEW y \in J, NEW z \in K, x + y + z < i + j + k
          PROVE  Detour(a, b, c, x, y, z)
      <4>1. x + y + z <= s
        BY <2>1, <3>1
      <4>2. QED
        BY <1>3, <4>1
    <3> HIDE DEF I, J, K
    <3>2. QED
      BY <1>1, <3>1
  <2>2. QED
    BY <2>1
<1>4. T = Nat
  <2>1. T \subseteq Nat
    OBVIOUS
  <2> HIDE DEF T
  <2>2. QED
    BY <1>2, <1>3, <2>1, SetInduction
<1>5. Detour(a, b, c, Len(a), Len(b), Len(c))
  <2>1. Len(a) \in I /\ Len(b) \in J /\ Len(c) \in K /\ Len(a) + Len(b) + Len(c) \in Nat
    OBVIOUS
  <2>2. Len(a) + Len(b) + Len(c) \in T
    <3> HIDE DEF T
    <3>1. QED
      BY <1>4, <2>1
  <2>3. QED
    BY <2>1, <2>2
<1>6. QED
  BY <1>5, DistanceIs DEF Detour

----------------------------------------------------------------------------
(* Edits.                                                                    *)

(* The parts of a sequence around a place.                                   *)
LEMMA PartsAre ==
  ASSUME NEW S, NEW u \in Seq(S), NEW i \in 1..Len(u) + 1, NEW k \in i..Len(u) + 1
  PROVE  LET x == SubSeq(u, 1, i - 1)
             y == SubSeq(u, k, Len(u))
         IN /\ x \in Seq(S) /\ Len(x) = i - 1 /\ \A n \in 1..i - 1 : x[n] = u[n]
            /\ y \in Seq(S) /\ Len(y) = Len(u) - k + 1
            /\ \A n \in 1..Len(u) - k + 1 : y[n] = u[k + n - 1]
<1> DEFINE x == SubSeq(u, 1, i - 1)
           y == SubSeq(u, k, Len(u))
<1>1. Len(u) \in Nat
  BY LenProperties
<1>2. x \in Seq(S) /\ Len(x) = i - 1 /\ \A n \in 1..i - 1 : x[n] = u[n]
  BY <1>1
<1>3. y \in Seq(S) /\ Len(y) = Len(u) - k + 1
  BY <1>1
<1>4. \A n \in 1..Len(u) - k + 1 : y[n] = u[k + n - 1]
  BY <1>1
<1>5. QED
  BY <1>2, <1>3, <1>4

(* What each edit leaves.                                                    *)
RemovedAt(S, u, i, t) ==
  /\ t \in Seq(S) /\ Len(t) = Len(u) - 1
  /\ \A n \in 1..i - 1 : t[n] = u[n]
  /\ \A n \in i..Len(u) - 1 : t[n] = u[n + 1]
InsertedAt(S, u, i, e, t) ==
  /\ t \in Seq(S) /\ Len(t) = Len(u) + 1
  /\ \A n \in 1..i - 1 : t[n] = u[n]
  /\ t[i] = e /\ \A n \in i + 1..Len(u) + 1 : t[n] = u[n - 1]
ReplacedAt(S, u, i, e, t) ==
  /\ t \in Seq(S) /\ Len(t) = Len(u) /\ t[i] = e
  /\ \A n \in 1..Len(u) : n # i => t[n] = u[n]

LEMMA RemoveAtIs ==
  ASSUME NEW S, NEW u \in Seq(S), NEW i \in 1..Len(u)
  PROVE  RemovedAt(S, u, i, RemoveAt(u, i))
<1> DEFINE x == SubSeq(u, 1, i - 1)
           y == SubSeq(u, i + 1, Len(u))
           t == RemoveAt(u, i)
<1>1. Len(u) \in Nat
  BY LenProperties
<1>2. i \in 1..Len(u) + 1 /\ i + 1 \in i..Len(u) + 1
  BY <1>1
<1>3. /\ x \in Seq(S) /\ Len(x) = i - 1 /\ \A n \in 1..i - 1 : x[n] = u[n]
      /\ y \in Seq(S) /\ Len(y) = Len(u) - (i + 1) + 1
      /\ \A n \in 1..Len(u) - (i + 1) + 1 : y[n] = u[(i + 1) + n - 1]
  BY <1>2, PartsAre
<1>4. t = x \o y
  BY DEF RemoveAt
<1> HIDE DEF x, y, t
<1>5. /\ t \in Seq(S) /\ Len(t) = Len(x) + Len(y)
      /\ \A n \in 1..Len(x) + Len(y) : t[n] = IF n <= Len(x) THEN x[n] ELSE y[n - Len(x)]
  BY <1>3, <1>4, ConcatProperties
<1>6. Len(t) = Len(u) - 1
  BY <1>1, <1>3, <1>5
<1>7. ASSUME NEW n \in 1..i - 1 PROVE t[n] = u[n]
  <2>1. n \in 1..Len(x) + Len(y) /\ n <= Len(x)
    BY <1>1, <1>3
  <2>2. t[n] = x[n]
    BY <1>5, <2>1
  <2>3. QED
    BY <1>3, <2>2
<1>8. ASSUME NEW n \in i..Len(u) - 1 PROVE t[n] = u[n + 1]
  <2>1. n \in 1..Len(x) + Len(y) /\ ~(n <= Len(x)) /\ n - Len(x) = n - i + 1
    BY <1>1, <1>3
  <2>2. n - i + 1 \in 1..Len(u) - (i + 1) + 1 /\ (i + 1) + (n - i + 1) - 1 = n + 1
    BY <1>1
  <2>3. t[n] = y[n - i + 1]
    BY <1>5, <2>1
  <2>4. QED
    BY <1>3, <2>2, <2>3
<1>9. QED
  BY <1>5, <1>6, <1>7, <1>8 DEF RemovedAt, t

LEMMA InsertAtIs ==
  ASSUME NEW S, NEW u \in Seq(S), NEW i \in 1..Len(u) + 1, NEW e \in S
  PROVE  InsertedAt(S, u, i, e, InsertAt(u, i, e))
<1> DEFINE x == SubSeq(u, 1, i - 1)
           y == SubSeq(u, i, Len(u))
           o == <<e>>
           z == x \o o
           t == InsertAt(u, i, e)
<1>1. Len(u) \in Nat
  BY LenProperties
<1>2. i \in i..Len(u) + 1
  BY <1>1
<1>3. /\ x \in Seq(S) /\ Len(x) = i - 1 /\ \A n \in 1..i - 1 : x[n] = u[n]
      /\ y \in Seq(S) /\ Len(y) = Len(u) - i + 1
      /\ \A n \in 1..Len(u) - i + 1 : y[n] = u[i + n - 1]
  BY <1>2, PartsAre
<1>4. o \in Seq(S) /\ Len(o) = 1 /\ o[1] = e
  OBVIOUS
<1>5. t = z \o y
  BY DEF InsertAt
<1> HIDE DEF x, y, o, t
<1>6. /\ z \in Seq(S) /\ Len(z) = i
      /\ \A n \in 1..i : z[n] = IF n <= i - 1 THEN x[n] ELSE o[n - (i - 1)]
  <2>1. /\ z \in Seq(S) /\ Len(z) = Len(x) + Len(o)
        /\ \A n \in 1..Len(x) + Len(o) : z[n] = IF n <= Len(x) THEN x[n] ELSE o[n - Len(x)]
    BY <1>3, <1>4, ConcatProperties
  <2>2. Len(x) + Len(o) = i
    BY <1>1, <1>3, <1>4
  <2> HIDE DEF z
  <2>3. \A n \in 1..i : z[n] = IF n <= Len(x) THEN x[n] ELSE o[n - Len(x)]
    BY <2>1, <2>2
  <2>4. QED
    BY <1>3, <2>1, <2>2, <2>3
<1> HIDE DEF z
<1>7. /\ t \in Seq(S) /\ Len(t) = Len(z) + Len(y)
      /\ \A n \in 1..Len(z) + Len(y) : t[n] = IF n <= Len(z) THEN z[n] ELSE y[n - Len(z)]
  BY <1>3, <1>5, <1>6, ConcatProperties
<1>8. Len(t) = Len(u) + 1
  BY <1>1, <1>3, <1>6, <1>7
<1>9. ASSUME NEW n \in 1..i PROVE t[n] = z[n]
  BY <1>1, <1>3, <1>6, <1>7
<1>10. ASSUME NEW n \in 1..i - 1 PROVE t[n] = u[n]
  BY <1>1, <1>3, <1>6, <1>9
<1>11. t[i] = e
  <2>1. i \in 1..i /\ ~(i <= i - 1) /\ i - (i - 1) = 1
    BY <1>1
  <2>2. z[i] = o[1]
    BY <1>6, <2>1
  <2>3. QED
    BY <1>4, <1>9, <2>1, <2>2
<1>12. ASSUME NEW n \in i + 1..Len(u) + 1 PROVE t[n] = u[n - 1]
  <2>1. n \in 1..Len(z) + Len(y) /\ ~(n <= Len(z)) /\ n - Len(z) = n - i
    BY <1>1, <1>3, <1>6
  <2>2. n - i \in 1..Len(u) - i + 1 /\ i + (n - i) - 1 = n - 1
    BY <1>1
  <2>3. t[n] = y[n - i]
    BY <1>7, <2>1
  <2>4. QED
    BY <1>3, <2>2, <2>3
<1>13. QED
  BY <1>7, <1>8, <1>10, <1>11, <1>12 DEF InsertedAt, t

LEMMA ReplaceAtIs ==
  ASSUME NEW S, NEW u \in Seq(S), NEW i \in 1..Len(u), NEW e \in S
  PROVE  ReplacedAt(S, u, i, e, ReplaceAt(u, i, e))
<1>1. Len(u) \in Nat /\ DOMAIN u = 1..Len(u)
  BY LenProperties
<1>2. ReplaceAt(u, i, e) = [u EXCEPT ![i] = e]
  BY DEF ReplaceAt
<1>3. [u EXCEPT ![i] = e] \in Seq(S) /\ Len([u EXCEPT ![i] = e]) = Len(u)
  BY <1>1, ExceptSeq
<1>4. [u EXCEPT ![i] = e][i] = e /\ \A n \in 1..Len(u) : n # i => [u EXCEPT ![i] = e][n] = u[n]
  BY <1>1
<1>5. QED
  BY <1>2, <1>3, <1>4 DEF ReplacedAt

(* A single edit is a distance of one at most.                               *)
LEMMA EditIsOne ==
  ASSUME NEW u \in Seq(Chars), NEW t \in Edits(u)
  PROVE  t \in Seq(Chars) /\ Levenshtein(u, t) <= 1
<1> DEFINE m == Len(u)
<1>1. m \in Nat /\ DOMAIN u = 1..m
  BY LenProperties
<1>2. ASSUME NEW w \in Seq(Chars), NEW i \in 1..m + 1, i - 1 <= Len(w),
             \A k \in 1..i - 1 : u[k] = w[k]
      PROVE  Cell(u, w, i - 1, i - 1) = 0
  <2> DEFINE n == i - 1
  <2>1. Len(w) \in Nat /\ Len(u) \in Nat /\ n \in Nat
    BY <1>1, LenProperties
  <2>2. 0 \in 0..Len(u) /\ 0 \in 0..Len(w) /\ 0 + n <= Len(u) /\ 0 + n <= Len(w) /\ 0 + n = n
    BY <1>1, <1>2, <2>1
  <2>3. \A k \in 1..n : u[0 + k] = w[0 + k]
    <3>1. \A k \in 1..n : 0 + k = k
      BY <2>1
    <3>2. QED
      BY <1>2, <3>1
  <2> HIDE DEF n
  <2>4. Cell(u, w, 0 + n, 0 + n) \in Nat /\ Cell(u, w, 0 + n, 0 + n) <= Cell(u, w, 0, 0)
    BY <2>1, <2>2, <2>3, Diagonal
  <2>5. Cell(u, w, 0, 0) = 0
    BY <2>1, <2>2, CellIs
  <2>6. Cell(u, w, n, n) = 0
    BY <2>2, <2>4, <2>5
  <2>7. QED
    BY <2>6 DEF n
<1>3. CASE t = u
  <2>1. m + 1 \in 1..m + 1 /\ (m + 1) - 1 = m
    BY <1>1
  <2>2. Cell(u, u, m, m) = 0
    BY <1>2, <2>1
  <2>3. Levenshtein(u, u) = 0
    BY <1>1, <2>2, DistanceIs
  <2>4. QED
    BY <1>3, <2>3
<1>4. ASSUME NEW i \in 1..m, t = RemoveAt(u, i) PROVE t \in Seq(Chars) /\ Levenshtein(u, t) <= 1
  <2>1. /\ t \in Seq(Chars) /\ Len(t) = m - 1
        /\ \A n \in 1..i - 1 : t[n] = u[n]
        /\ \A n \in i..m - 1 : t[n] = u[n + 1]
    BY <1>4, RemoveAtIs DEF RemovedAt
  <2> DEFINE j == i - 1
             n == m - i
  <2>2. /\ i \in 0..Len(u) /\ j \in 0..Len(t) /\ n \in Nat /\ i + n = m /\ j + n = Len(t)
        /\ i > 0 /\ Len(t) \in Nat
    BY <1>1, <2>1
  <2>3. Cell(u, t, j, j) = 0
    BY <1>1, <1>2, <2>1
  <2>4. \A k \in 1..n : u[i + k] = t[j + k]
    <3> TAKE k \in 1..n
    <3>1. j + k \in i..m - 1 /\ (j + k) + 1 = i + k
      BY <1>1
    <3>2. QED
      BY <2>1, <3>1
  <2>5. Cell(u, t, i, j) \in Nat /\ Cell(u, t, i, j) <= Cell(u, t, j, j) + 1
    BY <1>1, <2>2, CellIs
  <2> HIDE DEF n
  <2>6. Cell(u, t, i + n, j + n) \in Nat /\ Cell(u, t, i + n, j + n) <= Cell(u, t, i, j)
    <3> HIDE DEF j
    <3>1. i + n <= Len(u) /\ j + n <= Len(t)
      BY <1>1, <2>2
    <3>2. QED
      BY <1>1, <2>2, <2>4, <3>1, Diagonal
  <2>7. Cell(u, t, i + n, j + n) <= 1
    BY <2>3, <2>5, <2>6
  <2>8. Levenshtein(u, t) = Cell(u, t, i + n, j + n)
    BY <1>1, <2>2, DistanceIs
  <2>9. QED
    BY <2>1, <2>7, <2>8
<1>5. ASSUME NEW i \in 1..m + 1, NEW c \in Chars, t = InsertAt(u, i, c)
      PROVE  t \in Seq(Chars) /\ Levenshtein(u, t) <= 1
  <2>1. /\ t \in Seq(Chars) /\ Len(t) = m + 1
        /\ \A n \in 1..i - 1 : t[n] = u[n]
        /\ \A n \in i + 1..m + 1 : t[n] = u[n - 1]
    BY <1>5, InsertAtIs DEF InsertedAt
  <2> DEFINE j == i - 1
             n == m + 1 - i
  <2>2. /\ i \in 0..Len(t) /\ j \in 0..Len(u) /\ n \in Nat /\ j + n = m /\ i + n = Len(t)
        /\ i > 0 /\ Len(t) \in Nat
    BY <1>1, <2>1
  <2>3. Cell(u, t, j, j) = 0
    BY <1>1, <1>2, <2>1
  <2>4. \A k \in 1..n : u[j + k] = t[i + k]
    <3> TAKE k \in 1..n
    <3>1. i + k \in i + 1..m + 1 /\ (i + k) - 1 = j + k
      BY <1>1
    <3>2. QED
      BY <2>1, <3>1
  <2>5. Cell(u, t, j, i) \in Nat /\ Cell(u, t, j, i) <= Cell(u, t, j, j) + 1
    BY <1>1, <2>2, CellIs
  <2> HIDE DEF n
  <2>6. Cell(u, t, j + n, i + n) \in Nat /\ Cell(u, t, j + n, i + n) <= Cell(u, t, j, i)
    <3> HIDE DEF j
    <3>1. j + n <= Len(u) /\ i + n <= Len(t)
      BY <1>1, <2>2
    <3>2. QED
      BY <1>1, <2>2, <2>4, <3>1, Diagonal
  <2>7. Cell(u, t, j + n, i + n) <= 1
    BY <2>3, <2>5, <2>6
  <2>8. Levenshtein(u, t) = Cell(u, t, j + n, i + n)
    BY <1>1, <2>2, DistanceIs
  <2>9. QED
    BY <2>1, <2>7, <2>8
<1>6. ASSUME NEW i \in 1..m, NEW c \in Chars, t = ReplaceAt(u, i, c)
      PROVE  t \in Seq(Chars) /\ Levenshtein(u, t) <= 1
  <2>1. t \in Seq(Chars) /\ Len(t) = m /\ \A n \in 1..m : n # i => t[n] = u[n]
    <3>1. ReplacedAt(Chars, u, i, c, t)
      BY <1>6, ReplaceAtIs
    <3>2. QED
      BY <3>1 DEF ReplacedAt
  <2> DEFINE j == i - 1
             n == m - i
  <2>2. /\ i \in 0..Len(t) /\ i \in 0..Len(u) /\ n \in Nat /\ i + n = m
        /\ i > 0 /\ Len(t) \in Nat
    BY <1>1, <2>1
  <2>3. Cell(u, t, j, j) = 0
    <3>1. i \in 1..m + 1 /\ i - 1 <= Len(t) /\ \A k \in 1..i - 1 : k \in 1..m /\ k # i
      BY <1>1, <2>1
    <3>2. QED
      BY <1>2, <2>1, <3>1
  <2>4. \A k \in 1..n : u[i + k] = t[i + k]
    <3> TAKE k \in 1..n
    <3>1. i + k \in 1..m /\ i + k # i
      BY <1>1
    <3>2. QED
      BY <2>1, <3>1
  <2>5. Cell(u, t, i, i) \in Nat /\ Cell(u, t, i, i) <= Cell(u, t, j, j) + Cost(u, t, i, i)
    BY <1>1, <2>2, CellIs
  <2> HIDE DEF n, j
  <2>6. Cell(u, t, i + n, i + n) \in Nat /\ Cell(u, t, i + n, i + n) <= Cell(u, t, i, i)
    <3>1. i + n <= Len(u) /\ i + n <= Len(t)
      BY <1>1, <2>1, <2>2
    <3>2. QED
      BY <1>1, <2>2, <2>4, <3>1, Diagonal
  <2>7. Cell(u, t, i + n, i + n) <= 1
    <3>1. Cost(u, t, i, i) \in {0, 1}
      BY DEF Cost
    <3>2. QED
      BY <2>3, <2>5, <2>6, <3>1
  <2>8. Levenshtein(u, t) = Cell(u, t, i + n, i + n)
    BY <1>1, <2>1, <2>2, DistanceIs
  <2>9. QED
    BY <2>1, <2>7, <2>8
<1>7. t \in {u} \cup {RemoveAt(u, i) : i \in 1..m}
             \cup {InsertAt(u, i, c) : i \in 1..m + 1, c \in Chars}
             \cup {ReplaceAt(u, i, c) : i \in 1..m, c \in Chars}
  BY <1>1 DEF Edits
<1>8. QED
  BY <1>3, <1>4, <1>5, <1>6, <1>7

(* Partway from one term to another: what is done of the second, then what   *)
(* is left of the first.                                                     *)
Way(a, t, i, j) == SubSeq(t, 1, j) \o SubSeq(a, i + 1, Len(a))
IsWay(a, t, i, j, w) ==
  /\ w \in Seq(Chars) /\ Len(w) = j + Len(a) - i
  /\ \A n \in 1..j : w[n] = t[n]
  /\ \A n \in j + 1..j + Len(a) - i : w[n] = a[i + n - j]

LEMMA WayIs ==
  ASSUME NEW a \in Seq(Chars), NEW t \in Seq(Chars), NEW i \in 0..Len(a), NEW j \in 0..Len(t)
  PROVE  IsWay(a, t, i, j, Way(a, t, i, j))
<1> DEFINE x == SubSeq(t, 1, j)
           y == SubSeq(a, i + 1, Len(a))
           w == Way(a, t, i, j)
           S == Chars
<1>1. Len(a) \in Nat /\ Len(t) \in Nat
  BY LenProperties
<1>2. x \in Seq(S) /\ Len(x) = j /\ \A n \in 1..j : x[n] = t[n]
  BY <1>1
<1>3. y \in Seq(S) /\ Len(y) = Len(a) - i
  BY <1>1
<1>4. \A n \in 1..Len(a) - i : y[n] = a[i + n]
  BY <1>1
<1>5. w = x \o y
  BY DEF Way
<1> HIDE DEF x, y, w, S
<1>6. /\ w \in Seq(S) /\ Len(w) = Len(x) + Len(y)
      /\ \A n \in 1..Len(x) + Len(y) : w[n] = IF n <= Len(x) THEN x[n] ELSE y[n - Len(x)]
  BY <1>2, <1>3, <1>5, ConcatProperties
<1>7. Len(w) = j + Len(a) - i
  BY <1>1, <1>2, <1>3, <1>6
<1>8. ASSUME NEW n \in 1..j PROVE w[n] = t[n]
  <2>1. n \in 1..Len(x) + Len(y) /\ n <= Len(x)
    BY <1>1, <1>2, <1>3
  <2>2. w[n] = x[n]
    BY <1>6, <2>1
  <2>3. QED
    BY <1>2, <2>2
<1>9. ASSUME NEW n \in j + 1..j + Len(a) - i PROVE w[n] = a[i + n - j]
  <2>1. n \in 1..Len(x) + Len(y) /\ ~(n <= Len(x)) /\ n - Len(x) = n - j
    BY <1>1, <1>2, <1>3
  <2>2. n - j \in 1..Len(a) - i /\ i + (n - j) = i + n - j
    BY <1>1
  <2>3. w[n] = y[n - j]
    BY <1>6, <2>1
  <2>4. QED
    BY <1>4, <2>2, <2>3
<1>10. QED
  BY <1>6, <1>7, <1>8, <1>9 DEF IsWay, w, S

(* What is so far is the only such sequence.                                 *)
LEMMA WayIsUnique ==
  ASSUME NEW a \in Seq(Chars), NEW t \in Seq(Chars), NEW i \in 0..Len(a), NEW j \in 0..Len(t),
         NEW w, IsWay(a, t, i, j, w)
  PROVE  w = Way(a, t, i, j)
<1> DEFINE v == Way(a, t, i, j)
           S == Chars
<1>1. IsWay(a, t, i, j, v)
  BY WayIs
<1> HIDE DEF v, S
<1>2. Len(a) \in Nat /\ Len(t) \in Nat
  BY LenProperties
<1>3. w \in Seq(S) /\ v \in Seq(S) /\ Len(w) = j + Len(a) - i /\ Len(v) = j + Len(a) - i
  BY <1>1 DEF IsWay, S
<1>4. \A n \in 1..j + Len(a) - i : n \in 1..j \/ n \in j + 1..j + Len(a) - i
  BY <1>2
<1>5. \A n \in 1..j + Len(a) - i : w[n] = v[n]
  BY <1>1, <1>4 DEF IsWay
<1>6. \A n \in 1..Len(w) : w[n] = v[n]
  BY <1>3, <1>5
<1>7. w = v
  BY <1>3, <1>6, SeqEqual
<1>8. QED
  BY <1>7 DEF v

(* Each step of the way is an edit, or none where the terms agree.           *)
LEMMA WayGoesOn ==
  ASSUME NEW a \in Seq(Chars), NEW t \in Seq(Chars), NEW i \in 0..Len(a), NEW j \in 0..Len(t)
  PROVE  /\ i > 0 => Way(a, t, i, j) \in Edits(Way(a, t, i - 1, j))
         /\ j > 0 => Way(a, t, i, j) \in Edits(Way(a, t, i, j - 1))
         /\ i > 0 /\ j > 0 => Way(a, t, i, j) \in Edits(Way(a, t, i - 1, j - 1))
         /\ i > 0 /\ j > 0 /\ a[i] = t[j] => Way(a, t, i, j) = Way(a, t, i - 1, j - 1)
<1> DEFINE m == Len(a)
<1>1. m \in Nat /\ Len(t) \in Nat
  BY LenProperties
<1>2. ASSUME i > 0 PROVE Way(a, t, i, j) \in Edits(Way(a, t, i - 1, j))
  <2> DEFINE u == Way(a, t, i - 1, j)
             w == RemoveAt(u, j + 1)
             p == j + 1
  <2>1. i - 1 \in 0..m
    BY <1>1, <1>2
  <2>2. IsWay(a, t, i - 1, j, u)
    BY <2>1, WayIs
  <2> HIDE DEF u
  <2>3. u \in Seq(Chars) /\ Len(u) = j + m - (i - 1) /\ p \in 1..Len(u) /\ DOMAIN u = 1..Len(u)
    <3>1. u \in Seq(Chars) /\ Len(u) = j + m - (i - 1)
      BY <2>2 DEF IsWay
    <3>2. QED
      BY <1>1, <1>2, <3>1, LenProperties
  <2>4. RemovedAt(Chars, u, p, w)
    BY <2>3, RemoveAtIs
  <2>5. w \in Edits(u)
    BY <2>3 DEF Edits
  <2> HIDE DEF w
  <2>6. w \in Seq(Chars) /\ Len(w) = j + m - i
    BY <1>1, <2>3, <2>4 DEF RemovedAt
  <2>7. ASSUME NEW n \in 1..j PROVE w[n] = t[n]
    <3>1. n \in 1..p - 1
      BY <1>1
    <3>2. w[n] = u[n]
      BY <2>4, <3>1 DEF RemovedAt
    <3>3. QED
      BY <2>2, <3>2 DEF IsWay
  <2>8. ASSUME NEW n \in j + 1..j + m - i PROVE w[n] = a[i + n - j]
    <3>1. /\ n \in p..Len(u) - 1 /\ n + 1 \in j + 1..j + m - (i - 1)
          /\ (i - 1) + (n + 1) - j = i + n - j
      BY <1>1, <2>3
    <3>2. w[n] = u[n + 1]
      BY <2>4, <3>1 DEF RemovedAt
    <3>3. u[n + 1] = a[(i - 1) + (n + 1) - j]
      BY <2>2, <3>1 DEF IsWay
    <3>4. QED
      BY <3>1, <3>2, <3>3
  <2>9. IsWay(a, t, i, j, w)
    BY <2>6, <2>7, <2>8 DEF IsWay
  <2>10. QED
    BY <2>5, <2>9, WayIsUnique DEF u
<1>3. ASSUME j > 0 PROVE Way(a, t, i, j) \in Edits(Way(a, t, i, j - 1))
  <2> DEFINE u == Way(a, t, i, j - 1)
             w == InsertAt(u, j, t[j])
  <2>1. j - 1 \in 0..Len(t) /\ j \in 1..Len(t)
    BY <1>1, <1>3
  <2>2. IsWay(a, t, i, j - 1, u)
    BY <2>1, WayIs
  <2>3. t[j] \in Chars
    BY <2>1, ElementOfSeq
  <2> HIDE DEF u
  <2>4. u \in Seq(Chars) /\ Len(u) = (j - 1) + m - i /\ j \in 1..Len(u) + 1
    <3>1. u \in Seq(Chars) /\ Len(u) = (j - 1) + m - i
      BY <2>2 DEF IsWay
    <3>2. QED
      BY <1>1, <1>3, <3>1
  <2>5. InsertedAt(Chars, u, j, t[j], w)
    BY <2>3, <2>4, InsertAtIs
  <2>6. w \in Edits(u)
    BY <2>3, <2>4 DEF Edits
  <2> HIDE DEF w
  <2>7. w \in Seq(Chars) /\ Len(w) = j + m - i
    BY <1>1, <2>4, <2>5 DEF InsertedAt
  <2>8. ASSUME NEW n \in 1..j PROVE w[n] = t[n]
    <3>1. CASE n = j
      BY <2>5, <3>1 DEF InsertedAt
    <3>2. CASE n # j
      <4>1. n \in 1..j - 1
        BY <1>1, <3>2
      <4>2. w[n] = u[n]
        BY <2>5, <4>1 DEF InsertedAt
      <4>3. QED
        BY <2>2, <4>1, <4>2 DEF IsWay
    <3>3. QED
      BY <3>1, <3>2
  <2>9. ASSUME NEW n \in j + 1..j + m - i PROVE w[n] = a[i + n - j]
    <3>1. /\ n \in j + 1..Len(u) + 1 /\ n - 1 \in (j - 1) + 1..(j - 1) + m - i
          /\ i + (n - 1) - (j - 1) = i + n - j
      BY <1>1, <2>4
    <3>2. w[n] = u[n - 1]
      BY <2>5, <3>1 DEF InsertedAt
    <3>3. u[n - 1] = a[i + (n - 1) - (j - 1)]
      BY <2>2, <3>1 DEF IsWay
    <3>4. QED
      BY <3>1, <3>2, <3>3
  <2>10. IsWay(a, t, i, j, w)
    BY <2>7, <2>8, <2>9 DEF IsWay
  <2>11. QED
    BY <2>6, <2>10, WayIsUnique DEF u
<1>4. ASSUME i > 0, j > 0
      PROVE  /\ Way(a, t, i, j) \in Edits(Way(a, t, i - 1, j - 1))
             /\ a[i] = t[j] => Way(a, t, i, j) = Way(a, t, i - 1, j - 1)
  <2> DEFINE u == Way(a, t, i - 1, j - 1)
             w == ReplaceAt(u, j, t[j])
  <2>1. i - 1 \in 0..m /\ j - 1 \in 0..Len(t) /\ j \in 1..Len(t)
    BY <1>1, <1>4
  <2>2. IsWay(a, t, i - 1, j - 1, u)
    BY <2>1, WayIs
  <2>3. t[j] \in Chars
    BY <2>1, ElementOfSeq
  <2> HIDE DEF u
  <2>4. u \in Seq(Chars) /\ Len(u) = j + m - i /\ j \in 1..Len(u) /\ DOMAIN u = 1..Len(u)
    <3>1. u \in Seq(Chars) /\ Len(u) = (j - 1) + m - (i - 1)
      BY <2>2 DEF IsWay
    <3>2. Len(u) = j + m - i /\ j \in 1..Len(u)
      BY <1>1, <1>4, <3>1
    <3>3. QED
      BY <3>1, <3>2, LenProperties
  <2>5. ReplacedAt(Chars, u, j, t[j], w)
    BY <2>3, <2>4, ReplaceAtIs
  <2>6. w \in Edits(u)
    BY <2>3, <2>4 DEF Edits
  <2>7. ASSUME NEW n \in 1..j - 1 PROVE u[n] = t[n] /\ n \in 1..Len(u) /\ n # j
    <3>1. n \in 1..Len(u) /\ n # j
      BY <1>1, <2>4
    <3>2. QED
      BY <2>2, <3>1 DEF IsWay
  <2>8. ASSUME NEW n \in j..j + m - i PROVE u[n] = a[i + n - j] /\ n \in 1..Len(u)
    <3>1. n \in (j - 1) + 1..(j - 1) + m - (i - 1) /\ (i - 1) + n - (j - 1) = i + n - j
          /\ n \in 1..Len(u)
      BY <1>1, <2>4
    <3>2. u[n] = a[(i - 1) + n - (j - 1)]
      BY <2>2, <3>1 DEF IsWay
    <3>3. QED
      BY <3>1, <3>2
  <2> HIDE DEF w
  <2>9. IsWay(a, t, i, j, w)
    <3>1. w \in Seq(Chars) /\ Len(w) = j + m - i
      BY <2>4, <2>5 DEF ReplacedAt
    <3>2. ASSUME NEW n \in 1..j PROVE w[n] = t[n]
      <4>1. n = j \/ n \in 1..j - 1
        BY <1>1
      <4>2. QED
        BY <2>5, <2>7, <4>1 DEF ReplacedAt
    <3>3. ASSUME NEW n \in j + 1..j + m - i PROVE w[n] = a[i + n - j]
      <4>1. n \in j..j + m - i /\ n # j
        BY <1>1
      <4>2. QED
        BY <2>5, <2>8, <4>1 DEF ReplacedAt
    <3>4. QED
      BY <3>1, <3>2, <3>3 DEF IsWay
  <2>10. ASSUME a[i] = t[j] PROVE IsWay(a, t, i, j, u)
    <3>1. j \in j..j + m - i /\ i + j - j = i
      BY <1>1, <1>4
    <3>2. u[j] = t[j]
      BY <2>8, <2>10, <3>1
    <3>3. ASSUME NEW n \in 1..j PROVE u[n] = t[n]
      <4>1. n = j \/ n \in 1..j - 1
        BY <1>1
      <4>2. QED
        BY <2>7, <3>2, <4>1
    <3>4. ASSUME NEW n \in j + 1..j + m - i PROVE u[n] = a[i + n - j]
      <4>1. n \in j..j + m - i
        BY <1>1
      <4>2. QED
        BY <2>8, <4>1
    <3>5. QED
      BY <2>4, <3>3, <3>4 DEF IsWay
  <2>11. QED
    BY <2>6, <2>9, <2>10, WayIsUnique DEF u
<1>5. QED
  BY <1>2, <1>3, <1>4

----------------------------------------------------------------------------
(* What so many edits lead to.                                               *)

IsNear(t, d, near) ==
  /\ near \in [0..d -> SUBSET Seq(Chars)] /\ near[0] = {t}
  /\ \A n \in 1..d : near[n] = UNION {Edits(u) : u \in near[n - 1]}
Near(t, d) ==
  CHOOSE near : near = [n \in 0..d |->
    IF n = 0 THEN {t} ELSE UNION {Edits(u) : u \in near[n - 1]}]

LEMMA NearIs ==
  ASSUME NEW t \in Seq(Chars), NEW d \in Nat
  PROVE  IsNear(t, d, Near(t, d)) /\ Within(t, d) = Near(t, d)[d]
<1> DEFINE X == SUBSET Seq(Chars)
           G == [n \in 1..d |-> [x \in X |-> UNION {Edits(u) : u \in x}]]
           x0 == {t}
           near == Near(t, d)
<1>1. ASSUME NEW x \in X PROVE UNION {Edits(u) : u \in x} \in X
  BY EditIsOne
<1>2. x0 \in X /\ G \in [1..d -> [X -> X]]
  <2>1. x0 \in X
    OBVIOUS
  <2> HIDE DEF X
  <2>2. QED
    BY <1>1, <2>1
<1>3. \A n \in 1..d, x \in X : G[n][x] = UNION {Edits(u) : u \in x}
  OBVIOUS
<1> HIDE DEF X, G, x0, near
<1>4. PICK f : Iterates(f, d, X, x0, G)
  BY <1>2, Iteration DEF Steps
<1>5. f \in [0..d -> X] /\ f[0] = x0 /\ \A n \in 1..d : f[n] = G[n][f[n - 1]]
  BY <1>4 DEF Iterates
<1>6. ASSUME NEW n \in 1..d PROVE f[n] = UNION {Edits(u) : u \in f[n - 1]}
  <2>1. n - 1 \in 0..d
    OBVIOUS
  <2>2. f[n - 1] \in X
    BY <1>5, <2>1
  <2>3. QED
    BY <1>3, <1>5, <2>2
<1>7. \A n \in 0..d : f[n] = IF n = 0 THEN {t} ELSE UNION {Edits(u) : u \in f[n - 1]}
  <2> TAKE n \in 0..d
  <2>1. CASE n = 0
    BY <1>5, <2>1 DEF x0
  <2>2. CASE n # 0
    <3>1. n \in 1..d
      BY <2>2
    <3>2. QED
      BY <1>6, <2>2, <3>1
  <2>3. QED
    BY <2>1, <2>2
<1>8. f = [n \in 0..d |-> IF n = 0 THEN {t} ELSE UNION {Edits(u) : u \in f[n - 1]}]
  BY <1>5, <1>7
<1>9. near = [n \in 0..d |-> IF n = 0 THEN {t} ELSE UNION {Edits(u) : u \in near[n - 1]}]
  BY <1>8 DEF Near, near
<1>10. near[0] = {t}
  BY <1>9
<1>11. ASSUME NEW n \in 1..d PROVE near[n] = UNION {Edits(u) : u \in near[n - 1]}
  <2>1. n \in 0..d /\ n # 0
    OBVIOUS
  <2>2. QED
    BY <1>9, <2>1
<1>12. \A n \in 0..d : near[n] \in X
  <2> DEFINE T == {n \in 0..d : near[n] \in X}
  <2>1. 0 \in T
    <3>1. near[0] \in X
      BY <1>2, <1>10 DEF x0
    <3>2. 0 \in 0..d
      OBVIOUS
    <3>3. QED
      BY <3>1, <3>2
  <2>2. ASSUME NEW n \in 0..d - 1, n \in T PROVE n + 1 \in T
    <3>1. n + 1 \in 1..d /\ n + 1 \in 0..d /\ (n + 1) - 1 = n /\ near[n] \in X
      BY <2>2
    <3>2. near[n + 1] = UNION {Edits(u) : u \in near[n]}
      BY <1>11, <3>1
    <3>3. near[n + 1] \in X
      BY <1>1, <3>1, <3>2
    <3>4. QED
      BY <3>1, <3>3
  <2> HIDE DEF T
  <2>3. \A n \in 0..d : n \in T
    BY <2>1, <2>2, Climb
  <2>4. QED
    BY <2>3 DEF T
<1>13. near \in [0..d -> X]
  BY <1>9, <1>12
<1>14. IsNear(t, d, near)
  BY <1>10, <1>11, <1>13 DEF IsNear, X
<1>15. Within(t, d) = near[d]
  BY DEF Within, Near, near
<1>16. QED
  BY <1>14, <1>15 DEF near

(* So many edits are no greater a distance.                                  *)
LEMMA NearIsClose ==
  ASSUME NEW t \in Seq(Chars), NEW d \in Nat, NEW w \in Within(t, d)
  PROVE  w \in Seq(Chars) /\ Levenshtein(t, w) <= d
<1> DEFINE near == Near(t, d)
           T == {n \in 0..d : \A u \in near[n] : Levenshtein(t, u) <= n}
<1>1. /\ near \in [0..d -> SUBSET Seq(Chars)] /\ near[0] = {t}
      /\ \A n \in 1..d : near[n] = UNION {Edits(u) : u \in near[n - 1]}
      /\ Within(t, d) = near[d]
  BY NearIs DEF IsNear
<1> HIDE DEF near
<1>2. \A n \in 0..d : \A u \in near[n] : u \in Seq(Chars)
  BY <1>1
<1>3. \A u \in Seq(Chars) : Len(u) \in Nat
  BY LenProperties
<1>4. 0 \in T
  <2>1. t \in Edits(t)
    BY DEF Edits
  <2>2. Levenshtein(t, t) <= 0
    <3>1. Cell(t, t, 0 + Len(t), 0 + Len(t)) <= Cell(t, t, 0, 0)
      <4>1. Len(t) \in Nat
        BY <1>3
      <4> DEFINE n == Len(t)
      <4>2. n \in Nat /\ 0 \in 0..Len(t) /\ 0 + n <= Len(t) /\ \A k \in 1..n : t[0 + k] = t[0 + k]
        BY <4>1
      <4> HIDE DEF n
      <4>3. Cell(t, t, 0 + n, 0 + n) <= Cell(t, t, 0, 0)
        BY <4>1, <4>2, Diagonal
      <4>4. QED
        BY <4>3 DEF n
    <3>2. Len(t) \in Nat /\ 0 \in 0..Len(t) /\ 0 + Len(t) = Len(t)
      BY <1>3
    <3>3. Cell(t, t, 0, 0) = 0
      BY <3>2, CellIs
    <3>4. Levenshtein(t, t) = Cell(t, t, Len(t), Len(t))
      BY <3>2, DistanceIs
    <3>5. QED
      BY <3>1, <3>2, <3>3, <3>4
  <2>3. QED
    BY <1>1, <2>2
<1>5. ASSUME NEW n \in 0..d - 1, n \in T PROVE n + 1 \in T
  <2>1. n + 1 \in 1..d /\ n + 1 \in 0..d /\ (n + 1) - 1 = n /\ n \in 0..d
    OBVIOUS
  <2>2. near[n + 1] = UNION {Edits(u) : u \in near[n]}
    BY <1>1, <2>1
  <2>3. ASSUME NEW v \in near[n + 1] PROVE Levenshtein(t, v) <= n + 1
    <3>1. PICK u \in near[n] : v \in Edits(u)
      BY <2>2
    <3>2. Levenshtein(t, u) <= n
      BY <1>5
    <3>3. u \in Seq(Chars) /\ v \in Seq(Chars)
      BY <1>2, <2>1
    <3>4. Levenshtein(u, v) <= 1
      BY <3>1, <3>3, EditIsOne
    <3>5. Levenshtein(t, v) <= Levenshtein(t, u) + Levenshtein(u, v)
      BY <1>3, <3>3, TriangleInequality
    <3>6. Levenshtein(t, u) \in Nat /\ Levenshtein(u, v) \in Nat /\ Levenshtein(t, v) \in Nat
      BY <1>3, <3>3, DistanceIs
    <3>7. QED
      BY <3>2, <3>4, <3>5, <3>6
  <2>4. QED
    BY <2>1, <2>3
<1> HIDE DEF T
<1>6. \A n \in 0..d : n \in T
  BY <1>4, <1>5, Climb
<1>7. QED
  BY <1>1, <1>2, <1>6 DEF T

(* And a distance no greater is reached by so many edits.                    *)
LEMMA CloseIsNear ==
  ASSUME NEW t \in Seq(Chars), NEW d \in Nat, NEW w \in Seq(Chars), Levenshtein(t, w) <= d
  PROVE  w \in Within(t, d)
<1> DEFINE near == Near(t, d)
           I == 0..Len(t)
           J == 0..Len(w)
           Reached(i, j) == \A n \in 0..d : Cell(t, w, i, j) <= n => Way(t, w, i, j) \in near[n]
           T == {s \in Nat : \A i \in I, j \in J : i + j <= s => Reached(i, j)}
<1>1. /\ near[0] = {t} /\ near \in [0..d -> SUBSET Seq(Chars)]
      /\ \A n \in 1..d : near[n] = UNION {Edits(u) : u \in near[n - 1]}
      /\ Within(t, d) = near[d]
  BY NearIs DEF IsNear
<1> HIDE DEF near
<1>2. Len(t) \in Nat /\ Len(w) \in Nat
  BY LenProperties
<1>3. ASSUME NEW n \in 1..d, NEW u \in near[n - 1], NEW v \in Edits(u) PROVE v \in near[n]
  BY <1>1
<1>4. \A n \in 0..d : t \in near[n]
  <2> DEFINE U == {n \in 0..d : t \in near[n]}
  <2>1. 0 \in U
    BY <1>1
  <2>2. ASSUME NEW n \in 0..d - 1, n \in U PROVE n + 1 \in U
    <3>1. n + 1 \in 1..d /\ n + 1 \in 0..d /\ (n + 1) - 1 = n
      OBVIOUS
    <3>2. t \in Edits(t) /\ t \in near[(n + 1) - 1]
      BY <2>2, <3>1 DEF Edits
    <3>3. t \in near[n + 1]
      BY <1>3, <3>1, <3>2
    <3>4. QED
      BY <3>1, <3>3
  <2> HIDE DEF U
  <2>3. \A n \in 0..d : n \in U
    BY <2>1, <2>2, Climb
  <2>4. QED
    BY <2>3 DEF U
<1>5. Way(t, w, 0, 0) = t /\ Way(t, w, Len(t), Len(w)) = w
  <2>1. IsWay(t, w, 0, 0, t)
    <3>1. 0 + Len(t) - 0 = Len(t) /\ \A n \in 1..Len(t) : 0 + n - 0 = n
      BY <1>2
    <3>2. \A n \in 1..0 : t[n] = w[n]
      OBVIOUS
    <3>3. QED
      BY <1>2, <3>1, <3>2 DEF IsWay
  <2>2. IsWay(t, w, Len(t), Len(w), w)
    <3>1. Len(w) + Len(t) - Len(t) = Len(w)
      BY <1>2
    <3>2. \A n \in Len(w) + 1..Len(w) : FALSE
      BY <1>2
    <3>3. QED
      BY <3>1, <3>2 DEF IsWay
  <2>3. 0 \in I /\ 0 \in J /\ Len(t) \in I /\ Len(w) \in J
    BY <1>2
  <2>4. QED
    BY <2>1, <2>2, <2>3, WayIsUnique
<1>6. ASSUME NEW i \in I, NEW j \in J, \A x \in I, y \in J : x + y < i + j => Reached(x, y)
      PROVE  Reached(i, j)
  <2> SUFFICES ASSUME NEW n \in 0..d, Cell(t, w, i, j) <= n PROVE Way(t, w, i, j) \in near[n]
    OBVIOUS
  <2>1. CASE i = 0 /\ j = 0
    BY <1>4, <1>5, <2>1
  <2>2. ASSUME NEW x \in I, NEW y \in J, x + y < i + j, Cell(t, w, x, y) \in Nat,
               Cell(t, w, i, j) = Cell(t, w, x, y) + 1,
               Way(t, w, i, j) \in Edits(Way(t, w, x, y))
        PROVE  Way(t, w, i, j) \in near[n]
    <3>1. n - 1 \in 0..d /\ n \in 1..d /\ Cell(t, w, x, y) <= n - 1
      BY <2>2
    <3>2. Reached(x, y)
      BY <1>6, <2>2
    <3>3. Way(t, w, x, y) \in near[n - 1]
      BY <3>1, <3>2
    <3>4. QED
      BY <1>3, <2>2, <3>1, <3>3
  <2>3. CASE FromAbove(t, w, i, j)
    <3>1. i > 0 /\ Cell(t, w, i, j) = Cell(t, w, i - 1, j) + 1
      BY <2>3 DEF FromAbove
    <3>2. i - 1 \in I /\ (i - 1) + j < i + j
      BY <1>2, <3>1
    <3>3. Cell(t, w, i - 1, j) \in Nat
      BY <1>2, <3>1, CellIs
    <3>4. Way(t, w, i, j) \in Edits(Way(t, w, i - 1, j))
      BY <3>1, WayGoesOn
    <3>5. QED
      BY <2>2, <3>1, <3>2, <3>3, <3>4
  <2>4. CASE FromLeft(t, w, i, j)
    <3>1. j > 0 /\ Cell(t, w, i, j) = Cell(t, w, i, j - 1) + 1
      BY <2>4 DEF FromLeft
    <3>2. j - 1 \in J /\ i + (j - 1) < i + j
      BY <1>2, <3>1
    <3>3. Cell(t, w, i, j - 1) \in Nat
      BY <1>2, <3>1, CellIs
    <3>4. Way(t, w, i, j) \in Edits(Way(t, w, i, j - 1))
      BY <3>1, WayGoesOn
    <3>5. QED
      BY <2>2, <3>1, <3>2, <3>3, <3>4
  <2>5. CASE FromBoth(t, w, i, j)
    <3>1. i > 0 /\ j > 0 /\ Cell(t, w, i, j) = Cell(t, w, i - 1, j - 1) + Cost(t, w, i, j)
      BY <2>5 DEF FromBoth
    <3>2. i - 1 \in I /\ j - 1 \in J /\ (i - 1) + (j - 1) < i + j
      BY <1>2, <3>1
    <3>3. Cell(t, w, i - 1, j - 1) \in Nat
      BY <1>2, <3>1, CellIs
    <3>4. CASE t[i] = w[j]
      <4>1. Cell(t, w, i - 1, j - 1) <= n
        BY <3>1, <3>3, <3>4 DEF Cost
      <4>2. Reached(i - 1, j - 1)
        BY <1>6, <3>2
      <4>3. Way(t, w, i, j) = Way(t, w, i - 1, j - 1)
        BY <3>1, <3>4, WayGoesOn
      <4>4. QED
        BY <4>1, <4>2, <4>3
    <3>5. CASE t[i] # w[j]
      <4>1. Cell(t, w, i, j) = Cell(t, w, i - 1, j - 1) + 1
        BY <3>1, <3>5 DEF Cost
      <4>2. Way(t, w, i, j) \in Edits(Way(t, w, i - 1, j - 1))
        BY <3>1, WayGoesOn
      <4>3. QED
        BY <2>2, <3>2, <3>3, <4>1, <4>2
    <3>6. QED
      BY <3>4, <3>5
  <2>6. i > 0 \/ j > 0 => FromAbove(t, w, i, j) \/ FromLeft(t, w, i, j) \/ FromBoth(t, w, i, j)
    BY <1>2, CellIs
  <2>7. QED
    BY <2>1, <2>3, <2>4, <2>5, <2>6
<1> HIDE DEF Reached
<1>7. 0 \in T
  <2>1. ASSUME NEW i \in I, NEW j \in J, i + j <= 0 PROVE Reached(i, j)
    <3>1. \A x \in I, y \in J : ~(x + y < i + j)
      BY <2>1
    <3>2. QED
      BY <1>6, <3>1
  <2>2. QED
    BY <2>1
<1>8. ASSUME NEW s \in T PROVE s + 1 \in T
  <2>1. ASSUME NEW i \in I, NEW j \in J, i + j <= s + 1 PROVE Reached(i, j)
    <3>1. ASSUME NEW x \in I, NEW y \in J, x + y < i + j PROVE Reached(x, y)
      <4>1. x + y <= s
        BY <2>1, <3>1
      <4>2. QED
        BY <1>8, <4>1
    <3> HIDE DEF I, J
    <3>2. QED
      BY <1>6, <3>1
  <2>2. QED
    BY <2>1
<1>9. T = Nat
  <2>1. T \subseteq Nat
    OBVIOUS
  <2> HIDE DEF T
  <2>2. QED
    BY <1>7, <1>8, <2>1, SetInduction
<1>10. Reached(Len(t), Len(w))
  <2>1. Len(t) \in I /\ Len(w) \in J /\ Len(t) + Len(w) \in Nat
    BY <1>2
  <2>2. Len(t) + Len(w) \in T
    <3> HIDE DEF T
    <3>1. QED
      BY <1>9, <2>1
  <2>3. QED
    BY <2>1, <2>2
<1>11. Cell(t, w, Len(t), Len(w)) <= d /\ d \in 0..d
  BY <1>2, DistanceIs
<1>12. Way(t, w, Len(t), Len(w)) \in near[d]
  BY <1>10, <1>11 DEF Reached
<1>13. QED
  BY <1>1, <1>5, <1>12

(* A term is within a distance, by the table of the code, if and only if so  *)
(* many single edits lead to it (fuzzy.rs:21-46).                            *)
THEOREM DistanceIsEdits ==
  ASSUME NEW t \in Seq(Chars), NEW w \in Seq(Chars), NEW d \in Nat
  PROVE  Levenshtein(t, w) <= d <=> w \in Within(t, d)
BY NearIsClose, CloseIsNear

(* After any history of the index, a fuzzy query finds the documents with a  *)
(* term that so many single edits lead to: FuzzyFindsNear (engine.rs:503-    *)
(* 513, fuzzy.rs:21-63).                                                     *)
THEOREM FuzzyQueries == Spec => []FuzzyFindsNear
<1>1. ASSUME IndexInv PROVE FuzzyFindsNear
  <2>1. IndexOK(index)
    BY <1>1 DEF IndexInv
  <2> SUFFICES ASSUME NEW q \in Misspelt
               PROVE  FuzzyDocIds(index, q.term, q.distance) =
                        {id \in DOMAIN index.documents :
                           ToSet(index.documents[id]) \cap Meant[q] # {}}
    BY DEF FuzzyFindsNear, Matching
  <2> DEFINE P == index.postings
             Found == FindFuzzyMatches(q.term, DOMAIN P, q.distance)
  <2>2. q.term \in Seq(Chars) /\ q.distance \in Nat
    BY MisspeltAssumption
  <2>3. /\ DOMAIN P \subseteq Terms /\ Terms \subseteq Seq(Chars)
        /\ \A t \in DOMAIN P : DocIds(P[t]) = Holding(index, t)
        /\ \A id \in DOMAIN index.documents : ToSet(index.documents[id]) \subseteq DOMAIN P
    BY <2>1, TermsHave, CharsAssumption
  <2>4. Meant[q] = Within(q.term, q.distance) \cap Terms
    BY DEF Meant
  <2> HIDE DEF P
  <2>5. \A t \in DOMAIN P : t \in Found <=> t \in Meant[q]
    <3> TAKE t \in DOMAIN P
    <3>1. t \in Seq(Chars)
      BY <2>3
    <3>2. Levenshtein(q.term, t) <= q.distance <=> t \in Within(q.term, q.distance)
      BY <2>2, <3>1, DistanceIsEdits
    <3>3. QED
      BY <2>3, <2>4, <3>2 DEF FindFuzzyMatches
  <2>6. Found \subseteq DOMAIN P
    BY DEF FindFuzzyMatches
  <2>7. FuzzyDocIds(index, q.term, q.distance) = UNION {DocIds(P[t]) : t \in Found}
    BY DEF FuzzyDocIds, P
  <2> HIDE DEF Found
  <2>8. FuzzyDocIds(index, q.term, q.distance) = UNION {Holding(index, t) : t \in Found}
    BY <2>3, <2>6, <2>7
  <2>9. QED
    BY <2>3, <2>5, <2>6, <2>8 DEF Holding
<1>2. QED
  BY <1>1, IndexInvariance, PTL

----------------------------------------------------------------------------
(* Scores.                                                                   *)

(* More occurrences at no higher weight, or as many at a lower weight, make  *)
(* the greater fraction.                                                     *)
LEMMA FractionsAre ==
  ASSUME NEW u \in Nat, u > 0, NEW k \in Nat, k > 0, NEW total \in Nat, total > 0,
         NEW tp \in Nat, tp > 0, NEW tq \in Nat, tq > 0,
         NEW wp \in Nat, wp > 0, NEW wq \in Nat, wq > 0,
         tp >= tq, wp <= wq, tp # tq \/ wp # wq
  PROVE  u * total * tp * (u + k) * (u * u * total * tq + k * wq)
         > u * total * tq * (u + k) * (u * u * total * tp + k * wp)
<1> DEFINE c == u * total * (u + k)
           d == u * u * total
<1>1. c \in Nat /\ c > 0 /\ d \in Nat
  <2>1. u * total \in Nat /\ u * total > 0 /\ u + k \in Nat /\ u + k > 0 /\ u * u \in Nat
    OBVIOUS
  <2>2. QED
    BY <2>1
<1>2. /\ u * total * tp * (u + k) = c * tp /\ u * total * tq * (u + k) = c * tq
  OBVIOUS
<1>3. c * k \in Nat /\ c * k > 0
  <2> HIDE DEF c
  <2>1. QED
    BY <1>1
<1>4. tp * wq \in Nat /\ tq * wp \in Nat /\ tp * wq > tq * wp
  <2>1. /\ tp * wq \in Nat /\ tq * wp \in Nat /\ tp * wp \in Nat
        /\ tp * wq >= tp * wp /\ tp * wp >= tq * wp
    OBVIOUS
  <2>2. (tp > tq => tp * wp > tq * wp) /\ (wq > wp => tp * wq > tp * wp)
    OBVIOUS
  <2>3. tp > tq \/ wq > wp
    OBVIOUS
  <2>4. QED
    BY <2>1, <2>2, <2>3
<1> DEFINE x == tp * wq
           y == tq * wp
           ck == c * k
           s == (c * d) * (tp * tq)
<1>5. /\ (c * tp) * (d * tq + k * wq) = s + ck * x
      /\ (c * tq) * (d * tp + k * wp) = s + ck * y
  <2> HIDE DEF c, d
  <2>1. QED
    BY <1>1
<1>6. s \in Nat
  <2> HIDE DEF c, d
  <2>1. c * d \in Nat /\ tp * tq \in Nat
    BY <1>1
  <2>2. QED
    BY <2>1
<1>7. s + ck * x > s + ck * y
  <2> HIDE DEF s, ck, x, y
  <2>1. ck \in Nat /\ ck > 0 /\ x \in Nat /\ y \in Nat /\ x > y /\ s \in Nat
    BY <1>3, <1>4, <1>6 DEF ck, x, y
  <2>2. ck * x \in Nat /\ ck * y \in Nat /\ ck * x > ck * y
    BY <2>1
  <2>3. QED
    BY <2>1, <2>2
<1> HIDE DEF c, d, s, ck, x, y
<1>8. u * u * total = d
  BY DEF d
<1>9. QED
  BY <1>2, <1>5, <1>7, <1>8

(* A posting and the numbers its score is made of.                           *)
LEMMA PostingHas ==
  ASSUME NEW ix, IndexOK(ix), NEW t \in DOMAIN ix.postings, NEW p \in ToSet(ix.postings[t])
  PROVE  /\ p.doc_id \in Holding(ix, t) /\ p.doc_id \in DOMAIN ix.documents
         /\ p.term_frequency = Cardinality(PositionsOf(ix.documents[p.doc_id], t))
         /\ p.term_frequency \in Nat /\ p.term_frequency > 0
         /\ ix.doc_lengths[p.doc_id] = Len(ix.documents[p.doc_id])
         /\ Len(ix.documents[p.doc_id]) \in Nat /\ Len(ix.documents[p.doc_id]) > 0
         /\ ix.total_docs \in Nat /\ ix.total_docs > 0
         /\ ix.total_doc_length \in Nat /\ ix.total_doc_length > 0
<1> DEFINE M == ix.documents
<1>1. PICK id \in Holding(ix, t) : p = Posting(id, M[id], t)
  <2>1. PostingsMatch(ix)
    BY IndexImplies
  <2>2. ToSet(ix.postings[t]) = {Posting(id, M[id], t) : id \in Holding(ix, t)}
    BY <2>1 DEF PostingsMatch
  <2>3. QED
    BY <2>2
<1>2. /\ p.doc_id = id /\ p.term_frequency = Cardinality(PositionsOf(M[id], t))
      /\ id \in DOMAIN M /\ t \in ToSet(M[id])
  BY <1>1 DEF Posting, Holding
<1>3. /\ DocumentsOK(M) /\ ix.doc_lengths = Lengths(M) /\ ix.total_docs = Cardinality(DOMAIN M)
      /\ ix.total_doc_length = SumFunction(Lengths(M)) /\ M[id] \in Docs
  BY <1>2, IndexHas DEF DocumentsOK
<1> HIDE DEF M
<1> DEFINE doc == M[id]
<1>4. Len(doc) \in Nat /\ \E j \in 1..Len(doc) : doc[j] = t
  <2>1. doc \in Seq(Terms)
    BY <1>3, DocsAssumption
  <2>2. QED
    BY <1>2, <2>1, LenProperties DEF ToSet
<1> HIDE DEF doc
<1>5. Cardinality(PositionsOf(doc, t)) \in Nat /\ Cardinality(PositionsOf(doc, t)) > 0
  <2> DEFINE s == PositionsOf(doc, t)
  <2>1. s \subseteq 0..Len(doc) - 1 /\ s # {}
    <3>1. PICK j \in 1..Len(doc) : doc[j] = t
      BY <1>4
    <3>2. j - 1 \in 0..Len(doc) - 1 /\ (j - 1) + 1 = j
      BY <1>4
    <3>3. QED
      BY <3>1, <3>2 DEF PositionsOf
  <2> HIDE DEF s
  <2>2. IsFiniteSet(s)
    <3>1. 0 \in Int /\ Len(doc) - 1 \in Int
      BY <1>4
    <3>2. IsFiniteSet(0..Len(doc) - 1)
      BY <3>1, FS_Interval
    <3>3. QED
      BY <2>1, <3>2, FS_Subset
  <2>3. Cardinality(s) \in Nat /\ Cardinality(s) # 0
    BY <2>1, <2>2, FS_CardinalityType, FS_EmptySet
  <2> DEFINE n == Cardinality(s)
  <2> HIDE DEF n
  <2>4. n \in Nat /\ n # 0
    BY <2>3 DEF n
  <2>5. n > 0
    BY <2>4
  <2>6. QED
    BY <2>4, <2>5 DEF n, s
<1>6. Len(doc) > 0
  BY <1>4
<1>7. Cardinality(DOMAIN M) \in Nat /\ Cardinality(DOMAIN M) > 0
  <2> DEFINE n == Cardinality(DOMAIN M)
  <2>1. n \in Nat /\ n # 0
    BY <1>2, <1>3, LengthsAre, FS_EmptySet DEF M
  <2> HIDE DEF n
  <2>2. n > 0
    BY <2>1
  <2>3. QED
    BY <2>1, <2>2 DEF n
<1>8. SumFunction(Lengths(M)) \in Nat /\ SumFunction(Lengths(M)) > 0
  <2> DEFINE N == Restrict(M, DOMAIN M \ {id})
             total == SumFunction(Lengths(M))
             rest == SumFunction(Lengths(N))
  <2>1. id \in DOMAIN M
    BY <1>2 DEF M
  <2>2. DocumentsOK(N) /\ rest = total - Len(doc)
    BY <1>3, <2>1, LengthsWithout DEF doc
  <2> HIDE DEF N
  <2>3. total \in Nat /\ rest \in Nat
    BY <1>3, <2>2, LengthsAre
  <2> HIDE DEF total, rest
  <2>4. total > 0
    BY <1>4, <1>6, <2>2, <2>3
  <2>5. QED
    BY <2>3, <2>4 DEF total
<1>9. ix.doc_lengths[id] = Len(doc)
  BY <1>2, <1>3 DEF Lengths, doc, M
<1>10. QED
  BY <1>2, <1>3, <1>4, <1>5, <1>6, <1>7, <1>8, <1>9 DEF doc, M

(* The weight a document's length gives it, as the denominator adds it.      *)
LEMMA WeightIs ==
  ASSUME NEW total \in Nat, total > 0, NEW docs \in Nat, docs > 0,
         NEW m \in Nat, m > 0, NEW n \in Nat, m <= n, B > 0
  PROVE  /\ (Unit - B) * total + B * m * docs \in Nat
         /\ (Unit - B) * total + B * m * docs > 0
         /\ (Unit - B) * total + B * m * docs <= (Unit - B) * total + B * n * docs
         /\ m # n => (Unit - B) * total + B * m * docs # (Unit - B) * total + B * n * docs
<1>1. Unit - B \in Nat /\ B \in Nat
  BY ScoringAssumption
<1>2. (Unit - B) * total \in Nat
  BY <1>1
<1>3. B * m \in Nat /\ B * m > 0 /\ B * n \in Nat /\ B * m <= B * n /\ (m # n => B * m < B * n)
  BY <1>1
<1> DEFINE x == (Unit - B) * total
           y == B * m
           z == B * n
<1> HIDE DEF x, y, z
<1>4. /\ x \in Nat /\ y \in Nat /\ y > 0 /\ z \in Nat /\ y <= z /\ (m # n => y < z)
  BY <1>2, <1>3 DEF x, y, z
<1>5. /\ y * docs \in Nat /\ y * docs > 0 /\ z * docs \in Nat /\ y * docs <= z * docs
      /\ m # n => y * docs < z * docs
  BY <1>4
<1>6. x + y * docs \in Nat /\ x + y * docs > 0 /\ x + y * docs <= x + z * docs
      /\ (m # n => x + y * docs # x + z * docs)
  BY <1>4, <1>5
<1>7. QED
  BY <1>6 DEF x, y, z

(* With the parameters BM25Scorer::new sets, and any others that are not     *)
(* zero: a document with more occurrences and no more words, or as many and  *)
(* fewer words, scores higher, unless every document has the term; and no    *)
(* score is undefined: RanksByOccurrence (scorer.rs:45-72).                  *)
THEOREM RanksFairly == ASSUME K1 > 0, B > 0 PROVE Spec => []RanksByOccurrence
<1>1. ASSUME IndexInv PROVE RanksByOccurrence
  <2> SUFFICES ASSUME NEW t \in DOMAIN index.postings
               PROVE  /\ Len(index.postings[t]) \in 1..index.total_docs
                      /\ \A p, q \in ToSet(index.postings[t]) :
                           LET doc(r) == index.documents[r.doc_id]
                               occurrences(r) == Cardinality(PositionsOf(doc(r), t))
                           IN /\ Denominator(index, p) > 0
                              /\ /\ occurrences(p) >= occurrences(q)
                                 /\ Len(doc(p)) <= Len(doc(q))
                                 /\ \/ occurrences(p) # occurrences(q)
                                    \/ Len(doc(p)) # Len(doc(q))
                                 /\ Holding(index, t) # DOMAIN index.documents
                                 => ScoresHigher(index, t, p, q)
    BY DEF RanksByOccurrence
  <2> DEFINE M == index.documents
             list == index.postings[t]
             docs == index.total_docs
             total == index.total_doc_length
             tf(r) == Cardinality(PositionsOf(M[r.doc_id], t))
             words(r) == Len(M[r.doc_id])
             weight(r) == (Unit - B) * total + B * words(r) * docs
  <2>1. IndexOK(index)
    BY <1>1 DEF IndexInv
  <2>2. /\ IsFiniteSet(DOMAIN M) /\ docs = Cardinality(DOMAIN M) /\ docs \in Nat
        /\ Len(list) = Cardinality(Holding(index, t)) /\ Holding(index, t) \subseteq DOMAIN M
    <3>1. docs = Cardinality(DOMAIN M) /\ IsFiniteSet(DOMAIN M)
      BY <2>1, IndexHas DEF DocumentsOK
    <3>2. PostingsMatch(index) /\ docs \in Nat
      BY <2>1, IndexImplies
    <3>3. Len(list) = Cardinality(Holding(index, t))
      BY <3>2 DEF PostingsMatch
    <3>4. QED
      BY <3>1, <3>2, <3>3 DEF Holding
  <2>3. /\ Len(list) \in Nat /\ Len(list) <= docs
        /\ Holding(index, t) # DOMAIN M => Len(list) < docs
    BY <2>2, FS_Subset, FS_CardinalityType
  <2>4. Len(list) \in 1..docs
    <3>1. Matches(index.postings, M)
      BY <2>1, IndexHas
    <3>2. list # <<>> /\ list \in Seq(AllPostings)
      BY <3>1 DEF Matches
    <3>3. Len(list) # 0
      BY <3>2, EmptySeq
    <3>4. QED
      BY <2>2, <2>3, <3>3
  <2>5. ASSUME NEW r \in ToSet(list)
        PROVE  /\ r.term_frequency = tf(r) /\ tf(r) \in Nat /\ tf(r) > 0
               /\ index.doc_lengths[r.doc_id] = words(r) /\ words(r) \in Nat /\ words(r) > 0
               /\ docs > 0 /\ total \in Nat /\ total > 0
    BY <2>1, PostingHas
  <2>6. Unit \in Nat /\ Unit > 0 /\ K1 \in Nat /\ B \in Nat
    BY ScoringAssumption
  <2>7. ASSUME NEW r \in ToSet(list)
        PROVE  /\ Numerator(index, r) = Unit * total * tf(r) * (Unit + K1)
               /\ Denominator(index, r) = Unit * Unit * total * tf(r) + K1 * weight(r)
    BY <2>5 DEF Numerator, Denominator
  <2> HIDE DEF M, list, docs, total, tf, words
  <2>8. ASSUME NEW r \in ToSet(list), NEW s \in ToSet(list), words(r) <= words(s)
        PROVE  /\ weight(r) \in Nat /\ weight(r) > 0 /\ weight(r) <= weight(s)
               /\ words(r) # words(s) => weight(r) # weight(s)
    BY <2>2, <2>5, <2>8, WeightIs
  <2> HIDE DEF weight
  <2>9. ASSUME NEW r \in ToSet(list)
        PROVE  weight(r) \in Nat /\ weight(r) > 0 /\ Denominator(index, r) > 0
    <3>1. weight(r) \in Nat /\ weight(r) > 0
      BY <2>5, <2>8
    <3>2. Unit * Unit * total * tf(r) \in Nat /\ K1 * weight(r) \in Nat /\ K1 * weight(r) > 0
      <4>1. Unit * Unit \in Nat
        BY <2>6
      <4>2. Unit * Unit * total \in Nat
        BY <2>5, <4>1
      <4>3. QED
        BY <2>5, <2>6, <3>1, <4>2
    <3>3. QED
      BY <2>7, <3>1, <3>2
  <2>10. ASSUME NEW p \in ToSet(list), NEW q \in ToSet(list), tf(p) >= tf(q),
                words(p) <= words(q), tf(p) # tf(q) \/ words(p) # words(q),
                Holding(index, t) # DOMAIN M
         PROVE  ScoresHigher(index, t, p, q)
    <3>1. IdfPositive(index, t)
      BY <2>3, <2>10 DEF IdfPositive, list, docs
    <3>2. weight(p) <= weight(q) /\ (tf(p) # tf(q) \/ weight(p) # weight(q))
      BY <2>8, <2>10
    <3>3. Numerator(index, p) * Denominator(index, q) > Numerator(index, q) * Denominator(index, p)
      <4> DEFINE tp == tf(p)
                 tq == tf(q)
                 wp == weight(p)
                 wq == weight(q)
      <4>1. /\ tp \in Nat /\ tp > 0 /\ tq \in Nat /\ tq > 0 /\ total \in Nat /\ total > 0
            /\ wp \in Nat /\ wp > 0 /\ wq \in Nat /\ wq > 0
            /\ tp >= tq /\ wp <= wq /\ (tp # tq \/ wp # wq)
        BY <2>5, <2>9, <2>10, <3>2
      <4>2. /\ Numerator(index, p) = Unit * total * tp * (Unit + K1)
            /\ Numerator(index, q) = Unit * total * tq * (Unit + K1)
            /\ Denominator(index, p) = Unit * Unit * total * tp + K1 * wp
            /\ Denominator(index, q) = Unit * Unit * total * tq + K1 * wq
        BY <2>7
      <4> HIDE DEF tp, tq, wp, wq
      <4>3. Unit * total * tp * (Unit + K1) * (Unit * Unit * total * tq + K1 * wq)
            > Unit * total * tq * (Unit + K1) * (Unit * Unit * total * tp + K1 * wp)
        BY <2>6, <4>1, FractionsAre, Zenon
      <4>4. QED
        BY <4>2, <4>3
    <3>4. QED
      BY <3>1, <3>3 DEF ScoresHigher
  <2>11. QED
    BY <2>4, <2>9, <2>10 DEF list, docs, tf, words, M
<1>2. QED
  BY <1>1, IndexInvariance, PTL
=============================================================================
