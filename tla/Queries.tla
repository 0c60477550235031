------------------------------- MODULE Queries -------------------------------
(***************************************************************************)
(* How a parsed query is answered (src/engine.rs:413-628, src/index.rs:     *)
(* 202-217, src/scorer.rs): from the postings and the metadata of an        *)
(* InvertedIndex, never from the documents.                                 *)
(* A term is a sequence of characters, a character is a number.             *)
(* A definition named x_y, before the definition x, is x with a seeded bug. *)
(***************************************************************************)
EXTENDS InvertedIndex, EditDistance

CONSTANTS MaxChar,    \* char::MAX
          Gap,        \* the code points that are no characters (surrogates)
          Unit, K1, B \* parameters of BM25: k1 is K1 / Unit, b is B / Unit

ASSUME ScoringAssumption == Unit \in Nat \ {0} /\ K1 \in Nat /\ B \in 0..Unit

Chars == (0..MaxChar) \ Gap

ASSUME CharsAssumption == MaxChar \in Nat /\ Terms \subseteq Seq(Chars)

\* The ids in a list of postings.
DocIds(list) == {p.doc_id : p \in ToSet(list)}

\* Documents that hold all of the terms, none if there are no terms.
AndDocIds_skipsMissing(ix, terms) ==
  {id \in DOMAIN ix.documents : ToSet(terms) # {} /\
     \A t \in ToSet(terms) \cap DOMAIN ix.postings : id \in DocIds(ix.postings[t])}
AndDocIds(ix, terms) ==
  IF terms = <<>> THEN {}
  ELSE {id \in DocIds(Get(ix.postings, terms[1])) :
          \A t \in ToSet(terms) : id \in DocIds(Get(ix.postings, t))}

\* Documents that hold one of them.
OrDocIds(ix, terms) == UNION {DocIds(Get(ix.postings, t)) : t \in ToSet(terms)}

\* The positions the first posting of a document gives for a term.
FirstPositions(ix, t, id) ==
  LET k == CHOOSE k \in DOMAIN ix.postings[t] :
             /\ ix.postings[t][k].doc_id = id
             /\ \A j \in 1..k - 1 : ix.postings[t][j].doc_id # id
  IN ix.postings[t][k].positions

\* Each term at one position more than the one before it; a phrase of a
\* single term is an AND query.
PhraseDocIds_anyOrder(ix, terms) == AndDocIds(ix, terms)
PhraseDocIds(ix, terms) ==
  IF Len(terms) <= 1 THEN AndDocIds(ix, terms)
  ELSE {id \in AndDocIds(ix, terms) :
          \E start \in FirstPositions(ix, terms[1], id) :
            \A i \in 2..Len(terms) :
              start + i - 1 \in FirstPositions(ix, terms[i], id)}

\* Terms are sorted; a prefix stands for a range of them.
Less(s, t) ==
  \E k \in 1..Len(t) :
    /\ k <= Len(s) + 1 /\ SubSeq(s, 1, k - 1) = SubSeq(t, 1, k - 1)
    /\ k <= Len(s) => s[k] < t[k]
After(c) == IF c + 1 \in Chars THEN c + 1 ELSE MaxChar
UpperBound(prefix) == Append(Front(prefix), After(Last(prefix)))

GetTermsWithPrefix_inclusive(ix, prefix) ==
  {t \in DOMAIN ix.postings : ~Less(t, prefix) /\ ~Less(UpperBound(prefix), t)}
GetTermsWithPrefix(ix, prefix) ==
  IF prefix = <<>> THEN DOMAIN ix.postings
  ELSE {t \in DOMAIN ix.postings : ~Less(t, prefix) /\ Less(t, UpperBound(prefix))}
PrefixDocIds(ix, prefix) ==
  UNION {DocIds(ix.postings[t]) : t \in GetTermsWithPrefix(ix, prefix)}

FuzzyDocIds(ix, term, distance) ==
  UNION {DocIds(ix.postings[t]) :
           t \in FindFuzzyMatches(term, DOMAIN ix.postings, distance)}

----------------------------------------------------------------------------
(* Scores. *)

\* A document among the candidates is a result when some term scores it.
Scored(ix, ids, terms) == ids \cap OrDocIds(ix, terms)

\* idf is the logarithm of total_docs / doc_freq: zero for a term of every document.
IdfPositive(ix, t) == Len(ix.postings[t]) < ix.total_docs

\* The other factor of a term's score, a fraction; the average document length
\* is total_doc_length / total_docs.
Numerator(ix, p) == Unit * ix.total_doc_length * p.term_frequency * (Unit + K1)
Denominator_noLength(ix, p) ==
  Unit * ix.total_doc_length * (Unit * p.term_frequency + K1)
Denominator(ix, p) ==
  Unit * Unit * ix.total_doc_length * p.term_frequency
  + K1 * ((Unit - B) * ix.total_doc_length
          + B * ix.doc_lengths[p.doc_id] * ix.total_docs)
ScoresHigher(ix, t, p, q) ==
  /\ IdfPositive(ix, t)
  /\ Numerator(ix, p) * Denominator(ix, q) > Numerator(ix, q) * Denominator(ix, p)

----------------------------------------------------------------------------
CONSTANT Asked      \* the queries that are tried: sequences of terms
CONSTANT Begun      \* and the prefixes
CONSTANT Misspelt   \* and the fuzzy queries: terms with a distance

ASSUME AskedAssumption == Asked \subseteq Seq(Seq(Chars)) /\ Begun \subseteq Seq(Chars)
ASSUME MisspeltAssumption ==
  \A q \in Misspelt : q.term \in Seq(Chars) /\ q.distance \in Nat

Matching(test(_)) == {id \in DOMAIN index.documents : test(index.documents[id])}

(* After any history of additions, deletions, flushes and merges, an AND    *)
(* query finds the documents holding every term, and scores each of them    *)
(* (engine.rs:516-551, 569-603).                                            *)
AndFindsAll ==
  \A q \in Asked : q # <<>> =>
    Scored(index, AndDocIds(index, q), q) =
      Matching(LAMBDA doc : ToSet(q) \subseteq ToSet(doc))

(* An OR query finds the documents holding some term (engine.rs:554-566).   *)
OrFindsAny ==
  \A q \in Asked :
    Scored(index, OrDocIds(index, q), q) =
      Matching(LAMBDA doc : ToSet(q) \cap ToSet(doc) # {})

(* A phrase query finds the documents in which the terms stand side by      *)
(* side, in that order (engine.rs:413-488).                                 *)
PhraseFindsAdjacent ==
  \A q \in Asked : q # <<>> =>
    Scored(index, PhraseDocIds(index, q), q) =
      Matching(LAMBDA doc : \E k \in 0..Len(doc) - Len(q) :
                 SubSeq(doc, k + 1, k + Len(q)) = q)

(* A prefix query finds the documents holding a term that begins with it,   *)
(* if the prefix's last character has a next one (index.rs:202-217).        *)
PrefixFindsExtensions ==
  \A p \in Begun : p # <<>> /\ Last(p) + 1 \in Chars =>
    PrefixDocIds(index, p) =
      Matching(LAMBDA doc : \E t \in ToSet(doc) : IsPrefix(p, t))

(* A fuzzy query finds the documents holding a term that so many single     *)
(* insertions, deletions and replacements of characters lead to             *)
(* (engine.rs:503-513, fuzzy.rs:21-63).                                     *)
Edits(t) ==
  {t} \cup {RemoveAt(t, i) : i \in DOMAIN t}
      \cup {InsertAt(t, i, c) : i \in 1..Len(t) + 1, c \in Chars}
      \cup {ReplaceAt(t, i, c) : i \in DOMAIN t, c \in Chars}
Within(t, distance) ==
  LET near[n \in 0..distance] ==
        IF n = 0 THEN {t} ELSE UNION {Edits(u) : u \in near[n - 1]}
  IN near[distance]
Meant == [q \in Misspelt |-> Within(q.term, q.distance) \cap Terms]
FuzzyFindsNear ==
  \A q \in Misspelt :
    FuzzyDocIds(index, q.term, q.distance) =
      Matching(LAMBDA doc : ToSet(doc) \cap Meant[q] # {})

(* A document with more occurrences of a term and no more words, or as many *)
(* and fewer words, scores higher for it, unless every document has it;     *)
(* and no score is undefined, which the sorting of results would take for   *)
(* equal to any other (engine.rs:569-628, scorer.rs:45-72).                 *)
RanksByOccurrence ==
  \A t \in DOMAIN index.postings :
    /\ Len(index.postings[t]) \in 1..index.total_docs
    /\ \A p, q \in ToSet(index.postings[t]) :
         LET doc(r) == index.documents[r.doc_id]
             occurrences(r) == Cardinality(PositionsOf(doc(r), t))
         IN /\ Denominator(index, p) > 0
            /\ /\ occurrences(p) >= occurrences(q) /\ Len(doc(p)) <= Len(doc(q))
               /\ occurrences(p) # occurrences(q) \/ Len(doc(p)) # Len(doc(q))
               /\ Holding(index, t) # DOMAIN index.documents
               => ScoresHigher(index, t, p, q)
=============================================================================
