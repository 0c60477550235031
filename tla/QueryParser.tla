----------------------------- MODULE QueryParser ------------------------------
(***************************************************************************)
(* From the text of a query to what is looked for (src/engine.rs:336-405).  *)
(* A query is typed piece by piece.                                         *)
(* A definition named x_y, before the definition x, is x with a seeded bug. *)
(***************************************************************************)
EXTENDS Analyzer, EditDistance

CONSTANTS Whitespace,     \* the blank characters
          Value,          \* function: the values of the decimal digits
          Pieces,         \* what can be typed at once: sequences of characters
          MaxPieces       \* bound of the explored instance

ASSUME CharsAssumption ==
  /\ DOMAIN Value \subseteq Alphanumeric
  /\ {"O", "R"} \subseteq DOMAIN LowerCase
  /\ ({"\"", "*", "~", "+"} \cup Whitespace) \cap Alphanumeric = {}
  /\ {"\"", "*", "~", "+"} \cap Whitespace = {}
ASSUME PiecesAssumption == MaxPieces \in Nat

VARIABLES query,   \* the text that was typed
          typed    \* of how many pieces

vars == <<query, typed>>

----------------------------------------------------------------------------
(* The parser. *)

Phrase(terms) == [mode |-> "phrase", terms |-> terms]
Prefix(prefix) == [mode |-> "prefix", prefix |-> prefix]
Fuzzy(term, distance) == [mode |-> "fuzzy", term |-> term, distance |-> distance]
Standard(terms, is_or) == [mode |-> "standard", terms |-> terms, is_or |-> is_or]

IsWhitespace(c) == c \in Whitespace
HasWhitespace(text) == \E i \in DOMAIN text : IsWhitespace(text[i])
Trim(text) ==
  LET inner == {i \in DOMAIN text : ~IsWhitespace(text[i])}
  IN IF inner = {} THEN <<>> ELSE SubSeq(text, Min(inner), Max(inner))
SplitWhitespace(text) == NonEmpty(Split(text, IsWhitespace))

\* The parts between any "O", "R" that follow each other.
SplitAtOR(text) ==
  FoldLeft(LAMBDA parts, c :
             IF c = "R" /\ Last(parts) # <<>> /\ Last(Last(parts)) = "O"
               THEN Append([parts EXCEPT ![Len(parts)] = Front(@)], <<>>)
               ELSE [parts EXCEPT ![Len(parts)] = Append(@, c)],
           << <<>> >>, text)

ContainsOR(text) == Len(SplitAtOR(text)) > 1
HasOr_inWords(text) == ContainsOR(text)
HasOr(text) == <<"O", "R">> \in ToSet(SplitWhitespace(text))

ParseStandard(trimmed) ==
  LET segments == SplitAtOR(trimmed)
  IN IF HasOr(trimmed)
       THEN Standard(FlattenSeq([i \in DOMAIN segments |-> Analyze(Trim(segments[i]))]),
                     TRUE)
       ELSE Standard(Analyze(trimmed), FALSE)

\* A number as usize parses it: digits, perhaps after a plus sign (too many
\* digits are an error there; the instances type fewer).
Digits(text) == IF text # <<>> /\ Head(text) = "+" THEN Tail(text) ELSE text
IsNumber(text) == Digits(text) # <<>> /\ ToSet(Digits(text)) \subseteq DOMAIN Value
Number(text) == FoldLeft(LAMBDA n, d : 10 * n + Value[d], 0, Digits(text))

Quoted(text) == Len(text) >= 2 /\ Head(text) = "\"" /\ Last(text) = "\""
ParsePhrase(text) == Phrase(Analyze(SubSeq(text, 2, Len(text) - 1)))

Starred(text) == Last(text) = "*" /\ ~HasWhitespace(text) /\ Len(text) > 1
ParsePrefix_caseKept(text) == Prefix(Front(text))
ParsePrefix(text) == Prefix(ToLowercase(Front(text)))

Tilde(text) == Max({i \in DOMAIN text : text[i] = "~"})
BeforeTilde(text) == SubSeq(text, 1, Tilde(text) - 1)
AfterTilde(text) == SubSeq(text, Tilde(text) + 1, Len(text))
IsFuzzy_anywhere(text) == "~" \in ToSet(text) /\ BeforeTilde(text) # <<>>
IsFuzzy(text) ==
  "~" \in ToSet(text) /\ BeforeTilde(text) # <<>>
  /\ ~HasWhitespace(BeforeTilde(text)) /\ ~HasWhitespace(AfterTilde(text))
ParseFuzzy(text) ==
  LET term == ToLowercase(BeforeTilde(text))
      after == AfterTilde(text)
  IN IF after = <<>> THEN Fuzzy(term, DEFAULT_MAX_DISTANCE)
     ELSE IF IsNumber(after) THEN Fuzzy(term, Number(after))
     ELSE ParseStandard(text)

ParseQuery(text) ==
  LET trimmed == Trim(text)
  IN IF trimmed = <<>> THEN Standard(<<>>, FALSE)
     ELSE IF Quoted(trimmed) THEN ParsePhrase(trimmed)
     ELSE IF Starred(trimmed) THEN ParsePrefix(trimmed)
     ELSE IF IsFuzzy(trimmed) THEN ParseFuzzy(trimmed)
     ELSE ParseStandard(trimmed)

\* Is a document with these tokens an answer?  (Queries derives it from postings.)
Answers(tokens, q) ==
  LET terms == {tokens[i].term : i \in DOMAIN tokens}
      at(t, pos) == \E i \in DOMAIN tokens : tokens[i] = [term |-> t, pos |-> pos]
  IN CASE q.mode = "phrase" ->
            q.terms # <<>> /\ \E i \in DOMAIN tokens : \A k \in DOMAIN q.terms :
                                at(q.terms[k], tokens[i].pos + k - 1)
       [] q.mode = "prefix" -> \E t \in terms : IsPrefix(q.prefix, t)
       [] q.mode = "fuzzy" -> FindFuzzyMatches(q.term, terms, q.distance) # {}
       [] q.mode = "standard" /\ q.is_or -> ToSet(q.terms) \cap terms # {}
       [] q.mode = "standard" /\ ~q.is_or -> q.terms # <<>> /\ ToSet(q.terms) \subseteq terms

----------------------------------------------------------------------------
Init == query = <<>> /\ typed = 0

Type(piece) == /\ typed < MaxPieces
               /\ query' = query \o piece
               /\ typed' = typed + 1

\* The text is searched for, and another is begun.
Search == query' = <<>> /\ typed' = 0

Next == Search \/ \E piece \in Pieces : Type(piece)

Spec == Init /\ [][Next]_vars

----------------------------------------------------------------------------
Parsed == ParseQuery(query)
Words == SplitWhitespace(query)
AnyOr == <<"O", "R">> \in ToSet(Words)
\* A word other than OR in which these letters follow each other.
OrInsideWord == \E w \in ToSet(Words) : w # <<"O", "R">> /\ ContainsOR(w)
OtherWords == SelectSeq(Words, LAMBDA w : w # <<"O", "R">>)
TokensOf(words) == FlattenSeq([i \in DOMAIN words |-> Analyze(words[i])])

(* Upper and lower case ask the same of every mode, but for the word OR:    *)
(* documents are indexed in lower case (engine.rs:350, 356, 379, 397).      *)
CaseIsFolded == ~AnyOr => ParseQuery(ToLowercase(query)) = Parsed

(* A standard query is an OR query if and only if OR is one of its words,   *)
(* and asks for the tokens of its other words, none lost and none cut in    *)
(* two; unless a word of an OR query has these letters inside, where the    *)
(* code splits it as well (engine.rs:388-405).                              *)
OrIsAWord ==
  Parsed.mode = "standard" =>
    /\ Parsed.is_or <=> AnyOr
    /\ Parsed.is_or /\ ~OrInsideWord => Parsed.terms = TokensOf(OtherWords)
    /\ ~Parsed.is_or => Parsed.terms = TokensOf(Words)

(* A document's title, used as a query, finds the document: what looks like *)
(* an operator inside a title does no harm (engine.rs:340-405).  Not so a   *)
(* single word ending in * or ~ with other punctuation in it, which no      *)
(* token begins with, and OR queries that are left without a whole word.    *)
Stem == IF Parsed.mode = "prefix" THEN Parsed.prefix ELSE Parsed.term
TextFindsItself ==
  /\ Tokens(query, <<>>) # <<>>
  /\ Parsed.mode \in {"prefix", "fuzzy"} /\ Len(Words) = 1 =>
       ToSet(Stem) \subseteq Alphanumeric
  /\ AnyOr => ~OrInsideWord /\ TokensOf(OtherWords) # <<>>
  => Answers(Tokens(query, <<>>), Parsed)

(* Quoted, it finds the document wherever it is divided between words into  *)
(* a title and a body: punctuation takes no position, and the body's        *)
(* positions go on from the title's (index.rs:110-115, analyzer.rs:43-49).  *)
Divides(k) ==
  \/ k \in {0, Len(query)} \/ query[k] \notin Alphanumeric
  \/ query[k + 1] \notin Alphanumeric
QuotedTextFindsItself ==
  \A k \in {k \in 0..Len(query) : Divides(k)} :
    Tokens(query, <<>>) # <<>> =>
      Answers(Tokens(SubSeq(query, 1, k), SubSeq(query, k + 1, Len(query))),
              ParseQuery(<<"\"">> \o query \o <<"\"">>))
=============================================================================
