------------------------------- MODULE Analyzer -------------------------------
(***************************************************************************)
(* The analyzer that documents and queries go through (src/analyzer.rs).    *)
(* A text is a sequence of characters, a token a text in lower case.        *)
(* A definition named x_y, before the definition x, is x with a seeded bug. *)
(***************************************************************************)
EXTENDS SequencesExt

CONSTANTS Alphanumeric,   \* the characters of words
          LowerCase       \* function: the lower case of the characters that have one

ASSUME LowerCaseAssumption == DOMAIN LowerCase \subseteq Alphanumeric

Lower(c) == IF c \in DOMAIN LowerCase THEN LowerCase[c] ELSE c
ToLowercase(text) == [i \in DOMAIN text |-> Lower(text[i])]

\* What stands between separators, the empty parts included.
Split(text, Separator(_)) ==
  FoldLeft(LAMBDA parts, c : IF Separator(c) THEN Append(parts, <<>>)
                             ELSE [parts EXCEPT ![Len(parts)] = Append(@, c)],
           << <<>> >>, text)
Fragments(text) == Split(text, LAMBDA c : c \notin Alphanumeric)
NonEmpty(parts) == SelectSeq(parts, LAMBDA s : s # <<>>)

Lowered(parts) == [i \in DOMAIN parts |-> ToLowercase(parts[i])]
Analyze(text) == Lowered(NonEmpty(Fragments(text)))

\* Tokens with their positions, counted from offset.
AnalyzeWithPositions_enumeratesFirst(text, offset) ==
  LET all == Lowered(Fragments(text))
  IN SelectSeq([i \in DOMAIN all |-> [term |-> all[i], pos |-> offset + i - 1]],
               LAMBDA t : t.term # <<>>)
AnalyzeWithPositions(text, offset) ==
  LET tokens == Lowered(NonEmpty(Fragments(text)))
  IN [i \in DOMAIN tokens |-> [term |-> tokens[i], pos |-> offset + i - 1]]

\* The tokens of a document: the body's come after the title's.
Tokens(title, body) ==
  AnalyzeWithPositions(title, 0)
  \o AnalyzeWithPositions(body, Len(AnalyzeWithPositions(title, 0)))
=============================================================================
