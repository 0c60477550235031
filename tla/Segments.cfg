CONSTANTS
  Alphanumeric <- Letters
  LowerCase <- Lowers
  Base = 8
  Short = 1
  Word = 2
  Long = 3
  Documents <- Some
  Analyzed <- AnalyzedSome
  MaxDocuments = 3
SPECIFICATION Spec
INVARIANTS SegmentInv TornIsRefused WholeIsReadBack
