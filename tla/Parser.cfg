CONSTANTS
  Alphanumeric <- Letters
  Whitespace <- Blanks
  LowerCase <- Lowers
  Value <- Ones
  Pieces <- Keys
  MaxPieces = 5
SPECIFICATION Spec
INVARIANTS CaseIsFolded OrIsAWord TextFindsItself QuotedTextFindsItself
