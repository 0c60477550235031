CONSTANTS
  x = x
  y = y
  z = z
  Ids = {x, y, z}
  Terms <- AllTerms
  Docs <- AllDocs
  MaxChar = 5
  Gap <- NoChars
  Asked <- AllQueries
  Begun <- AllPrefixes
  Misspelt <- AllMisspelt
  Unit = 20
  K1 = 24
  B = 15
SPECIFICATION Spec
SYMMETRY IdSymmetry
INVARIANTS TypeOK PostingsMatchDocuments MetadataMatchDocuments AndFindsAll OrFindsAny PhraseFindsAdjacent PrefixFindsExtensions FuzzyFindsNear RanksByOccurrence
