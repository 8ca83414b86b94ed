SPECIFICATION FairSpec
CONSTANTS
  Texts <- MCTexts
  Keywords <- MCKeywords
  Builds = {TRUE, FALSE}
  CharSigns = {TRUE, FALSE}
INVARIANTS
  TypeOK
  LexemesMatchTokens
  NothingLost
  IdentifiersSpelledAsWritten
  LocationsExact
  LexesTheText
  OnlyOpenTextsHang
PROPERTIES
  LexingEnds
  EachStepReadsOn
\* lex() returns, aborts or never gets past a loop
CHECK_DEADLOCK FALSE
