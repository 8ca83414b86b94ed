SPECIFICATION FairSpec
CONSTANTS
  Arguments <- MCArguments
  Directories <- MCDirectories
  Writable <- MCWritable
  Hidden <- MCHidden
  Unreadable <- MCUnreadable
  FlagBits <- MCFlagBits
  Commaless <- MCCommaless
  Builds = {TRUE, FALSE}
  OpenLimits = {1, 5}
  CharSigns = {TRUE, FALSE}
  Sources <- MCSources
  DumpText <- MCDumpText
  KeywordOf <- MCKeywordOf
INVARIANTS
  LexAsContents
  OrdinarySourcesSurvive
PROPERTIES
  ImplementsDriver
  OrdinarySourcesCompile
  EachStepNearsTheEnd
\* a run of the compiler ends
CHECK_DEADLOCK FALSE
