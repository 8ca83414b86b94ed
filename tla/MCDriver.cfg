SPECIFICATION Spec
CONSTANTS
  Arguments <- MCArguments
  Names <- MCNames
  Contents <- MCContents
  DumpContent <- MCDumpContent
  Directories <- MCDirectories
  Writable <- MCWritable
  Hidden <- MCHidden
  Unreadable <- MCUnreadable
  FlagBits <- MCFlagBits
  Commaless <- MCCommaless
  Builds = {TRUE, FALSE}
  OpenLimits = {1, 2, 5}
INVARIANTS
  TypeOK
  BitsAskedFor
  FilesProcessed
  ExitStatusExact
  OutputFileHoldsLastFile
  NamesComeFromFirstFile
  NoUndefinedRead
  SourcesAsGiven
  AbortsExplained
\* a run of the compiler ends
CHECK_DEADLOCK FALSE
