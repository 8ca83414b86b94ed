SPECIFICATION Spec
CONSTANTS
  Arguments <- FewArguments
  Names <- MCNames
  Contents <- MCContents
  DumpContent <- MCDumpContent
  Directories <- MCDirectories
  Writable <- MCWritable
  Hidden <- MCHidden
  Unreadable <- MCUnreadable
  FlagBits <- MCFlagBits
  Commaless <- MCCommaless
  Builds = {TRUE, FALSE}
  OpenLimits = {5}
INVARIANT NamesAreOwn
\* a run of the compiler ends
CHECK_DEADLOCK FALSE
