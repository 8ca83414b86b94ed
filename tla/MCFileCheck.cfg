SPECIFICATION FairSpec
CONSTANTS
  Runs <- MCRuns
  Inline <- MCInline
INVARIANTS
  TypeOK
  EarliestPlaces
  DirectivesExact
  NextNeedsCheck
PROPERTY ToolEnds
\* a run of the tool ends
CHECK_DEADLOCK FALSE
