SPECIFICATION FairSpec
CONSTANTS
  TokenStreams <- MCStreams
  Slacks <- MCSlacks
  Builds = {TRUE, FALSE}
INVARIANTS
  TypeOK
  BacktrackingRestoresCursor
  NoReadPastEnd
  CursorInBounds
  OneNameLookedUp
  RejectedAtFirstToken
  MergedCategory
  DeathsExplained
PROPERTIES
  ImplementsOutcome
  HangsOnlyInAttributeList
  EachStepGetsOn
\* a finished, aborted or crashed parse has no next step
CHECK_DEADLOCK FALSE
