SPECIFICATION Spec
CONSTANTS
  TokenStreams <- FewStreams
  Slacks <- FewSlacks
  Builds = {TRUE, FALSE}
INVARIANT NamesMatchTokens
\* a finished, aborted or crashed parse has no next step
CHECK_DEADLOCK FALSE
