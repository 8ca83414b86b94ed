SPECIFICATION FairSpec
CONSTANTS
  TokenStreams <- FewStreams
  Slacks <- FewSlacks
  Builds = {TRUE, FALSE}
PROPERTY CommaSeparatesAttributes
\* a finished, aborted or crashed parse has no next step
CHECK_DEADLOCK FALSE
