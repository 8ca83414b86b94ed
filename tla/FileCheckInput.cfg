SPECIFICATION Spec
CONSTANTS
  Runs <- FewRuns
  Inline <- MCInline
INVARIANT ChecksSearchTheInput
\* a run of the tool ends
CHECK_DEADLOCK FALSE
