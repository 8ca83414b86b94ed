SPECIFICATION Spec
CONSTANTS
  Texts <- FewTexts
  Keywords <- MCKeywords
  Builds = {TRUE, FALSE}
  CharSigns = {TRUE, FALSE}
INVARIANT LinesTracked
\* lex() returns, aborts or never gets past a loop
CHECK_DEADLOCK FALSE
