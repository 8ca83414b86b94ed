# A verification project for a_c_compiler

TLA+ models of the compiler's lexer, parser and driver, of their composition and
of the tool that runs its tests; TLC configurations that check them on small
instances; and TLAPS proofs about all of them for every source text, token stream,
command line and match file. Paths below are relative to the repository; `parse.cpp` is
`fe/sources/a_c_compiler/fe/parse/parse.cpp`, `lex.cpp` is
`fe/sources/a_c_compiler/fe/lex/lex.cpp`, `a_c_compiler.cpp` is
`driver/sources/driver/a_c_compiler.cpp`, `main.cpp` is
`test/file_check/source/main.cpp`.

## 1. Inventory

The program is single-threaded. `main` parses the command line, then lexes,
optionally dumps, and parses each source file in turn. What makes it hard is not
concurrency but long sequences of small steps over shared cursors and tables:
backtracking, look-ahead without bounds checks, a character variable that several
pieces of one loop leave behind for each other, and static tables that outlive
the file they were filled from.

| Component | State | Operations | Talks to | What makes it correct |
|---|---|---|---|---|
| **lexer** (`lex.cpp`) | `c`, `lineno`, `column`, the token vector, static `lexed_*` vectors | `lex`: one pass of the switch, the identifier code behind it, `getc` | the driver (tokens), the parser and the dump (`lexed_id` ...) | it ends; no character is lost or lexed twice; lexeme vectors match tokens; locations are right |
| **parser** (`parse.cpp`) | `m_toks_index`, `m_token_history_stack`, `m_last_identifier_string_index`, the declaration being built | one function per production, backtracking by push/pop of the cursor | reads tokens by index, names by `lexed_id`, allocates in the type table, reports diagnostics | it ends; never reads past the tokens; backtracking restores all it must; one diagnostic on the right token |
| **driver** (`a_c_compiler.cpp`, `command_line_options.inl.h`) | `cli_opts`, `global_opts`, `failed_lexer_output` | `parse_args`, the loop over files, `help` | calls lexer, dump and parser | options have their effect; every file is processed, or the exit status says so |
| **feature flags** (`global_options.h`) | 32 words of bits | `set_feature_flag` | set by the driver | the bit asked for is set, no other |
| **token dump** (`lex.cpp:35-101`) | three counters | `dump_tokens_into` | reads the `lexed_*` vectors | prints the lexemes of its own file |
| **type table** (`ast_module.cpp`, `ast_module.h`) | `type_data_table` | `get_new_type`, `data` | grown and written by the parser | an entry is initialised when it is used |
| **diagnostics** (`fe/reporting`, `parser_diagnostic*`) | stream handles | `report` | called by the parser | one report per failure |
| **logger** (`logger.cpp`) | indentation | `scope_logger` | constructed on entry of every parse function, where it reads the current token | that read is in bounds |
| **file_check** (`main.cpp`) | the match file, the CHECK chains, the rest of the file still to search | `main` | run by the tests on the compiler's output | it finds the directives that are written, refuses a CHECK-NEXT without CHECK, a check fails when its text is missing from the compiler's output |

There are no threads, timeouts, retries, messages or persistent state. The hard
behaviours are loops that rely on someone else to move a cursor (liveness),
unsigned arithmetic at the ends of a vector, state that backtracking does not
restore, state that survives from one file to the next, and failures of one step
among several. PROJECT.json lists each at its line under "hazards".

## 2. Modules

| Module | Models | Notes |
|---|---|---|
| `Parser` | one call of `parse()` | one action per parse function or loop iteration |
| `ParseOutcome` | what `parse()` promises its caller | abstract: reports, lookups, one verdict; `Parser` implements it |
| `Lexer` | one call of `lex()` | one action per case of the switch |
| `Lexing` | what `lex()` makes of a text | a recursive function of the text, which `Lexer` computes |
| `Driver` | `main`, `parse_args`, the dump, feature flags, the shared tables and open files | one action per iteration of the argument loop and per phase of a file; `lex()` and `parse()` are summarised |
| `Compile` | the whole compiler | `Driver`'s actions with `Lexer`'s and `Parser`'s in place of its summary of them; implements `Driver` |
| `FileCheck` | the test tool | one action per argument, file, match of the regular expression and check |
| `ParserProofs`, `LexerProofs`, `LexingProofs`, `DriverProofs`, `FileCheckProofs`, `CompileProofs` | – | the theorems about each; `CompileProofs` instantiates those of the parser, the lexer and the driver |
| `MinTheorems` | – | the least element of a set of naturals, which the scans use, and induction from it |
| `MCParser`, `MCLexer`, `MCDriver`, `MCCompile`, `MCFileCheck` | – | inputs for TLC |

### Parser

The C++ call graph is flattened: `pc` names the function about to run. The parse
functions call each other in one fixed nesting, so the return address is a
function of `pc`, but for `parse_declarator` inside `parse_direct_declarator`;
`nest` counts those frames. `idx`, `hist`, `lastId` are `m_toks_index`,
`m_token_history_stack`, `m_last_identifier_string_index`; `attrs`, `types`,
`funcspecs` are what a declaration attempt writes; `diags` is what the reporter
got; `lookups` is a history variable of the calls of `lexed_id`.

`m_toks` is indexed without bounds checks. `lex()` reserves room for 2048 tokens,
so a read past the last token finds uninitialised storage, which may hold
anything: the constant `Slacks` chooses what. Beyond it is `Unmapped`, and a read
there ends in `pc = "fault"`. `Reads` is the set of token numbers a step reads,
including the read of the current token that `ENTER_PARSE_FUNCTION` makes on
entry to every function. `asserts` is the build: with it, a failed
`ZTD_ASSERT_MESSAGE` leads to `aborted`; without it, the step goes on.
(`eat_token` at the end of the stream dies in both builds: `.value()` throws in a
`noexcept` function.) In the code as it stands, `parse_function_body`,
`parse_declaration`, `parse_parameter_type_list` and `parse_array_declarator` are
stubs that fail, so no declaration is ever accepted; the model follows the code
and says so (`RejectedAtFirstToken`).

### Lexer

A step is one pass through the switch, or the identifier code and the `getc()`
at the end of the loop. The inner loops that read to the end of a lexeme are part
of the step (`ReadTo`, `ReadToUnget`); where such a loop cannot end the step goes
to `hung`. `loc` moves as the lambda `getc` moves it, which is not once per
character: `fgetc` counts nothing and a character given back by `ungetc` counts
again. Tokens carry two history fields, `from` and `to`, so that properties can
compare them with the text. Characters are names; one or two stand for a class
where the code tests a class (letters, digits). Keywords are a parameter: a set
of spellings. `signed` says whether `char` is: `fgetc`'s result goes through a
`char`, so that byte `0xFF` is taken for the end of the file where it is signed,
and the end of the file for byte `0xFF` where it is not, in which case `lex()`
never returns.

`Lexing` says the same without a program: `LexRest(t)[p]` is what is lexed of the
text `t` from position `p` on, one case per first character, each a lexeme in front
of the rest behind it. It knows no current character, no `ungetc`, no second half
of an iteration and no two builds; what these do to the tokens (the letter lexed
twice behind a number, `**/` that ends no comment, the end of a file taken for an
identifier) it states outright. `LexesTheText` says that `Lexer` computes it.

### Driver

`Help`, `Flag`, `Option`, `OptionWithoutValue` and `Positional` are the branches
of the argument loop, `CheckFiles` the loop over positional arguments, `Lex`,
`Dump`/`NoDump`, `StopAfterLex`, `Parse`, `StopAfterParse`, `NextFile`, `Return`
the body of the loop in `main`. A source file is the kinds of its tokens and the
names of its identifiers (`Contents`); `Lex` appends the names to `lexedIds`,
which is never cleared, and keeps a descriptor, since `lex()` closes nothing:
`limit` is how many there are. A lexer output file may be one of the source files;
from its first dump on it holds `DumpContent`. `Parse` looks up none, one or two
names from index 0 on: that this covers what a parse does is what `OneName` proves
of `Parser`. `NoReturn` stands for a `lex()` or `parse()` that hangs or aborts
(`Lexer`, `Parser` say when). `pc = "undefined"` is whatever follows undefined
behaviour: a dereferenced end iterator, an index past `lexed_ids`, a null `FILE*`.

Whether a file can be used is asked twice. `CheckFiles` asks `fs::exists` of each in
order: `Missing` paths end the check (and the compiler goes on), `Hidden` ones, whose
status cannot be had, make it throw in the `noexcept` `parse_args` (`DiesOf`).
`Opens` is `fopen`: it fails for a missing file, for one that exists and cannot be
read (`Unreadable`, a hidden one among them), and when no descriptor is left.

`bits` is the set of feature-flag bits, with the sign extension of `1 << 31`.
`FlagBits` maps the arguments in which `std::stoul` finds both numbers to them,
whatever blanks or signs it skips; those without a comma (`Commaless`) it reads twice,
once in each base, and only an assertion refuses them. On any other argument
`std::stoul` throws and the driver aborts in both builds.

### Compile

`Compile` has the variables of `Driver`, `Lexer` and `Parser` and joins their
actions: `OpenFile` starts a `lex()` on the text of a source file, `LexStep` is a
step of `Lexer`, `LexReturns` hands its tokens to the driver and appends its
identifiers to `lexedIds`; `NewParser`, `ParseStep` and `ParseReturns` do the same
for a parse, whose tokens are the lexer's. `Lost` is a call that will not return.
The three modules tell tokens apart to different degrees, so `ParserToken` and
`DumpToken` translate the lexer's. `Spelled` is the spelling a keyword is looked
up by, which is not always what the source says: a number without a suffix gives
the letter behind it back but leaves it in `c`, and the identifier code then
reads it twice. `ImplementsDriver` says that all this is a
behaviour of `Driver`. Its sources are texts; what `Driver` starts from, the kinds
of their tokens and their names, is `Contents`, the function of `Lexing` of each
text, and `LexAsContents` says that the lexer's steps get there.

### FileCheck

The regular expression is a set of operators over positions (`Matches`,
`TextAt`, `TextEnd`, `MatchEnd`), each taking as much as its possessive repetition
does; `FindDirective` takes the first match from `at` on and chains it, `RunCheck`
searches `rest`. The lambda of a check is given the rest of the match file, and
the input file's text is appended to its name (`appended`), so what the compiler
printed is never searched: the run `file_check_input` shows what follows from that.
`EarliestPlaces` says what the search of a chain finds where it does search:
`Placements` are all ways to place the texts done so far one behind the other.

## 3. Runs

| Run | Expect | What it shows |
|---|---|---|
| `parser` | pass | `TypeOK`; saved cursors are balanced and restore the first token (`BacktrackingRestoresCursor`); streams ending in `;` newline are never read past (`NoReadPastEnd`); `unget_token` never underflows, and the attribute cursor stays on a token when assertions are on (`CursorInBounds`); one identifier is looked up at most twice; each non-empty stream is rejected about its first token; `merge_type_categories` yields the category a separate definition gives; of what a parse of a stream ending in `;` newline can die (`DeathsExplained`); the only endless loop is the attribute list on a token that cannot begin an attribute; each step lowers the bound `Left` of the steps to come (`EachStepGetsOn`); a parse implements `ParseOutcome` |
| `parser_names` | violation | `int f();` asks for the name of `f` under two indices |
| `parser_comma` | violation | `[[a, b]]` spins on the comma |
| `lexer` | pass | `TypeOK`; lexeme vectors match tokens and hold what is written; no character is lost; tokens overlap only behind a number or a raw `/` and identifiers are otherwise spelled as written; locations never go back, and what line numbers exactly are (`LocationsExact`); what `lex()` makes of a text is the function `LexOf` of it (`LexesTheText`); where `char` is signed the lexer ends on texts that end in a newline and hold no string or block comment, where it is not it never ends, and no step of it goes wrong on the way (`OnlyOpenTextsHang`); each step lowers what is left to read (`EachStepReadsOn`) |
| `lexer_lines` | violation | a number at the end of a line shifts every later line number |
| `lexer_suffix` | violation | `0.0f` is a number and an identifier `f` |
| `driver` | pass | `TypeOK`; each feature-flag bit that is set has been asked for; which files a successful run has processed; when the exit status is a failure; what the lexer output file holds; that files are lexed as they were at the start, but for the output file; whose names a parse gets; when a vector is read past its end; what the driver aborts of |
| `driver_names` | violation | the second file gets names of the first |
| `driver_flag` | violation | `-fset-feature-flag 3,0x1f` sets no bit |
| `compile` | pass | `LexAsContents`: what `lex()` makes of a file is what `LexOf` says of the text it held, a dump read back included; `ImplementsDriver`: with real lexing and parsing the compiler does what `Driver` says; on ordinary sources nothing goes wrong (`OrdinarySourcesSurvive`) and it gets through all files (`OrdinarySourcesCompile`); each step over arguments, files, characters and tokens lowers what is left (`EachStepNearsTheEnd`) |
| `file_check_input` | violation | a test succeeds whose input lacks the text of its check |
| `file_check` | pass | `TypeOK`; the checks of a chain find their texts one behind the other, as early as any choice of places allows (`EarliestPlaces`); the directives found are the ones written, in order, in their chains; a match file is refused exactly when its first directive is a CHECK-NEXT; the tool ends |

The seven violations are disagreements between the code and its own comments, help
and messages, quoted in PROJECT.json under "findings". Each passing property has a
mutant: a changed definition (marked `mutant` in its module) under which TLC finds
the property violated.

`file_check_input` shows that the test tool passes a compiler whose output lacks what
the test asks for: its message (`main.cpp:144-152`) speaks of input data "that will be
checked with directives found within file", but the directives are looked up in the
match file itself, where each of them stands. This is so in every run:
`ChecksFindThemselves` in `FileCheckProofs` proves that the exit status of a failed
check is never returned. It is no property the project wants kept, and no run
checks it.

Two more disagreements are in the models without a run that states the documented
claim. `parse_args` is to check "that all positional args are files that exist"
(`a_c_compiler.cpp:144`); for one that is missing it returns `EXIT_FAILURE`, which as a
`bool` is true, and the file is lexed: `CheckFiles` goes to the loop, and
`NoUndefinedRead` and `AbortsExplained` name the missing file among their causes. And
the attribute arguments `()` of `[[a()]]` are reported as unbalanced, since the guard
at `parse.cpp:197` reads a field that is set only behind it.

### Bounds, and why they are enough

* `parser`: 2,610 streams in three families, one per kind of loop: up to three
  tokens behind `[[`, closed or not; up to four type specifiers in any order, or
  two of the others; up to four declarator tokens. A declaration has no state
  that reaches from one family into another but the cursor, and the longest
  pattern a function tests is two tokens. Four contents of the storage behind the
  vector, chosen so that look-ahead finds a `(`, an identifier, a `]]` or nothing
  there; both builds.
* `lexer`: all texts of up to 4 characters over a character of each case, up to 6
  over the characters of comments, up to 5 over those of strings and numbers and
  over those of identifiers and keywords, up to 4 with byte `0xFF` among them; both
  builds, both signs of `char`. Each case looks at two characters at
  most before it scans, and hands on at most one; four characters give each pair
  of neighbouring cases in each order.
* `driver`: 12,497 command lines: all of up to 3 arguments over 11; up to 4 over
  `-fset-feature-flag`, its values with and without a comma, two other options and
  `-fdebug-parser`; up to 3 files of which some are missing, directories, unreadable
  or without a status; and up to 3 files behind every combination of `-L`,
  output file (writable, not writable, a later source file, a missing source file)
  and stop phase; room for one, two or five open files. Three files are one more
  than it takes to see state leak from one file to the next.
* `compile`: up to two of fifteen files behind each of five option lists, and
  three of four ordinary ones; the files hold a declaration of each kind, an
  attribute, comment and string that do not end, a `/`, a byte `0xFF`, a number with
  a suffix and one that runs into a keyword, no token at all; and files that do not
  open, behind one that does. Both builds and signs, one or five open files.
* `file_check`: up to three lines over seven that hold a directive, none, two, or
  text a check may find too early, with and without an unfinished last line; all
  texts of up to 5 characters over those of the regular expression, alone and behind
  a CHECK; command lines of up to 3 arguments over 9.
* No counter is capped by a guard: each run of the program is finite or returns
  to a state it has been in.

Deadlock checking is off in every cfg, since the program ends.

### Fairness

`FairSpec` adds `WF_vars(Next)`: the compiler and the tool are single-threaded,
run on their caller's thread, and no step waits for anything. This is used
for `HangsOnlyInAttributeList`, `CommaSeparatesAttributes`, `LexingEnds`,
`OrdinarySourcesCompile` and `ToolEnds`.

## 4. Proofs

Each theorem holds for every value of the constants under the module's named
assumptions: `StreamsAssumption` (streams are sequences of tokens),
`TextsAssumption` (texts are sequences of characters), `DriverAssumption`
(`SystemConstants`: arguments and files are strings, flags and bits are below 32, what
has no status cannot be opened, the default value of the feature flag has a comma;
`LexedConstants`: files have contents with no more names than identifiers),
`FileCheckAssumption` (files hold texts), `CompileAssumption` (`SystemConstants`,
sources have texts, spellings of keywords are letters and digits). `Compile` does
not assume `LexedConstants`: `LexedAssumed` proves it of the lexing function.

| Theorem | Property |
|---|---|
| `ParserProofs!TypeCorrect` | `TypeOK` |
| `ParserProofs!Backtracking` | `BacktrackingRestoresCursor` |
| `ParserProofs!ReadsInBounds` | `NoReadPastEnd` |
| `ParserProofs!OneName` | `OneNameLookedUp` |
| `ParserProofs!Rejection` | `RejectedAtFirstToken` |
| `ParserProofs!CursorIsInBounds` | `CursorInBounds` (`AttributeCursorInBounds`, `UngetNeverUnderflows`) |
| `ParserProofs!CategoriesMerge` | `MergedCategory` |
| `ParserProofs!OutcomeImplemented` | `ImplementsOutcome` |
| `ParserProofs!DeathsAreExplained` | `DeathsExplained` |
| `ParserProofs!ParsingTerminates` | `EachStepGetsOn` |
| `LexerProofs!TypeCorrect` | `TypeOK` |
| `LexerProofs!NothingIsLost` | `NothingLost` |
| `LexerProofs!LocationsAreExact` | `LocationsExact` (`LocationsGoForward`, `LinesAreExact`) |
| `LexerProofs!LexemesAgree` | `LexemesMatchTokens` |
| `LexerProofs!IdentifiersAsWritten` | `IdentifiersSpelledAsWritten` |
| `LexerProofs!LexingTerminates` | `EachStepReadsOn` |
| `LexerProofs!ClosedTextsAreLexed` | `OnlyOpenTextsHang` |
| `LexingProofs!LexingIsAFunction` | `LexesTheText` |
| `DriverProofs!TypeCorrect` | `TypeOK` |
| `DriverProofs!BitsAreAskedFor` | `BitsAskedFor` |
| `DriverProofs!AllFilesProcessed` | `FilesProcessed` |
| `DriverProofs!ExitStatusCorrect` | `ExitStatusExact` |
| `DriverProofs!OutputFileCorrect` | `OutputFileHoldsLastFile` |
| `DriverProofs!SourcesLexedAsGiven` | `SourcesAsGiven` |
| `DriverProofs!NamesAreOfFirstFile` | `NamesComeFromFirstFile` |
| `DriverProofs!UndefinedReadsExplained` | `NoUndefinedRead` |
| `DriverProofs!AbortsAreExplained` | `AbortsExplained` |
| `FileCheckProofs!TypeCorrect` | `TypeOK` |
| `FileCheckProofs!SearchIsEarliest` | `EarliestPlaces` |
| `FileCheckProofs!DirectivesAreExact` | `DirectivesExact` |
| `FileCheckProofs!RefusalIsExact` | `NextNeedsCheck` |
| `FileCheckProofs!ToolTerminates` | `EachStepNearsTheEnd` (of the tool; stated beside its proof) |
| `CompileProofs!FilesAreLexedAsSaid` | `LexAsContents` |
| `CompileProofs!CompilerImplementsDriver` | `ImplementsDriver` |
| `CompileProofs!OrdinarySourcesAreNotLost` | `OrdinarySourcesSurvive` |
| `CompileProofs!CompilingTerminates` | `EachStepNearsTheEnd` |
| `CompileProofs!CallsKeepTheirPromises` | `CallsPromise` (the invariants of the runs `lexer` and `parser`, of every call) |
| `CompileProofs!CompilerKeepsPromises` | `DriverPromises` (the invariants of the run `driver`, of the compiler) |

### ParserProofs

None of the properties is inductive alone. The inductive invariant `IInv` joins

* `Control`: what `pc` says about `hist`, `nest` and the cursor (how many cursors
  are saved, that the second is exactly one or two tokens back, that inside a
  parenthesis the cursor is ahead of `nest`);
* `Data` and `TypesAllocated`: the types, and that both entries of the type table
  exist while specifiers are read;
* `CursorBound`: how far the cursor is at each `pc`, for streams that end in `;`
  newline. The argument of `ReadsInBounds`: every token that lets the cursor move
  is neither `;` nor newline, so it stands before the last two; the one move that
  tests nothing (`parse_declarator`) happens at most once before the attempt is
  given up, since a parenthesised declarator never succeeds;
* `Names`: how many lookups have happened at each `pc`, all for one token;
* `Verdict`: the diagnostics so far are about attributes, until `Dispatch` adds
  the last one;
* `AttributeCursorInBounds` itself.

`Invariance` has one step per action and, under it, one per conjunct; facts about
each primitive (`PushIndex`, `PopIndex`, `Move`, `find_first_of`'s `Scanned`) are
lemmas. `CategoriesMerge` adds `WordsState`: the attribute parser steps over no
category keyword, and while specifiers are read the category is the one all words
so far have. Its heart is `LongSwallowsInts`: the merged category is `long` exactly
when the last word that is no `int` is. `OutcomeImplemented` adds `Fresh` (nothing
is reported or looked up before the first function) and shows each action to be
one of `ParseOutcome`, or none of the caller's business.

`DeathsAreExplained` adds `DeathState`: a level of parentheses is open only if some
`(` had no identifier before it (`StrayParen`), a declarator is tried outside them
otherwise, and every `(` that is tested has two more tokens behind it; so each token
a step eats is there, and the assertions that are left are about keywords
(`OrdinaryTokensSurvive` puts it the other way round).

`ParsingTerminates` is the safety half of termination. `Left` is arranged by what a
parse still has to try: within the declarator alternatives, the place they were
tried from (`TriedFrom`, the saved cursor while a function declarator is tried, so
that giving up and going back costs nothing) and the alternatives left there; in
front of that the specifiers, in front of those the attributes. `LeftHere` spells
it out per `pc`, and `Reached` bounds the cursor by the end of the storage, without
which the differences in `Left` would not be naturals. What it does not cover is
the one iteration that changes nothing, the attribute list on a token that begins
no attribute: there a run of the model stutters and the parser spins.

### LexerProofs

* `Position`, with the types: the current character `c` is the one before `next`,
  or, behind a number, the one at `next`, which `ungetc` has given back. All else
  rests on this.
* `LocationsNeverGoBack` is inductive with it: counting only adds.
* `AllLexed`: the characters in front of the current one are in tokens, and the
  current one too once the switch is left, unless it may still begin an identifier.
* `LineState`: `lineno` is the newlines up to the current character plus one for
  each number that ended its line, and so was the line of each token.
* `NumbersMatch`, `StringsMatch`, `Apart`, `IdsMatch`: the k-th lexeme is what is
  written of the k-th token of its kind, over `Rank`, the count of tokens up to one;
  and where the last token ends, which is why the next one cannot overlap it.
* `KeywordsSpelled`: each keyword token has the spelling that made it one, with its
  first letter doubled behind a number; `CompileProofs` rests on it.
* `Reached` bounds `next`, so that `Left` is a natural number; `StepReads` is what
  each case of the switch reads at least. A number's `ungetc` gives one character
  back after at least one has been read (`LexingTerminates`).
* `ClosedHere`: in a closed text a line comment has its newline in front of it, and
  no case that waits for another character is entered (`ClosedTextsAreLexed`).
* `PlainState`, for `CompileProofs`: in a text without digits, quotes, `.` and `/`
  each token is one character or a word, and lies behind the one before it. With
  `AllLexed` the tokens then are the text (`PlainLexed`): a character that is no
  letter is a token of its own, a word in front of it is the token before
  (`WordBefore`), and a text that ends in `;` and a newline ends in their tokens
  (`LastTokens`).

### LexingProofs

That the steps of `lex()` compute a function of the text, for texts of every length.
The function is recursive, and there are two inductions in this. That there is a
function that satisfies its equation (`RestExists`, from which `RestEquation`) is
built up from the end of the text, since each case calls `rest` only at later
positions; that its values are tokens and names, and no more names than `id`s
(`RestType`, `LexOfType`), goes the same way. The library's induction theorems take
an operator and cannot be instantiated; `MinTheorems` proves `Induction` about a set
instead, from the least element a set of naturals has, and the set of positions of
which the claim holds is what it is used with.

The lexer then needs no induction but its own steps. `Coming` is the invariant: what
has been made so far, with what `LexRest` makes of the text from here on, is
`LexOf(text)`. "From here on" depends on the half of the iteration the lexer is in:
in the switch it is from the current character on, behind it from the word the
identifier code would still make of the current character. `ComingStep` has a lemma
per case of the switch; `MadePush` and its like say what a pushed token does to
`Made`, and `Glue`, joining two results, is associative.

### DriverProofs

`TypeOK` with `InLoop`; `ArgumentsRead` (the argument about to be read is nobody's
value, and the value of `-fset-feature-flag` is the default one or was given to it,
as were those whose bits are set); `LoopState` (how `lexed`, `parsed` and `cur` count each other at each `pc`,
and that stopping early means the first file); `OutputState` (which dump the output
file holds, when it has been opened, and that no more files are open than can be);
`NamesState` (the names of the first file lead `lexedIds`, and those of the current
one are among them). `NoUndefinedRead` and `AbortsExplained` are proved step by
step from these.

### FileCheckProofs

`ScanState` with the types. `SearchIsEarliest` is that the greedy search is optimal:
places for n + 1 texts are places for n and one more behind them (`PlaceOneMore`), the
first n end no earlier than the rest begins, so the next text is found among the
occurrences `RestBehind` takes the least of (`OccurrencesLater`); and the places the
search has taken, with that one, are places too. It needs nothing of where the texts
come from. `ChainState` does: the checks of a chain stand in the match file in order,
and the rest still to search starts no later than the text of the current check, which
is why each check finds, at the latest, itself (`ChecksFindThemselves`).

`DirectivesAreExact` compares two descriptions of the regular expression: the model
runs it from `at`, possessive repetition by possessive repetition, the property says
which characters of a line stand around a directive's text. `TextStartsMatch` shows
that a text start has a match and `MatchLaid` the converse; `InOneLine` and
`MatchesApart` that a match keeps to one line, so that the leftmost match takes the
first directive of its line. The invariant `DirectiveState` says the search is at
the start of a line (`LineStart`), every directive before it is in a chain and every
check in a chain is a directive before it, as it is written and in order; at the end
of the scan no match is left. `RefusalIsExact` follows since the search has met no
directive before the one it refuses.

`ToolTerminates` gives the tool a triple of naturals that every step lowers in
lexicographic order: the phase, then the arguments, the match file behind the last
match or the chains, then the checks of the current chain. A step of the scan lowers
it because a match is never empty (`SearchGoesOn`), a step of the checks because a
chain is left for the next one only when it is through (`WithinBounds`). Its
assertions and refusals count as ends.

### CompileProofs

The theorems of `LexerProofs` and `ParserProofs` are about a `lex()` or `parse()`
that is all there is; their invariants are carried over to where the two run inside
`main`. `IInv` joins `Phase` (which of the three programs is running, and what the
driver has tested before it called the other two), `LexerState` (the lexer's
invariant from `OpenFile` on, and `KeywordsSpelled` of its tokens for as long as
they are parsed) and `ParserState` (the parser's invariant from `NewParser` on, and
that what it has looked up exists). A call starts in a state the instance's `Start`
describes, and while it runs the steps of `Compile` are the instance's
(`SameLexer`, `SameParser`).

`CompilerImplementsDriver` maps each step to the driver's or to none: `LexReturns`
is `Lex` (`LexImplemented`), the last step of a parse is `Parse`, which `OneName`
allows: the names of one identifier token are at most two, from the first on
(`NamesInOrder`, `ParseReturnsImplemented`). `CompilerKeepsPromises` then is
`Driver`'s theorems, carried over by that refinement: the proofs of `DriverProofs`
hold for names of any kind (its constant `Names`), hence for the sequences of
characters `Compile` has.

What `Driver` is instantiated with, `Contents`, is the lexing function of each
source. `LexerState` carries `Coming` to where `lex()` returns, so that the tokens
and names it hands over are those of the file (`ContentIs`, `FilesAreLexedAsSaid`);
`LexedAssumed` discharges what `Driver` assumes of its files. So the refinement
holds of every set of source texts, without a hypothesis on them.

`OrdinarySourcesAreNotLost` joins all three programs. What `OrdinaryText` asks of
the characters of a file is what `ClosedTextsAreLexed` needs for `lex()` to return;
`OrdinaryStream` carries it through the tokens (a `(` that stands behind a name is a
token behind an `id`, no word is an unsupported keyword or a modifier, the last two
tokens are `;` and the newline) to where `DeathsAreExplained` leaves a parse nothing
to die of. The invariant is `Survival`: no option has interfered and the files are
the arguments in order (`Undisturbed`, `Progress`); while `lex()` runs, it reads the
file as it is given (`LexerRuns`); behind it, the tokens are `Readable` and there are
two names if there is an `id`, which is all a parse looks up; while `parse()` runs,
its `DeathState`. How far the loop has come (`cur` against `lexed` and `parsed`) is
`DriverProofs`' `LoopState`, which holds by the refinement.

`CallsKeepTheirPromises` carries over what `IInv` does not need. The proofs of the
lexer and the parser each name the whole of what holds during a call, `CallState`,
with three lemmas: it holds where a call starts (`CallStart`), a step keeps it
(`CallStep`), and it implies the module's invariants (`CallPromises`). `Calls` says
that it holds of whichever call is running in `main`; a step of `Compile` is one of
the instance, or starts it, or leaves its variables alone (`LexerMoves`,
`ParserMoves`). So line numbers, lexemes, backtracking and bounds are right in every
call, not just in the first one, although the tables the calls share are never
cleared.

`CompilingTerminates` joins the measures. `StepsLeft` is, in lexicographic order:
whether arguments or files are read, how many of them are left, the stage the
current file is in, and `Left` of the call that runs. `StepLowers` has a lemma per
part of `main`: a step within a call lowers the last number (`CallLowers` of
`LexerProofs` and `ParserProofs`, as in `LexingTerminates` and `ParsingTerminates`),
a call that starts or returns the stage, the next file the second. The order on
tuples of naturals is well-founded, so a run in which each step lowers it is
finite; what the theorem does not exclude is the iteration of the attribute list
that changes nothing, which is no step of the model, and `Lost`, which counts as an
end.

### Only model-checked

* `HangsOnlyInAttributeList`, `LexingEnds`, `ToolEnds`, `OrdinarySourcesCompile`:
  liveness under fairness is out of the prover's reach. `LexingTerminates` with
  `ClosedTextsAreLexed`, `ParsingTerminates`, `CompilingTerminates` and
  `ToolTerminates` prove what fairness is added to, and
  `OrdinarySourcesAreNotLost` what must not happen on the way to
  `OrdinarySourcesCompile`.

## 5. Not modelled

* The build system and the test inputs: no state of the program.
* Wording and layout of diagnostics, help, verbose output, log lines and dumps (a
  dump that is read back as a source is one fixed content).
* Feature flag or bit numbers of 32 and more (undefined behaviour of an index or
  a shift); excluded by `DriverAssumption`. Which spellings `std::stoul` accepts is
  not modelled: `FlagBits` is any set of arguments with their numbers.
* Changes of the file system by others while the compiler runs.
* The size of the C++ stack; memory exhaustion (an endless string is `hung`).
* Other values of `char` than ASCII and `0xFF`; their class depends on the locale.
* The indentation of the logger: `m_indent_level` stays 0, so nothing is indented.
* `recede_token_index`, `next_id_value`, `current_id_value`, `has_more_tokens`'
  only use behind a loop guard that is false, the sub-type accessors of
  `type_data`, `get_feature_flag`, `source_info_for_token`: code that is never
  reached.

## 6. Plan

Done: `Parser`, `Lexer`, `Driver`, `FileCheck`, their composition `Compile` and its
refinement of `Driver`, `ParseOutcome`, and the proofs about all of them. What is
left:

1. `parse_function_body` and `parse_declaration`, once the code has more than stubs
   for them.
2. The dump of a file as a text of its own, so that a compiler that reads its lexer
   output back (`DumpContent`) lexes what it has printed.
