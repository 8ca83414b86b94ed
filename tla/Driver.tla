------------------------------- MODULE Driver --------------------------------
(***************************************************************************)
(* main() of driver/a_c_compiler.cpp: one run of the compiler, from its    *)
(* arguments to its exit status, with the lexed_* vectors of lex.cpp, which *)
(* outlive each source file.  lex() and parse() on one file are the modules *)
(* Lexer and Parser; here lex() yields the tokens a file has, and parse()  *)
(* may look up names.                                                      *)
(*                                                                         *)
(* pc = "undefined" stands for whatever a program does once it has read    *)
(* past the end of a vector or from a null FILE*; pc = "stuck" for a       *)
(* lex() or parse() that does not return.                                  *)
(***************************************************************************)
EXTENDS Integers, Sequences, FiniteSets

CONSTANTS
  Arguments,   \* the command lines, sequences of arguments
  Names,       \* what an id can be called
  Contents,    \* source file |-> its tokens and the names of its ids
  DumpContent, \* the same for a file a dump has been written to
  Directories, \* paths that exist and are no regular files
  Writable,    \* paths that can be opened for writing
  Hidden,      \* paths whose status cannot be had: fs::exists throws
  Unreadable,  \* paths that fopen does not open for reading, if they exist
  FlagBits,    \* the arguments std::stoul finds a flag and a bit in
               \* ("F,0xB" and the like) |-> <<F, B>>
  Commaless,   \* those of them without a comma
  Builds,      \* TRUE when ZTD_ASSERT_MESSAGE aborts
  OpenLimits   \* how many files the process may have open

VerboseFlags     == {"-v", "--verbose"}
DebugLexerFlags  == {"-L", "-fdebug-lexer"}
DebugParserFlags == {"", "-fdebug-parser"}    \* its short form is ""
HelpFlags        == {"-h", "--help"}
Flags    == VerboseFlags \cup DebugLexerFlags \cup DebugParserFlags
SetFlag  == "-fset-feature-flag"
StopAt   == "-fstop-after-phase"
LexOut   == "--lex-output-file"
Options  == {SetFlag, StopAt, LexOut, "--output-file", "-fexample-int-option"}

(* "id" and "other" are tokens the dump can print; the dump has no case    *)
(* for "raw", a "/" or the token behind it.  A "/" at the end of a file is *)
(* an id without a name.                                                   *)
TokenKinds == {"id", "other", "raw"}

Content == [toks : Seq(TokenKinds), names : Seq(Names)]
IdCount(content) == Cardinality({k \in DOMAIN content.toks : content.toks[k] = "id"})

(* What lex() makes of the files; the rest of what is given.               *)
LexedConstants ==
  /\ \A f \in DOMAIN Contents : Contents[f] \in Content
  /\ DumpContent \in Content
  /\ \A f \in DOMAIN Contents : Len(Contents[f].names) <= IdCount(Contents[f])
SystemConstants ==
  /\ Arguments \subseteq Seq(STRING) /\ Builds \subseteq BOOLEAN
  /\ OpenLimits \subseteq Nat
  /\ Writable \cap Directories = {} /\ "" \notin Writable
  /\ Hidden \subseteq Unreadable
  /\ "0,0x0" \in DOMAIN FlagBits \ Commaless /\ SetFlag \notin DOMAIN FlagBits
  /\ \A v \in DOMAIN FlagBits : FlagBits[v] \in (0..31) \X (0..31)
  /\ {"", "0,0x0"} \cup Options \subseteq STRING
DriverConstants == SystemConstants /\ LexedConstants

ASSUME DriverAssumption == DriverConstants

VARIABLES
  args, asserts, limit,  \* chosen at the start, never changed
  pc,
  it,             \* the argument parse_args looks at
  flags,          \* the flags of cli_opts that are set
  vals,           \* the values of the options
  files,          \* cli_opts.positional_args
  bits,           \* global_opts: the feature flag bits that are set
  cur,            \* the source file of the loop in main, an index of files
  toks,           \* its tokens
  lexedIds,       \* lexed_ids, of all files so far
  failedOutput,   \* failed_lexer_output
  status,         \* the exit status
  out,            \* what dumps have written: to stdout, to the output file
                  \* once they have opened it
  lexed, parsed,  \* history: the files lexed, as they were then, and parsed
  lookups         \* history: the names parse() got, and for which file

given   == <<args, asserts, limit>>
options == <<it, flags, vals, files, bits>>
history == <<out, lexed, parsed, lookups>>
session == <<cur, toks, lexedIds, failedOutput, status, history>>
vars    == <<given, pc, options, session>>

Goto(p) == pc' = p
Exit(s) == pc' = "exited" /\ status' = s
Ended   == pc \in {"exited", "aborted", "undefined", "stuck"}
(* ZTD_ASSERT_MESSAGE, and the undefined behaviour behind it.              *)
FailedAssert == Goto(IF asserts THEN "aborted" ELSE "undefined")

Success == 0
Failure == 1

-----------------------------------------------------------------------------
(* parse_args.                                                             *)

Arg == args[it]
Reading == pc = "args" /\ it <= Len(args)
SkipArgument == it' = it + 2                                         \* mutant
NextArgument == it' = it + 1

(* m_feature_flags[flag] |= (1 << bit): the int 1 << 31 is negative, and   *)
(* its sign fills the upper half of the 64 bits.                           *)
Shifted(bit) == IF bit = 31 THEN 31..63 ELSE {bit}
SetSwapped(flag, bit) == bits' = bits \cup {<<bit, b>> : b \in Shifted(flag)} \* mutant
SetFeatureFlag(flag, bit) == bits' = bits \cup {<<flag, b>> : b \in Shifted(bit)}

Help ==
  /\ Reading /\ Arg \in HelpFlags
  /\ Exit(Failure)
  /\ UNCHANGED <<given, options, cur, toks, lexedIds, failedOutput, history>>

Flag ==
  /\ Reading /\ Arg \in Flags
  /\ flags' = flags \cup {Arg}
  /\ \/ Arg \in DebugParserFlags /\ SetFeatureFlag(1, 1)
     \/ Arg \notin DebugParserFlags /\ UNCHANGED bits
  /\ NextArgument
  /\ UNCHANGED <<given, pc, vals, files, session>>

(* handle_feature_flag aborts, with or without assertions, on an argument  *)
(* without the numbers: std::stoul throws and parse_args is noexcept.      *)
(* Where no comma is there, find yields npos, and the argument is both the *)
(* decimal flag and, from npos + 1 = 0 on, the hexadecimal bit.            *)
HandleFeatureFlag(v) ==
  \/ /\ v \in DOMAIN FlagBits /\ (asserts => v \notin Commaless)
     /\ SetFeatureFlag(FlagBits[v][1], FlagBits[v][2]) /\ UNCHANGED pc
  \/ /\ v \notin DOMAIN FlagBits \/ (asserts /\ v \in Commaless)
     /\ Goto("aborted") /\ UNCHANGED bits

(* *it == "-fset-feature-flag" is tested after it++, on the value of the   *)
(* option, whichever option it is.                                         *)
Tested(v) == v
Option ==
  /\ Reading /\ Arg \in Options /\ it < Len(args)
  /\ LET v == args[it + 1] IN
     /\ vals' = [vals EXCEPT ![Arg] = v]
     /\ \/ Tested(v) = SetFlag /\ HandleFeatureFlag(vals'[SetFlag])
        \/ Tested(v) # SetFlag /\ UNCHANGED <<pc, bits>>
  /\ it' = it + 2
  /\ UNCHANGED <<given, flags, files, session>>

OptionWithoutValue ==
  /\ Reading /\ Arg \in Options /\ it = Len(args)
  /\ FailedAssert
  /\ UNCHANGED <<given, options, session>>

Positional ==
  /\ Reading /\ Arg \notin HelpFlags \cup Flags \cup Options
  /\ files' = Append(files, Arg)
  /\ NextArgument
  /\ UNCHANGED <<given, pc, flags, vals, bits, session>>

(* The loop over positional_args.  At the first one that does not exist it *)
(* returns EXIT_FAILURE, which as a bool is true, so main goes on.  On one *)
(* whose status cannot be had fs::exists throws, and parse_args is         *)
(* noexcept.                                                               *)
Overwritten(f) == f = vals[LexOut] /\ out.opened
Absent(f)  == f \notin DOMAIN Contents \cup Directories \cup Hidden
Missing(f) == Absent(f) /\ ~Overwritten(f)
DiesOf(i)  == /\ files[i] \in Hidden \/ (asserts /\ files[i] \in Directories)
              /\ \A j \in 1..(i - 1) : ~Missing(files[j])
CheckFiles ==
  /\ pc = "args" /\ it > Len(args)
  /\ \/ (\E i \in DOMAIN files : DiesOf(i)) /\ Goto("aborted")
     \/ (\A i \in DOMAIN files : ~DiesOf(i)) /\ Goto("loop")
  /\ UNCHANGED <<given, options, session>>

-----------------------------------------------------------------------------
(* The loop over the source files.                                         *)

File == files[cur]

(* What a file holds: a dump, once it has been the lexer output file.  A   *)
(* directory opens, and its first read fails.                              *)
Original(f) == IF f \in Directories THEN [toks |-> <<>>, names |-> <<>>]
                                   ELSE Contents[f]
HeldAtStart(f) == Original(f)                                        \* mutant
Held(f) == IF Overwritten(f) THEN DumpContent ELSE Original(f)

LexAfresh(f) == toks' = Held(f).toks /\ lexedIds' = Held(f).names    \* mutant
LexTokens(f) == toks' = Held(f).toks /\ UNCHANGED lexedIds           \* mutant
LexFile(f)   == toks' = Held(f).toks /\ lexedIds' = lexedIds \o Held(f).names

(* lex() never closes the file it has opened.                              *)
LeaksTwo == 2 * Len(lexed) < limit                                  \* mutant
CanOpen  == Len(lexed) < limit
Opens(f) == ~Missing(f) /\ f \notin Unreadable /\ CanOpen

Lex ==
  /\ pc = "loop" /\ cur <= Len(files)
  /\ \/ /\ Opens(File)
        /\ LexFile(File)
        /\ lexed' = Append(lexed, [file |-> File, content |-> Held(File)])
        /\ Goto("lexed")
     \/ /\ ~Opens(File)
        /\ FailedAssert
        /\ UNCHANGED <<toks, lexedIds, lexed>>
  /\ UNCHANGED <<given, options, cur, failedOutput, status, out, parsed, lookups>>

(* dump_tokens_into numbers the ids of its own file from 0.                *)
IdIndex(k)  == Cardinality({j \in 1..k : toks[j] = "id"})
NameLine(k) == [file |-> File,
                text |-> IF toks[k] = "id" THEN lexedIds[IdIndex(k)] ELSE toks[k]]
DumpLines   == [k \in DOMAIN toks |-> NameLine(k)]
DumpFails   == \E k \in DOMAIN toks : toks[k] = "raw"
DumpReadsPastEnd == \E k \in DOMAIN toks : toks[k] = "id" /\ IdIndex(k) > Len(lexedIds)

(* std::ofstream truncates the file it opens, whatever it was.             *)
WriteAppended(lines) ==
  out' = [out EXCEPT !.file = @ \o lines, !.opened = TRUE]           \* mutant
WriteFile(lines) == out' = [out EXCEPT !.file = lines, !.opened = TRUE]

Dump ==
  /\ pc = "lexed" /\ flags \cap DebugLexerFlags # {}
  /\ \/ /\ vals[LexOut] # "" /\ (vals[LexOut] \in Writable => ~CanOpen)
        /\ failedOutput' = TRUE /\ Goto("dumped") /\ UNCHANGED out
     \/ /\ vals[LexOut] # "" => vals[LexOut] \in Writable /\ CanOpen
        /\ \/ DumpReadsPastEnd /\ Goto("undefined") /\ UNCHANGED out
           \/ asserts /\ DumpFails /\ Goto("aborted") /\ UNCHANGED out
           \/ /\ ~DumpReadsPastEnd /\ ~(asserts /\ DumpFails)
              /\ \/ vals[LexOut] = "" /\ out' = [out EXCEPT !.stdout = @ \o DumpLines]
                 \/ vals[LexOut] # "" /\ WriteFile(DumpLines)
              /\ Goto("dumped")
        /\ UNCHANGED failedOutput
  /\ UNCHANGED <<given, options, cur, toks, lexedIds, status, lexed, parsed, lookups>>

NoDump ==
  /\ pc = "lexed" /\ flags \cap DebugLexerFlags = {}
  /\ Goto("dumped")
  /\ UNCHANGED <<given, options, session>>

(* return failed_lexer_output ? EXIT_FAILURE : EXIT_SUCCESS.               *)
StatusIgnored == Exit(Success)                                       \* mutant
ExitWithLexerStatus == Exit(IF failedOutput THEN Failure ELSE Success)

StopAfterLex ==
  /\ pc = "dumped" /\ vals[StopAt] = "lex"
  /\ ExitWithLexerStatus
  /\ UNCHANGED <<given, options, cur, toks, lexedIds, failedOutput, history>>

(* The parser's m_last_identifier_string_index starts at 0 for every file; *)
(* it looks up a name at most twice.                                       *)
Parse ==
  /\ pc = "dumped" /\ vals[StopAt] # "lex"
  /\ \E n \in 0..2 :
       /\ n > 0 => \E k \in DOMAIN toks : toks[k] = "id"
       /\ \/ n > Len(lexedIds) /\ Goto("undefined") /\ UNCHANGED <<parsed, lookups>>
          \/ /\ n <= Len(lexedIds)
             /\ lookups' = lookups \o [k \in 1..n |-> [file |-> File, text |-> lexedIds[k]]]
             /\ parsed' = Append(parsed, File)
             /\ Goto("parsed")
  /\ UNCHANGED <<given, options, cur, toks, lexedIds, failedOutput, status, out, lexed>>

StopAfterParse ==
  /\ pc = "parsed" /\ vals[StopAt] = "parse"
  /\ ExitWithLexerStatus
  /\ UNCHANGED <<given, options, cur, toks, lexedIds, failedOutput, history>>

NextFileAlways ==                                                    \* mutant
  /\ pc = "parsed" /\ cur' = cur + 1 /\ Goto("loop")
  /\ UNCHANGED <<given, options, toks, lexedIds, failedOutput, status, history>>
NextFile ==
  /\ pc = "parsed" /\ vals[StopAt] # "parse"
  /\ cur' = cur + 1
  /\ Goto("loop")
  /\ UNCHANGED <<given, options, toks, lexedIds, failedOutput, status, history>>

Return ==
  /\ pc = "loop" /\ cur > Len(files)
  /\ Exit(Success)
  /\ UNCHANGED <<given, options, cur, toks, lexedIds, failedOutput, history>>

(* lex() or parse() hangs, aborts or reads past the tokens (Lexer, Parser). *)
NoReturn ==
  /\ \/ pc = "dumped" /\ vals[StopAt] # "lex"
     \/ pc = "loop" /\ cur <= Len(files)
  /\ Goto("stuck")
  /\ UNCHANGED <<given, options, session>>

-----------------------------------------------------------------------------
Init ==
  /\ args \in Arguments /\ asserts \in Builds /\ limit \in OpenLimits
  /\ pc = "args" /\ it = 1
  /\ flags = {} /\ files = <<>> /\ bits = {}
  /\ vals = [o \in Options |-> IF o = SetFlag THEN "0,0x0" ELSE ""]
  /\ cur = 1 /\ toks = <<>> /\ lexedIds = <<>> /\ failedOutput = FALSE
  /\ status = Success
  /\ out = [stdout |-> <<>>, file |-> <<>>, opened |-> FALSE]
  /\ lexed = <<>> /\ parsed = <<>> /\ lookups = <<>>

Next ==
  \/ Help \/ Flag \/ Option \/ OptionWithoutValue \/ Positional \/ CheckFiles
  \/ Lex \/ Dump \/ NoDump \/ StopAfterLex \/ Parse \/ StopAfterParse
  \/ NextFile \/ Return \/ NoReturn

Spec == Init /\ [][Next]_vars
-----------------------------------------------------------------------------
(* Properties.                                                             *)

Lines == [file : STRING, text : Names \cup TokenKinds]

(* The state of the driver has its types.                                  *)
TypeOK ==
  /\ args \in Seq(STRING) /\ asserts \in BOOLEAN /\ limit \in Nat
  /\ pc \in {"args", "loop", "lexed", "dumped", "parsed",
             "exited", "aborted", "undefined", "stuck"}
  /\ it \in 1..(Len(args) + 1)
  /\ flags \subseteq Flags /\ vals \in [Options -> STRING]
  /\ files \in Seq(STRING) /\ bits \subseteq (0..31) \X (0..63)
  /\ cur \in 1..(Len(files) + 1)
  /\ toks \in Seq(TokenKinds) /\ lexedIds \in Seq(Names)
  /\ failedOutput \in BOOLEAN /\ status \in {Success, Failure}
  /\ out \in [stdout : Seq(Lines), file : Seq(Lines), opened : BOOLEAN]
  /\ lexed \in Seq([file : STRING, content : Content])
  /\ parsed \in Seq(STRING) /\ lookups \in Seq(Lines)

(* Which arguments are values of options, said of the whole command line:  *)
(* the ones behind an odd number of arguments that are names of options.   *)
OptionRun(j, i) == /\ \A k \in j..(i - 1) : args[k] \in Options
                   /\ j > 1 => args[j - 1] \notin Options
IsValue(i) == \E j \in 1..(i - 1) : OptionRun(j, i) /\ (i - j) % 2 = 1

(* Each bit that is set has been asked for: it is the one of -fdebug-parser *)
(* or belongs to a value that -fset-feature-flag has had, the default one  *)
(* or one on the command line, and all bits of that value are set with it; *)
(* a value of another option that looks like one counts for nothing.  Bit  *)
(* 31 brings the upper half of its flag along (a_c_compiler.cpp:111-137,   *)
(* global_options.h:26).                                                   *)
BitsOf(v) == {<<FlagBits[v][1], b>> : b \in IF FlagBits[v][2] = 31 THEN 31..63
                                           ELSE {FlagBits[v][2]}}
ValuesGiven(o) ==
  {args[i + 1] : i \in {j \in 1..(Len(args) - 1) : args[j] = o /\ ~IsValue(j)}}
BitsAskedFor ==
  \A p \in bits :
    \/ p = <<1, 1>> /\ flags \cap DebugParserFlags # {}
    \/ \E v \in DOMAIN FlagBits \cap ({"0,0x0"} \cup ValuesGiven(SetFlag)) :
         p \in BitsOf(v) /\ BitsOf(v) \subseteq bits

(* With no stop-after-phase every file is lexed and parsed, in order;      *)
(* otherwise main returns in the middle of the first iteration, whatever   *)
(* files follow, and after "lex" it has parsed none                        *)
(* (a_c_compiler.cpp:230-242).                                             *)
First(s)   == IF s = <<>> THEN <<>> ELSE <<s[1]>>
LexedFiles == [i \in DOMAIN lexed |-> lexed[i].file]
FilesProcessed ==
  pc = "exited" /\ status = Success =>
    CASE vals[StopAt] = "lex"   -> LexedFiles = First(files) /\ parsed = <<>>
      [] vals[StopAt] = "parse" -> LexedFiles = First(files) /\ parsed = LexedFiles
      [] OTHER                  -> LexedFiles = files /\ parsed = files

(* The exit status is a failure for help, or when the lexer output could   *)
(* not be written and compilation stopped early; a run through all files   *)
(* forgets that failure (a_c_compiler.cpp:245).                            *)
ExitStatusExact ==
  pc = "exited" => (status = Failure <=>
                      \/ it <= Len(args)
                      \/ failedOutput /\ vals[StopAt] \in {"lex", "parse"})

(* The lexer output file holds the dump of one file, the last one dumped:  *)
(* each dump truncates it (a_c_compiler.cpp:218).  That is the last file,  *)
(* unless the files that lex() leaves open have taken the last descriptor  *)
(* (lex.cpp:116); standard output holds the dumps of all files.            *)
Dumping == flags \cap DebugLexerFlags # {}
IsDumpOf(lines, f) == /\ Len(lines) = Len(f.content.toks)
                      /\ \A k \in DOMAIN lines : lines[k].file = f.file
FileHolds(n) ==
  IF n = 0 \/ limit = 1 THEN out.file = <<>>
  ELSE IsDumpOf(out.file, lexed[IF n = limit THEN n - 1 ELSE n])
StdoutHolds(n) ==
  \A i \in 1..n : lexed[i].content.toks # <<>> =>
    \E k \in DOMAIN out.stdout : out.stdout[k].file = lexed[i].file
OutputAfter(n) ==
  Dumping =>
    /\ vals[LexOut] \in Writable => out.stdout = <<>> /\ FileHolds(n)
    /\ vals[LexOut] = "" => out.file = <<>> /\ StdoutHolds(n)
OutputFileHoldsLastFile ==
  pc \in {"dumped", "parsed", "loop", "exited"} => OutputAfter(Len(lexed))

(* The files are checked once, before the first is lexed, and opened one   *)
(* by one (a_c_compiler.cpp:146, 203): each is lexed as it was when the    *)
(* compiler started, but for the lexer output file, which holds a dump     *)
(* from the second file on.                                                *)
SourcesAsGiven ==
  \A i \in DOMAIN lexed :
    lexed[i].content = IF /\ Dumping /\ vals[LexOut] \in Writable
                          /\ i > 1 /\ lexed[i].file = vals[LexOut]
                       THEN DumpContent ELSE Original(lexed[i].file)

(* The lexed_* vectors are never cleared (lex.cpp:20-22) and every reader  *)
(* starts at 0: names of a file with two names or more are the names       *)
(* parse() gets for every file after it.                                   *)
NamesComeFromFirstFile ==
  lexed # <<>> /\ Len(lexed[1].content.names) >= 2 =>
    \A k \in DOMAIN lookups :
      \E i \in 1..2 : lookups[k].text = lexed[1].content.names[i]

(* No run of files that exist and can be read, no more than can be open,   *)
(* and of complete options reads past a vector, as long as each id token   *)
(* has a name and no file has exactly one id (whose name the parser may    *)
(* look up twice, parse.cpp:629).                                          *)
NoUndefinedRead ==
  pc = "undefined" =>
    \/ it = Len(args) /\ ~asserts
    \/ (\E i \in DOMAIN files : Absent(files[i]) \/ files[i] \in Unreadable) /\ ~asserts
    \/ Len(files) > limit /\ ~asserts
    \/ \E i \in DOMAIN lexed : \/ IdCount(lexed[i].content) = 1
                             \/ IdCount(lexed[i].content) > Len(lexed[i].content.names)

(* What the driver dies of.  Without assertions only a feature flag that   *)
(* is no number (a_c_compiler.cpp:89, 95) or a file whose status cannot be *)
(* had (a_c_compiler.cpp:146); with them also a feature flag without comma, *)
(* an option without value, a file that is a directory, one that is missing *)
(* or cannot be read, more files than can be open, or a dump of a file     *)
(* with a "/" in it, which the dump has no case for (lex.cpp:93).          *)
AbortsExplained ==
  pc = "aborted" =>
    \/ vals[SetFlag] \notin DOMAIN FlagBits
    \/ \E i \in DOMAIN files : files[i] \in Hidden
    \/ asserts /\ \/ vals[SetFlag] \in Commaless
                  \/ it = Len(args) /\ args[it] \in Options
                  \/ \E i \in DOMAIN files :
                       Absent(files[i]) \/ files[i] \in Directories \cup Unreadable
                  \/ Len(files) > limit
                  \/ Dumping /\ \E k \in DOMAIN toks : toks[k] = "raw"

-----------------------------------------------------------------------------
(* Statements of comments and of the help.                                 *)

(* command_line_options.inl.h:22, 26: -fset-feature-flag is one of the     *)
(* "Options that take a value", to "manually set a feature flag": once the *)
(* arguments are read, the bit of each value it was given is set.          *)
FlagOptionSetsItsBit ==
  pc = "loop" =>
    \A v \in ValuesGiven(SetFlag) \cap DOMAIN FlagBits : FlagBits[v] \in bits

(* parse.cpp:52: the parser's index of an identifier is "a handle to the   *)
(* string representation of an id": the names it gets are names of the     *)
(* file it parses.                                                         *)
NamesAreOwn ==
  \A k \in DOMAIN lookups :
    \E i \in DOMAIN Original(lookups[k].file).names :
      Original(lookups[k].file).names[i] = lookups[k].text
=============================================================================
