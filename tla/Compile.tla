------------------------------ MODULE Compile -------------------------------
(***************************************************************************)
(* The whole compiler: main() as in Driver, with lex() and parse() as in   *)
(* Lexer and Parser instead of Driver's summary of them.  The three share  *)
(* the token vector, the lexed_ids that outlive a file, and the build.     *)
(*                                                                         *)
(* A name is the sequence of its characters.  A read past the last token   *)
(* is lost: nothing is known of the storage behind it.                     *)
(***************************************************************************)
EXTENDS Integers, Sequences, FiniteSets

CONSTANTS
  Arguments, Directories, Writable, Hidden, Unreadable, FlagBits, Commaless,
  Builds, OpenLimits,  \* as in Driver
  CharSigns,      \* as in Lexer
  Sources,        \* source file |-> its text
  DumpText,       \* the text of a dump
  KeywordOf       \* spelling |-> keyword, a token id of the parser

VARIABLES
  args, asserts, limit, pc, it, flags, vals, files, bits, cur, toks, lexedIds,
  failedOutput, status, out, lexed, parsed, lookups   \* of Driver

VARIABLES
  text, signed, lexPc, c, next, loc, lexToks, ids, nums, strs  \* of Lexer

VARIABLES
  parsePc, idx, hist, nest, lastId, looked, attrs, types, funcspecs,
  diags                                                        \* of Parser

driverVars == <<args, asserts, limit, pc, it, flags, vals, files, bits, cur, toks,
                lexedIds, failedOutput, status, out, lexed, parsed, lookups>>
lexerVars  == <<text, signed, lexPc, c, next, loc, lexToks, ids, nums, strs>>
parserVars == <<parsePc, idx, hist, nest, lastId, looked, attrs, types, funcspecs,
                diags>>
vars == <<driverVars, lexerVars, parserVars>>

L == INSTANCE Lexing WITH pc <- lexPc, toks <- lexToks,
                          Texts <- {}, Keywords <- DOMAIN KeywordOf

-----------------------------------------------------------------------------
(* One enum token_id, told apart by what the parser and the dump ask of it. *)

Punctuation(t) == CASE t = "(" -> "l_paren"  [] t = ")" -> "r_paren"
                    [] t = "[" -> "l_square" [] t = "]" -> "r_square"
                    [] t = "{" -> "l_curly"  [] t = "}" -> "r_curly"
                    [] t = ";" -> "semicolon" [] t = "*" -> "asterisk"
                    [] t = ":" -> "colon"    [] t = "," -> "comma"
                    [] OTHER   -> "number"
(* Behind a number without a suffix the first letter is lexed twice.       *)
Spelled(k) == IF text[k.from] \in L!Alpha THEN SubSeq(text, k.from, k.to)
              ELSE <<text[k.from + 1]>> \o SubSeq(text, k.from + 1, k.to)
ParserToken(k) == CASE k.id \in {"id", "newline"} -> k.id
                    [] k.id = "keyword" -> KeywordOf[Spelled(k)]
                    [] OTHER -> Punctuation(k.id)
DumpToken(id) == CASE id = "id" -> "id"
                   [] id \in {"keyword", "newline", "num_literal", "str_literal",
                              "line_comment", "block_comment"} \cup L!CharTokens
                        -> "other"
                   [] OTHER -> "raw"
ParserTokens == [i \in DOMAIN lexToks |-> ParserToken(lexToks[i])]
DumpTokens   == [i \in DOMAIN lexToks |-> DumpToken(lexToks[i].id)]

(* What Driver knows of a file, where lex() returns at all.                *)
Content(t) == LET made == L!LexOf(t)
              IN [toks  |-> [i \in DOMAIN made.toks |-> DumpToken(made.toks[i])],
                  names |-> made.names]
Contents    == [f \in DOMAIN Sources |-> Content(Sources[f])]
DumpContent == Content(DumpText)
D == INSTANCE Driver WITH Names <- Seq(L!Alnum)

P == INSTANCE Parser WITH toks <- ParserTokens, slack <- <<>>, pc <- parsePc,
                          lookups <- looked, TokenStreams <- {}, Slacks <- {}

(* Every source has a text; a spelling is the keyword it is.               *)
ASSUME CompileAssumption ==
  /\ D!SystemConstants /\ CharSigns \subseteq BOOLEAN
  /\ \A f \in DOMAIN Sources : Sources[f] \in Seq(L!Chars)
  /\ DumpText \in Seq(L!Chars)
  /\ \A s \in DOMAIN KeywordOf : s \in Seq(L!Alnum) /\ KeywordOf[s] \in P!Keywords

-----------------------------------------------------------------------------
(* What main() does besides.                                               *)

Driving == /\ \/ D!Help \/ D!Flag \/ D!Option \/ D!OptionWithoutValue
              \/ D!Positional \/ D!CheckFiles \/ D!Dump \/ D!NoDump
              \/ D!StopAfterLex \/ D!StopAfterParse \/ D!NextFile \/ D!Return
           /\ UNCHANGED <<lexerVars, parserVars>>

(* lex(source_file, ...) from fopen to its return.                         *)
TextAtStart(f) == IF f \in Directories THEN <<>> ELSE Sources[f]     \* mutant
TextOf(f) == IF D!Overwritten(f) THEN DumpText
             ELSE IF f \in Directories THEN <<>> ELSE Sources[f]

OpenFile ==
  /\ pc = "loop" /\ cur <= Len(files) /\ lexPc = "idle"
  /\ D!Opens(D!File)
  /\ text' = TextOf(D!File) /\ UNCHANGED signed
  /\ lexPc' = "switch" /\ next' = 2 /\ loc' = [line |-> 0, col |-> 0]
  /\ c' = L!Char(1)'
  /\ lexToks' = <<>> /\ ids' = <<>> /\ nums' = <<>> /\ strs' = <<>>
  /\ UNCHANGED <<driverVars, parserVars>>

OpenFails ==
  /\ lexPc = "idle" /\ D!Lex /\ pc' # "lexed"
  /\ UNCHANGED <<lexerVars, parserVars>>

LexStep == pc = "loop" /\ lexPc # "idle" /\ L!Next /\ UNCHANGED <<driverVars, parserVars>>

LexReturns ==
  /\ lexPc = "done" /\ lexPc' = "idle"
  /\ toks' = DumpTokens /\ lexedIds' = lexedIds \o ids
  /\ lexed' = Append(lexed, [file |-> D!File,
                             content |-> [toks |-> DumpTokens, names |-> ids]])
  /\ pc' = "lexed"
  /\ UNCHANGED <<text, signed, c, next, loc, lexToks, ids, nums, strs, parserVars>>
  /\ UNCHANGED <<args, asserts, limit, it, flags, vals, files, bits, cur,
                 failedOutput, status, out, parsed, lookups>>

(* parse(tokens, ...): a new parser, whose index of names starts at 0.     *)
KeepNameIndex  == UNCHANGED lastId                                   \* mutant
ResetNameIndex == lastId' = 0
NewParser ==
  /\ pc = "dumped" /\ vals["-fstop-after-phase"] # "lex" /\ parsePc = "idle"
  /\ parsePc' = "external" /\ idx' = 0 /\ hist' = <<>> /\ nest' = 0
  /\ ResetNameIndex /\ looked' = <<>>
  /\ attrs' = 0 /\ types' = <<>> /\ funcspecs' = {} /\ diags' = <<>>
  /\ UNCHANGED <<driverVars, lexerVars>>

(* lexed_id(index) indexes the names of all files so far.                  *)
NamesExist == \A k \in DOMAIN looked' : looked'[k].str < Len(lexedIds)
ParseStep ==
  /\ pc = "dumped" /\ parsePc # "idle"
  /\ UNCHANGED lexerVars /\ P!Next
  /\ \/ NamesExist /\ UNCHANGED driverVars
     \/ /\ ~NamesExist
        /\ pc' = "undefined"
        /\ UNCHANGED <<args, asserts, limit, it, flags, vals, files, bits, cur, toks,
                       lexedIds, failedOutput, status, out, lexed, parsed, lookups>>

ParseReturns ==
  /\ parsePc = "done" /\ parsePc' = "idle"
  /\ lookups' = lookups \o [k \in DOMAIN looked |->
                              [file |-> D!File, text |-> lexedIds[looked[k].str + 1]]]
  /\ parsed' = Append(parsed, D!File)
  /\ pc' = "parsed"
  /\ UNCHANGED <<idx, hist, nest, lastId, looked, attrs, types, funcspecs, diags>>
  /\ UNCHANGED <<args, asserts, limit, it, flags, vals, files, bits, cur, toks,
                 lexedIds, failedOutput, status, out, lexed, lexerVars>>

Lost ==
  /\ lexPc \in {"hung", "aborted"} \/ parsePc \in {"aborted", "fault"}
  /\ D!NoReturn
  /\ UNCHANGED <<lexerVars, parserVars>>

-----------------------------------------------------------------------------
Init ==
  /\ D!Init
  /\ text = <<>> /\ signed \in CharSigns /\ lexPc = "idle"
  /\ c = "eof" /\ next = 1 /\ loc = [line |-> 0, col |-> 0]
  /\ lexToks = <<>> /\ ids = <<>> /\ nums = <<>> /\ strs = <<>>
  /\ parsePc = "idle" /\ idx = 0 /\ hist = <<>> /\ nest = 0
  /\ lastId = 0 /\ looked = <<>>
  /\ attrs = 0 /\ types = <<>> /\ funcspecs = {} /\ diags = <<>>

Next == \/ Driving \/ OpenFile \/ OpenFails \/ LexStep \/ LexReturns
        \/ NewParser \/ ParseStep \/ ParseReturns \/ Lost

Spec == Init /\ [][Next]_vars

(* The compiler runs alone, on one thread, and waits for nothing.          *)
FairSpec == Spec /\ WF_vars(Next)
-----------------------------------------------------------------------------
(* Properties.                                                             *)

(* The compiler does what Driver says: its summary of lex(), the tokens of *)
(* a file and names behind those of the files before it, and of parse(),   *)
(* up to two names from the first on, is what Lexer and Parser make of the *)
(* text (a_c_compiler.cpp:203, 234).                                       *)
ImplementsDriver == D!Spec

(* So what is said of main() in Driver is true of the compiler: which      *)
(* files it processes with which status, what the output file holds, whose *)
(* names a parse gets, and what it dies of (a_c_compiler.cpp:185-245).     *)
DriverPromises ==
  /\ D!BitsAskedFor /\ D!FilesProcessed /\ D!ExitStatusExact
  /\ D!OutputFileHoldsLastFile /\ D!SourcesAsGiven /\ D!NamesComeFromFirstFile
  /\ D!NoUndefinedRead /\ D!AbortsExplained

(* What lex() has made of a file is the function of Lexing of its text, as *)
(* it was when opened: the dump's, once a dump has overwritten it, however *)
(* many files were lexed before (a_c_compiler.cpp:203, 216).               *)
LexAsContents ==
  lexPc = "done" => [toks |-> DumpTokens, names |-> ids] = D!Held(D!File)

(* Where char is signed, a compiler given no options and sources of        *)
(* ordinary declarations, lines that end in a ";" and hold no attribute,   *)
(* literal or comment, and no "(" but behind a name, gets through all of   *)
(* them: no loop of the lexer or the parser waits for ever, no read passes *)
(* the tokens, no assertion fails, and a name is there to be looked up.    *)
BehindName(t, i) ==
  /\ i > 1 /\ t[i - 1] \in L!Alpha
  /\ \A j \in 1..(i - 1) : SubSeq(t, j, i - 1) \notin DOMAIN KeywordOf
OrdinaryText(t) ==
  /\ Len(t) >= 2 /\ t[Len(t)] = "nl" /\ t[Len(t) - 1] = ";"
  /\ \A i \in DOMAIN t : t[i] \notin {"[", "quote", "/", "0", "1", ".", "ff"}
  /\ \A i \in DOMAIN t : t[i] = "(" => BehindName(t, i)
  /\ \A i \in DOMAIN t : \A j \in i..Len(t) :
       SubSeq(t, i, j) \in DOMAIN KeywordOf
         => KeywordOf[SubSeq(t, i, j)] \notin P!Unsupported \cup P!Modifiers
Ordinary(f) ==
  /\ f \in DOMAIN Sources \ (Directories \cup Unreadable)
  /\ f \notin D!HelpFlags \cup D!Flags \cup D!Options
  /\ OrdinaryText(Sources[f]) /\ Len(Contents[f].names) # 1
Simple == /\ signed /\ Len(args) <= limit
          /\ \A i \in DOMAIN args : Ordinary(args[i])
OrdinarySourcesCompile == Simple => <>(pc = "exited" /\ parsed = args)

(* What must not happen on the way there, whatever the order of the files: *)
(* lex() or parse() lost, an abort, an undefined read, a wait in the       *)
(* attribute list; and when main() returns, it has parsed every file, and  *)
(* says so (a_c_compiler.cpp:203, 234, 245).                               *)
OrdinarySourcesSurvive ==
  Simple =>
    /\ pc \notin {"stuck", "aborted", "undefined"} /\ parsePc # "attribute_list"
    /\ pc = "exited" => status = D!Success /\ parsed = args

(* Compiling ends, whatever the command line, the files and the build: it  *)
(* is at an argument or a file, in a stage of that file, and in lex() or   *)
(* parse() at what Lexer and Parser say they have left; no step raises one *)
(* of these but to lower one before it, so that only a wait in the         *)
(* attribute list, which is no step, can go on for ever                    *)
(* (a_c_compiler.cpp:104, 198; parse.cpp:308).                             *)
Stage == CASE pc = "loop"   -> IF lexPc = "idle" THEN 5 ELSE 4
           [] pc = "lexed"  -> 3
           [] pc = "dumped" -> IF parsePc = "idle" THEN 2 ELSE 1
           [] OTHER         -> 0
Within == IF lexPc # "idle" THEN L!Left ELSE IF parsePc # "idle" THEN P!Left ELSE 0
StepsLeft == IF D!Ended THEN <<0, 0, 0, 0>>
             ELSE IF pc = "args" THEN <<2, Len(args) + 1 - it, 0, 0>>
             ELSE <<1, Len(files) + 1 - cur, Stage, Within>>
Lower(x, y) == \E k \in 1..4 : x[k] < y[k] /\ \A j \in 1..(k - 1) : x[j] = y[j]
EachStepNearsTheEnd ==
  [][/\ {StepsLeft, StepsLeft'} \subseteq Nat \X Nat \X Nat \X Nat
     /\ Lower(StepsLeft', StepsLeft)]_vars
=============================================================================
