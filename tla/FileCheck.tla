----------------------------- MODULE FileCheck ------------------------------
(***************************************************************************)
(* main() of test/file_check/source/main.cpp, the tool that runs the tests *)
(* of the compiler: one run of it, from its arguments to its exit status.  *)
(* A step is one argument, one of the two files read, one match of the     *)
(* regular expression, or one check.                                       *)
(*                                                                         *)
(* A text is a sequence of characters; "CHECK:" and "CHECK-NEXT:" stand    *)
(* for as many characters as they have, "nl" for \v and " " for \h.        *)
(***************************************************************************)
EXTENDS Integers, Sequences, FiniteSetsExt

CONSTANTS
  Runs,      \* the command lines behind the name of the tool, each with the
             \* files that can be read |-> their text
  Inline     \* "--input-file=F" |-> F

InputFlags == {"--input-file", "--input-filename"}  \* they start with the first
Directives == {"CHECK:", "CHECK-NEXT:"}
Words      == {"/", "a", "b"} \cup Directives       \* neither \h nor \v
Chars      == Words \cup {" ", "nl"}

ASSUME FileCheckAssumption ==
  /\ "" \in STRING
  /\ \A f \in DOMAIN Inline : Inline[f] \in STRING
  /\ \A r \in Runs : /\ r.command \in Seq(STRING)
                      /\ "" \notin DOMAIN r.files
                      /\ \A f \in DOMAIN r.files : r.files[f] \in Seq(Chars)

VARIABLES
  command, files,  \* chosen at the start, never changed
  pc,
  arg,         \* argument_index
  inputName,   \* input_file_name
  appended,    \* the text appended to it
  input,       \* input, as the arguments it is made of
  matchFile,   \* match_file
  at,          \* where the next match is looked for
  chains,      \* check_chains; a check has the history field at, where in
               \* the match file its text stands
  chain,       \* current_check_chain_index
  check,       \* current_check_index
  rest,        \* where remaining_file starts
  code         \* the exit status

given  == <<command, files>>
inputs == <<inputName, appended, input>>
found  == <<at, chains>>
search == <<chain, check, rest>>
vars   == <<given, pc, arg, inputs, matchFile, found, search, code>>

Goto(p) == pc' = p
Exit(n) == pc' = "exited" /\ code' = n

-----------------------------------------------------------------------------
(* The arguments.  The first one names the match file.                     *)

NoArguments ==
  /\ pc = "args" /\ command = <<>>
  /\ Exit(127)
  /\ UNCHANGED <<given, arg, inputs, matchFile, found, search>>

Arg == command[arg]
Reading == pc = "args" /\ command # <<>> /\ arg <= Len(command)

InlineInput ==
  /\ Reading /\ Arg \in DOMAIN Inline
  /\ inputName' = Inline[Arg] /\ arg' = arg + 1
  /\ UNCHANGED <<given, pc, appended, input, matchFile, found, search, code>>

(* Whatever starts with --input-file takes the next argument.              *)
InputOption ==
  /\ Reading /\ Arg \in InputFlags \ DOMAIN Inline
  /\ \/ /\ arg = Len(command)
        /\ Exit(125) /\ UNCHANGED <<arg, inputName>>
     \/ /\ arg < Len(command)
        /\ inputName' = command[arg + 1] /\ arg' = arg + 2
        /\ UNCHANGED <<pc, code>>
  /\ UNCHANGED <<given, appended, input, matchFile, found, search>>

Verbose ==
  /\ Reading /\ Arg = "--verbose"
  /\ arg' = arg + 1
  /\ UNCHANGED <<given, pc, inputs, matchFile, found, search, code>>

(* "--" and the first argument that is no option end the options.          *)
OptionsEnd ==
  /\ pc = "args" /\ command # <<>>
  /\ \/ arg > Len(command) /\ UNCHANGED arg
     \/ arg <= Len(command) /\ Arg = "--" /\ arg' = arg + 1
     \/ /\ arg <= Len(command)
        /\ Arg \notin DOMAIN Inline \cup InputFlags \cup {"--", "--verbose"}
        /\ UNCHANGED arg
  /\ Goto("match_file")
  /\ UNCHANGED <<given, inputs, matchFile, found, search, code>>

-----------------------------------------------------------------------------
(* The files.                                                              *)

ReadMatchFile ==
  /\ pc = "match_file"
  /\ \/ /\ command[1] \in DOMAIN files
        /\ matchFile' = files[command[1]] /\ Goto("input_file") /\ UNCHANGED code
     \/ /\ command[1] \notin DOMAIN files
        /\ Exit(63) /\ UNCHANGED matchFile
  /\ UNCHANGED <<given, arg, inputs, found, search>>

(* What the input file holds is appended to its name.                      *)
ReadInput ==
  /\ pc = "input_file"
  /\ \/ /\ inputName = ""
        /\ input' = SubSeq(command, arg, Len(command))
        /\ Goto("scan") /\ UNCHANGED <<appended, code>>
     \/ /\ inputName \in DOMAIN files
        /\ appended' = files[inputName]
        /\ Goto("scan") /\ UNCHANGED <<input, code>>
     \/ /\ inputName \notin {""} \cup DOMAIN files
        /\ Exit(62) /\ UNCHANGED <<appended, input>>
  /\ UNCHANGED <<given, arg, inputName, matchFile, found, search>>

-----------------------------------------------------------------------------
(* The regular expression //\h*+(?:CHECK(-NEXT)?):\h*+([^\v]++)\v++        *)

Char(i) == IF i \in DOMAIN matchFile THEN matchFile[i] ELSE "end"
(* The first position from i on that holds none of the characters.         *)
Past(i, chars) == CHOOSE j \in i..(Len(matchFile) + 1) :
                    Char(j) \notin chars /\ \A k \in i..(j - 1) : Char(k) \in chars

DirectiveAt(i) == Past(i + 2, {" "})
TextAt(i)      == Past(DirectiveAt(i) + 1, {" "})
TextEnd(i)     == Past(TextAt(i), Words \cup {" "})
MatchEnd(i)    == Past(TextEnd(i), {"nl"})
MatchesAtEnd(i) == /\ Char(i) = "/" /\ Char(i + 1) = "/"             \* mutant
                   /\ Char(DirectiveAt(i)) \in Directives
                   /\ Char(TextAt(i)) \in Words
Matches(i) == /\ Char(i) = "/" /\ Char(i + 1) = "/"
              /\ Char(DirectiveAt(i)) \in Directives
              /\ Char(TextAt(i)) \in Words
              /\ Char(TextEnd(i)) = "nl"
MatchesFrom(i) == {j \in i..Len(matchFile) : Matches(j)}

Check(i) == [style |-> Char(DirectiveAt(i)), at |-> TextAt(i),
             text |-> SubSeq(matchFile, TextAt(i), TextEnd(i) - 1)]

(* A CHECK begins a chain, a CHECK-NEXT continues the last one.            *)
ChainedAlone(c) == chains' = Append(chains, <<c>>)                   \* mutant
Chained(c) == \/ /\ c.style = "CHECK:"
                 /\ chains' = Append(chains, <<c>>)
              \/ /\ c.style = "CHECK-NEXT:"
                 /\ chains' = [chains EXCEPT ![Len(chains)] = Append(@, c)]
UnchainedNever(c) == FALSE                                           \* mutant
Unchained(c) == c.style = "CHECK-NEXT:" /\ chains = <<>>

SkipMatch(i) == at' = MatchEnd(i) + 1                                \* mutant
Behind(i)    == at' = MatchEnd(i)
FindDirective ==
  /\ pc = "scan"
  /\ \E i \in MatchesFrom(at) :
     /\ \A j \in MatchesFrom(at) : i <= j
     /\ \/ /\ Unchained(Check(i))
           /\ Exit(61) /\ UNCHANGED found
        \/ /\ ~Unchained(Check(i))
           /\ Chained(Check(i)) /\ Behind(i)
           /\ UNCHANGED <<pc, code>>
  /\ UNCHANGED <<given, arg, inputs, matchFile, search>>

NoMoreDirectives ==
  /\ pc = "scan" /\ MatchesFrom(at) = {}
  /\ Goto("checks")
  /\ UNCHANGED <<given, arg, inputs, matchFile, found, search, code>>

-----------------------------------------------------------------------------
(* The checks.  Each chain searches the match file from its start.         *)

Current == chains[chain][check]
Occurrences(text, from) ==
  {i \in from..(Len(matchFile) + 1 - Len(text)) :
     SubSeq(matchFile, i, i + Len(text) - 1) = text}

RestBehindLast(text) == rest' = Max(Occurrences(text, rest)) + Len(text) \* mutant
RestBehind(text)     == rest' = Min(Occurrences(text, rest)) + Len(text)

RunCheck ==
  /\ pc = "checks" /\ chain <= Len(chains) /\ check <= Len(chains[chain])
  /\ \/ /\ Occurrences(Current.text, rest) = {}
        /\ Exit(1) /\ UNCHANGED <<check, rest>>
     \/ /\ Occurrences(Current.text, rest) # {}
        /\ RestBehind(Current.text) /\ check' = check + 1
        /\ UNCHANGED <<pc, code>>
  /\ UNCHANGED <<given, arg, inputs, matchFile, found, chain>>

SameChain      == UNCHANGED chain                                    \* mutant
FollowingChain == chain' = chain + 1
NextChain ==
  /\ pc = "checks" /\ chain <= Len(chains) /\ check > Len(chains[chain])
  /\ FollowingChain /\ check' = 1 /\ rest' = 1
  /\ UNCHANGED <<given, pc, arg, inputs, matchFile, found, code>>

Return ==
  /\ pc = "checks" /\ chain > Len(chains)
  /\ Exit(0)
  /\ UNCHANGED <<given, arg, inputs, matchFile, found, search>>

-----------------------------------------------------------------------------
Init ==
  /\ \E r \in Runs : command = r.command /\ files = r.files
  /\ pc = "args" /\ arg = 2
  /\ inputName = "" /\ appended = <<>> /\ input = <<>> /\ matchFile = <<>>
  /\ at = 1 /\ chains = <<>>
  /\ chain = 1 /\ check = 1 /\ rest = 1
  /\ code = 0

Next ==
  \/ NoArguments \/ InlineInput \/ InputOption \/ Verbose \/ OptionsEnd
  \/ ReadMatchFile \/ ReadInput \/ FindDirective \/ NoMoreDirectives
  \/ RunCheck \/ NextChain \/ Return

Spec == Init /\ [][Next]_vars

(* The tool runs alone, on one thread, and waits for nothing.              *)
FairSpec == Spec /\ WF_vars(Next)
-----------------------------------------------------------------------------
(* Properties.                                                             *)

Checks == [style : Directives, at : Nat, text : Seq(Chars)]

(* The state of the tool has its types; searching never leaves the match   *)
(* file.                                                                   *)
TypeOK ==
  /\ command \in Seq(STRING) /\ \A f \in DOMAIN files : files[f] \in Seq(Chars)
  /\ pc \in {"args", "match_file", "input_file", "scan", "checks", "exited"}
  /\ arg \in Nat /\ inputName \in STRING /\ appended \in Seq(Chars)
  /\ input \in Seq(STRING) /\ matchFile \in Seq(Chars)
  /\ at \in 1..(Len(matchFile) + 1)
  /\ chains \in Seq(Seq(Checks))
  /\ chain \in Nat /\ check \in Nat /\ rest \in 1..(Len(matchFile) + 1)
  /\ code \in {0, 1, 61, 62, 63, 125, 127}

(* The checks of a chain "progress in a linear order" (main.cpp:160-163):  *)
(* each looks behind what the one before it has found, from the start of   *)
(* the file for the first, and finds as early a place as it can            *)
(* (main.cpp:194, 205, 223).  So the rest begins where the texts done so   *)
(* far, one behind the other, end at the earliest; no other choice of      *)
(* places would leave more of the file to the checks that follow.          *)
EndAt(p, n)   == IF n = 0 THEN 1 ELSE p[n] + Len(chains[chain][n].text)
InOrder(p, n) ==
  \A k \in 1..n : p[k] \in Occurrences(chains[chain][k].text, EndAt(p, k - 1))
Placements(n) == {p \in [1..n -> 1..(Len(matchFile) + 1)] : InOrder(p, n)}
EarliestPlaces ==
  pc = "checks" /\ chain <= Len(chains) =>
    LET n == check - 1
    IN /\ \E p \in Placements(n) : rest = EndAt(p, n)
       /\ \A p \in Placements(n) : rest <= EndAt(p, n)

(* The directives are the ones of the lines of the match file: in each     *)
(* line that ends in a newline the first // CHECK with a text, none that   *)
(* the possessive \h*+ or a previous match (\v++) could take from the next *)
(* line; in the order of the lines; and those of a chain are a CHECK and   *)
(* CHECK-NEXTs behind it (main.cpp:171-210).                               *)
TextStarts ==
  {p \in DOMAIN matchFile :
     /\ Char(p) \in Words
     /\ \E e \in DOMAIN matchFile : e > p /\ Char(e) = "nl"
     /\ \E d \in 3..(p - 1) :
          /\ Char(d) \in Directives
          /\ \A j \in (d + 1)..(p - 1) : Char(j) = " "
          /\ \E i \in 1..(d - 2) : /\ Char(i) = "/" /\ Char(i + 1) = "/"
                                   /\ \A j \in (i + 2)..(d - 1) : Char(j) = " "}
FirstOfLines(S) ==
  {p \in S : \A q \in S : q < p => \E e \in q..p : Char(e) = "nl"}
DirectiveTexts == FirstOfLines(TextStarts)
LineFrom(p) == SubSeq(matchFile, p, Past(p, Chars \ {"nl"}) - 1)

Places == {s \in (DOMAIN chains) \X (1..Len(matchFile)) : s[2] \in DOMAIN chains[s[1]]}
Precedes(s, t) == s[1] < t[1] \/ (s[1] = t[1] /\ s[2] < t[2])
CheckAt(s) == chains[s[1]][s[2]]
DirectivesExact ==
  /\ pc = "checks" \/ (pc = "exited" /\ code \in {0, 1}) =>
       {CheckAt(s).at : s \in Places} = DirectiveTexts
  /\ \A s \in Places : /\ CheckAt(s).text = LineFrom(CheckAt(s).at)
                       /\ CheckAt(s).style = "CHECK:" <=> s[2] = 1
                       /\ \A t \in Places : Precedes(s, t) => CheckAt(s).at < CheckAt(t).at

(* The tool refuses a match file exactly when its first directive is a     *)
(* CHECK-NEXT (main.cpp:178-185).                                          *)
StyleOf(p) == Char(Max({d \in 1..(p - 1) : Char(d) # " "}))
NextNeedsCheck ==
  pc = "exited" /\ code \in {0, 1, 61} =>
    (code = 61 <=> DirectiveTexts # {} /\ StyleOf(Min(DirectiveTexts)) = "CHECK-NEXT:")

(* A run of the tool ends, whatever its arguments and files are.           *)
ToolEnds == <>(pc = "exited")

-----------------------------------------------------------------------------
(* A statement of a message.                                               *)

(* main.cpp:144-152: the tool tells of the input data, the contents of the *)
(* input file, "that will be checked with directives found within file"    *)
(* the match file: when it reports success, the text of each check is in   *)
(* that input.                                                             *)
Holds(t, text) ==
  \E i \in 1..(Len(t) + 1 - Len(text)) : SubSeq(t, i, i + Len(text) - 1) = text
ChecksSearchTheInput ==
  pc = "exited" /\ code = 0 /\ inputName # "" =>
    \A s \in Places : Holds(appended, CheckAt(s).text)
=============================================================================
