---------------------------- MODULE DriverProofs ----------------------------
(***************************************************************************)
(* What holds of Driver for all command lines, source files and build      *)
(* options.                                                                *)
(***************************************************************************)
EXTENDS Driver, MinTheorems, SequenceTheorems

(* What an argument is.                                                    *)
LEMMA ArgumentHere ==
  ASSUME TypeOK, Reading
  PROVE  /\ Arg \in STRING /\ it \in 1..Len(args) /\ Len(args) \in Nat
         /\ it < Len(args) => args[it + 1] \in STRING
BY SMTT(30) DEF TypeOK, Reading, Arg

LEMMA HeldContent ==
  ASSUME NEW f, Opens(f)
  PROVE  Held(f) \in Content
<1>1. DumpContent \in Content /\ \A g \in DOMAIN Contents : Contents[g] \in Content
  BY DriverAssumption DEF DriverConstants, LexedConstants
<1>2. [toks |-> <<>>, names |-> <<>>] \in Content
  BY DEF Content
<1>3. f \notin Hidden
  BY DriverAssumption DEF DriverConstants, SystemConstants, Opens
<1>4. QED
  BY <1>1, <1>2, <1>3 DEF Opens, Missing, Absent, Held, Original

-----------------------------------------------------------------------------
(* Counting the id tokens.                                                 *)

LEMMA IdIndexBounds ==
  ASSUME TypeOK, NEW k \in DOMAIN toks
  PROVE  /\ IdIndex(k) \in Nat
         /\ toks[k] = "id" => IdIndex(k) >= 1
         /\ IdIndex(k) <= Cardinality({j \in DOMAIN toks : toks[j] = "id"})
         /\ Cardinality({j \in DOMAIN toks : toks[j] = "id"}) \in Nat
<1> DEFINE S == {j \in 1..k : toks[j] = "id"}
           T == {j \in DOMAIN toks : toks[j] = "id"}
<1>1. DOMAIN toks = 1..Len(toks) /\ Len(toks) \in Nat
  BY DEF TypeOK
<1>2. IsFiniteSet(1..Len(toks)) /\ IsFiniteSet(1..k)
  BY <1>1, FS_Interval
<1>3. T \subseteq 1..Len(toks) /\ S \subseteq T
  BY <1>1
<1>4. IsFiniteSet(T) /\ IsFiniteSet(S) /\ Cardinality(S) <= Cardinality(T)
      /\ Cardinality(S) \in Nat /\ Cardinality(T) \in Nat
  BY <1>2, <1>3, FS_Subset, FS_CardinalityType
<1>5. toks[k] = "id" => Cardinality(S) # 0
  <2>1. toks[k] = "id" => k \in S
    BY <1>1
  <2>2. QED
    BY <2>1, <1>4, FS_EmptySet
<1>6. QED
  BY <1>4, <1>5 DEF IdIndex

LEMMA DumpLinesType ==
  ASSUME TypeOK, cur <= Len(files), ~DumpReadsPastEnd
  PROVE  DumpLines \in Seq(Lines)
<1>1. DOMAIN toks = 1..Len(toks) /\ Len(toks) \in Nat /\ File \in STRING
  BY DEF TypeOK, File
<1>2. ASSUME NEW k \in DOMAIN toks
      PROVE  NameLine(k) \in Lines
  <2>1. toks[k] \in TokenKinds
    BY <1>1 DEF TypeOK
  <2>2. toks[k] = "id" => lexedIds[IdIndex(k)] \in Names
    <3>1. IdIndex(k) \in Nat /\ (toks[k] = "id" => IdIndex(k) >= 1)
      BY IdIndexBounds
    <3>2. lexedIds \in Seq(Names)
      BY DEF TypeOK
    <3>3. toks[k] = "id" => IdIndex(k) \in 1..Len(lexedIds)
      BY <3>1, <3>2 DEF DumpReadsPastEnd
    <3>4. QED
      BY <3>2, <3>3
  <2>3. QED
    BY <1>1, <2>1, <2>2 DEF NameLine, Lines
<1>3. QED
  BY <1>1, <1>2 DEF DumpLines

-----------------------------------------------------------------------------
(* The loop runs over existing positions.                                  *)
InLoop == pc \in {"lexed", "dumped", "parsed"} => cur <= Len(files)

LEMMA TypeStep ==
  ASSUME TypeOK, InLoop, [Next]_vars
  PROVE  TypeOK' /\ InLoop'
<1> USE DEF Goto, Exit, FailedAssert, Success, Failure, InLoop
<1>1. CASE UNCHANGED vars
  BY <1>1 DEF vars, given, options, session, history, TypeOK, Lines, Content
<1>2. CASE Help
  BY <1>2 DEF Help, given, options, history, TypeOK, Reading
<1>3. CASE Flag
  <2>1. flags' \subseteq Flags /\ bits' \subseteq (0..31) \X (0..63) /\ it' \in 1..(Len(args) + 1)
    <3>1. flags' \subseteq Flags /\ it' \in 1..(Len(args) + 1)
      BY <1>3, ArgumentHere DEF Flag, TypeOK, NextArgument
    <3>2. bits' = bits \/ bits' = bits \cup {<<1, 1>>}
      BY <1>3 DEF Flag, SetFeatureFlag, Shifted
    <3>3. bits \subseteq (0..31) \X (0..63) /\ <<1, 1>> \in (0..31) \X (0..63)
      BY DEF TypeOK
    <3>4. QED BY <3>1, <3>2, <3>3
  <2>2. QED
    BY <1>3, <2>1 DEF Flag, given, session, history, TypeOK, Reading
<1>4. CASE Option
  <2>1. it + 2 \in 1..(Len(args) + 1) /\ args[it + 1] \in STRING /\ Arg \in Options
    <3>1. Reading /\ Arg \in Options /\ it < Len(args)
      BY <1>4 DEF Option
    <3>2. QED BY <3>1, ArgumentHere
  <2>2. vals' \in [Options -> STRING]
    BY <1>4, <2>1 DEF Option, TypeOK
  <2>3. bits' \subseteq (0..31) \X (0..63) /\ pc' \in {"args", "aborted"}
    <3>1. \A v \in DOMAIN FlagBits : FlagBits[v][1] \in 0..31 /\ FlagBits[v][2] \in 0..31
      BY DriverAssumption DEF DriverConstants, SystemConstants
    <3>2. \A b \in 0..31 : Shifted(b) \subseteq 0..63
      BY DEF Shifted
    <3>3. ASSUME NEW v, HandleFeatureFlag(v)
          PROVE  bits' \subseteq (0..31) \X (0..63) /\ pc' \in {pc, "aborted"}
      <4>1. CASE v \in DOMAIN FlagBits /\ (asserts => v \notin Commaless)
        <5>1. \A b \in Shifted(FlagBits[v][2]) :
                <<FlagBits[v][1], b>> \in (0..31) \X (0..63)
          BY <3>1, <3>2, <4>1
        <5>2. QED
          BY <3>3, <4>1, <5>1 DEF HandleFeatureFlag, SetFeatureFlag, TypeOK
      <4>2. CASE v \notin DOMAIN FlagBits \/ (asserts /\ v \in Commaless)
        BY <3>3, <4>2 DEF HandleFeatureFlag, TypeOK
      <4>3. QED BY <4>1, <4>2
    <3>4. QED
      BY <1>4, <3>3 DEF Option, TypeOK, Reading
  <2>4. QED
    BY <1>4, <2>1, <2>2, <2>3 DEF Option, given, session, history, TypeOK
<1>5. CASE OptionWithoutValue
  BY <1>5 DEF OptionWithoutValue, given, options, session, history, TypeOK
<1>6. CASE Positional
  <2>1. files' \in Seq(STRING) /\ Len(files') = Len(files) + 1 /\ it' \in 1..(Len(args) + 1)
    BY <1>6, ArgumentHere, SMTT(30) DEF Positional, TypeOK, NextArgument
  <2>2. cur \in 1..(Len(files') + 1)
    BY <2>1 DEF TypeOK
  <2>3. QED
    BY <1>6, <2>1, <2>2 DEF Positional, given, session, history, TypeOK, Reading
<1>7. CASE CheckFiles
  BY <1>7 DEF CheckFiles, given, options, session, history, TypeOK
<1>8. CASE Lex
  <2>1. CASE Opens(File)
    <3>1. Held(File) \in Content /\ File \in STRING
      BY <1>8, <2>1, HeldContent DEF Lex, File, TypeOK, Opens
    <3>2. /\ toks' \in Seq(TokenKinds)
          /\ lexedIds' \in Seq(Names)
          /\ lexed' \in Seq([file : STRING, content : Content])
      <4>1. Held(File).toks \in Seq(TokenKinds) /\ Held(File).names \in Seq(Names)
        BY <3>1 DEF Content
      <4>2. [file |-> File, content |-> Held(File)] \in [file : STRING, content : Content]
        BY <3>1
      <4>3. /\ toks' = Held(File).toks
            /\ lexedIds' = lexedIds \o Held(File).names
            /\ lexed' = Append(lexed, [file |-> File, content |-> Held(File)])
        BY <1>8, <2>1 DEF Lex, LexFile
      <4>4. lexedIds \in Seq(Names) /\ lexed \in Seq([file : STRING, content : Content])
        BY DEF TypeOK
      <4>5. QED
        BY <4>1, <4>2, <4>3, <4>4
    <3>3. QED
      BY <1>8, <2>1, <3>2 DEF Lex, given, options, TypeOK
  <2>2. CASE ~Opens(File)
    BY <1>8, <2>2 DEF Lex, given, options, history, TypeOK
  <2>3. QED BY <2>1, <2>2
<1>9. CASE Dump
  <2>1. out' \in [stdout : Seq(Lines), file : Seq(Lines), opened : BOOLEAN]
    <3>1. CASE UNCHANGED out
      BY <3>1 DEF TypeOK
    <3>2. CASE ~UNCHANGED out
      <4>1. DumpLines \in Seq(Lines)
        BY <1>9, <3>2, DumpLinesType DEF Dump
      <4>2. out.stdout \o DumpLines \in Seq(Lines)
        BY <4>1 DEF TypeOK
      <4>3. \/ out' = [out EXCEPT !.stdout = out.stdout \o DumpLines]
            \/ out' = [out EXCEPT !.file = DumpLines, !.opened = TRUE]
        BY <1>9, <3>2 DEF Dump, WriteFile
      <4>4. QED
        BY <4>1, <4>2, <4>3 DEF TypeOK
    <3>3. QED BY <3>1, <3>2
  <2>2. pc' \in {"dumped", "undefined", "aborted"} /\ failedOutput' \in BOOLEAN
    BY <1>9 DEF Dump, TypeOK
  <2>3. QED
    BY <1>9, <2>1, <2>2 DEF Dump, given, options, TypeOK
<1>10. CASE NoDump
  BY <1>10 DEF NoDump, given, options, session, history, TypeOK
<1>11. CASE StopAfterLex \/ StopAfterParse
  BY <1>11 DEF StopAfterLex, StopAfterParse, ExitWithLexerStatus, given, options, history, TypeOK
<1>12. CASE Parse
  <2>1. lookups' \in Seq(Lines) /\ parsed' \in Seq(STRING)
    <3>1. File \in STRING
      BY <1>12 DEF Parse, File, TypeOK
    <3>2. ASSUME NEW n \in 0..2, n <= Len(lexedIds)
          PROVE  [k \in 1..n |-> [file |-> File, text |-> lexedIds[k]]] \in Seq(Lines)
      BY <3>1, <3>2 DEF TypeOK, Lines
    <3>3. QED
      <4>1. PICK n \in 0..2 :
              \/ UNCHANGED <<parsed, lookups>>
              \/ /\ n <= Len(lexedIds)
                 /\ lookups' = lookups \o [k \in 1..n |-> [file |-> File, text |-> lexedIds[k]]]
                 /\ parsed' = Append(parsed, File)
        BY <1>12 DEF Parse
      <4>2. lookups \in Seq(Lines) /\ parsed \in Seq(STRING)
        BY DEF TypeOK
      <4>3. CASE UNCHANGED <<parsed, lookups>>
        BY <4>2, <4>3
      <4>4. CASE ~UNCHANGED <<parsed, lookups>>
        <5>1. [k \in 1..n |-> [file |-> File, text |-> lexedIds[k]]] \in Seq(Lines)
          BY <3>2, <4>1, <4>4
        <5>2. lookups' \in Seq(Lines)
          BY <4>1, <4>2, <4>4, <5>1, ConcatProperties, ZenonT(60)
        <5>3. parsed' \in Seq(STRING)
          <6>1. parsed' = Append(parsed, File)
            BY <4>1, <4>4
          <6>2. QED
            BY <3>1, <4>2, <6>1, AppendProperties
        <5>4. QED BY <5>2, <5>3
      <4>5. QED BY <4>3, <4>4
  <2>2. QED
    BY <1>12, <2>1 DEF Parse, given, options, TypeOK
<1>13. CASE NextFile
  BY <1>13 DEF NextFile, given, options, history, TypeOK
<1>14. CASE Return
  BY <1>14 DEF Return, given, options, history, TypeOK
<1>15. CASE NoReturn
  BY <1>15 DEF NoReturn, given, options, session, history, TypeOK
<1>16. QED
  BY <1>1, <1>2, <1>3, <1>4, <1>5, <1>6, <1>7, <1>8, <1>9, <1>10, <1>11,
     <1>12, <1>13, <1>14, <1>15 DEF Next

(* The state of the driver has its types.                                  *)
THEOREM TypeCorrect == Spec => []TypeOK
<1>1. Init => TypeOK /\ InLoop
  <2>1. <<>> \in Seq(STRING) /\ <<>> \in Seq(TokenKinds) /\ <<>> \in Seq(Lines)
        /\ <<>> \in Seq([file : STRING, content : Content]) /\ <<>> \in Seq(Names)
    OBVIOUS
  <2>2. Init => args \in Seq(STRING) /\ asserts \in BOOLEAN /\ limit \in Nat
    BY DriverAssumption DEF DriverConstants, SystemConstants, Init
  <2>3. QED
    <3> SUFFICES ASSUME Init PROVE TypeOK /\ InLoop
      OBVIOUS
    <3>2. vals \in [Options -> STRING]
      BY DriverAssumption DEF DriverConstants, SystemConstants, Init
    <3>3. out \in [stdout : Seq(Lines), file : Seq(Lines), opened : BOOLEAN]
      BY <2>1 DEF Init
    <3>4. it \in 1..(Len(args) + 1)
      <4>1. Len(args) \in Nat /\ it = 1
        BY <2>2, LenProperties DEF Init
      <4>2. QED
        BY <4>1
    <3>5. cur \in 1..(Len(files) + 1) /\ files \in Seq(STRING)
      <4>1. files = <<>> /\ cur = 1
        BY DEF Init
      <4>2. QED
        BY <4>1
    <3>6. bits \subseteq (0..31) \X (0..63) /\ flags \subseteq Flags /\ pc = "args"
      BY DEF Init
    <3>7. toks \in Seq(TokenKinds) /\ lexedIds \in Seq(Names)
          /\ lexed \in Seq([file : STRING, content : Content])
          /\ parsed \in Seq(STRING) /\ lookups \in Seq(Lines)
      BY <2>1 DEF Init
    <3>8. failedOutput \in BOOLEAN /\ status \in {Success, Failure}
      BY DEF Init, Success, Failure
    <3>9. QED
      BY <2>2, <3>2, <3>3, <3>4, <3>5, <3>6, <3>7, <3>8 DEF TypeOK, InLoop
<1>2. TypeOK /\ InLoop /\ [Next]_vars => (TypeOK /\ InLoop)'
  BY TypeStep
<1>3. QED
  BY <1>1, <1>2, PTL DEF Spec

-----------------------------------------------------------------------------
(* The arguments: where parse_args stands, no value of an option stands.   *)

LEMMA ValueStep ==
  ASSUME NEW i \in Nat, i >= 1
  PROVE  IsValue(i + 1) <=> args[i] \in Options /\ ~IsValue(i)
<1>1. ASSUME IsValue(i + 1), IsValue(i)
      PROVE  FALSE
  <2>1. PICK j \in 1..i : OptionRun(j, i + 1) /\ (i + 1 - j) % 2 = 1
    BY <1>1 DEF IsValue
  <2>2. PICK h \in 1..(i - 1) : OptionRun(h, i) /\ (i - h) % 2 = 1
    BY <1>1 DEF IsValue
  <2>3. j < i
    <3>1. CASE j = i
      <4>1. args[i - 1] \notin Options
        BY <2>1, <2>2, <3>1 DEF OptionRun
      <4>2. args[i - 1] \in Options
        BY <2>2 DEF OptionRun
      <4>3. QED BY <4>1, <4>2
    <3>2. QED BY <2>1, <3>1
  <2>4. \A k \in j..(i - 1) : args[k] \in Options
    BY <2>1, <2>3 DEF OptionRun
  <2>5. ~(j < h) /\ ~(h < j)
    <3>1. j < h => h - 1 \in j..(i - 1) /\ h > 1
      BY <2>1, <2>2
    <3>2. h < j => j - 1 \in h..(i - 1) /\ j > 1
      BY <2>1, <2>2
    <3>3. QED
      BY <2>1, <2>2, <2>4, <3>1, <3>2 DEF OptionRun
  <2>6. QED
    BY <2>1, <2>2, <2>5
<1>2. ASSUME IsValue(i + 1)
      PROVE  args[i] \in Options
  BY <1>2 DEF IsValue, OptionRun
<1>3. ASSUME args[i] \in Options, ~IsValue(i)
      PROVE  IsValue(i + 1)
  <2>1. CASE i = 1 \/ args[i - 1] \notin Options
    <3>1. OptionRun(i, i + 1) /\ (i + 1 - i) % 2 = 1
      BY <1>3, <2>1 DEF OptionRun
    <3>2. QED
      BY <3>1 DEF IsValue
  <2>2. CASE i > 1 /\ args[i - 1] \in Options
    <3> DEFINE Starts == {j \in 1..(i - 1) : \A k \in j..(i - 1) : args[k] \in Options}
    <3>1. Starts \in SUBSET Nat /\ Starts # {}
      <4>1. i - 1 \in Starts
        BY <2>2
      <4>2. QED
        BY <4>1
    <3>2. PICK j \in Starts : \A h \in Starts : j <= h
      BY <3>1, MinIsLeast, ZenonT(60)
    <3>3. OptionRun(j, i) /\ OptionRun(j, i + 1)
      <4>1. j > 1 => args[j - 1] \notin Options
        <5>1. SUFFICES ASSUME j > 1, args[j - 1] \in Options PROVE FALSE
          OBVIOUS
        <5>2. j - 1 \in Starts
          BY <5>1
        <5>3. QED
          BY <3>2, <5>2
      <4>2. QED
        BY <1>3, <4>1 DEF OptionRun
    <3>4. j \in 1..(i - 1) /\ (i - j) % 2 # 1
      BY <1>3, <3>3 DEF IsValue
    <3>5. (i + 1 - j) % 2 = 1
      BY <3>4
    <3>6. QED
      BY <3>3, <3>4, <3>5 DEF IsValue
  <2>3. QED
    BY <2>1, <2>2
<1>4. QED
  BY <1>1, <1>2, <1>3

(* The values -fset-feature-flag can have had.                             *)
FlagValues == {"0,0x0"} \cup ValuesGiven(SetFlag)
ArgumentsRead ==
  /\ BitsAskedFor
  /\ vals[SetFlag] \in FlagValues
  /\ pc = "args" => ~IsValue(it)

(* Setting the bit of -fdebug-parser, or all those of a value.             *)
LEMMA BitsSet ==
  ASSUME BitsAskedFor, FlagValues' = FlagValues, flags \subseteq flags', NEW S,
         bits' = bits \cup S,
         \/ S = {}
         \/ S = {<<1, 1>>} /\ flags' \cap DebugParserFlags # {}
         \/ \E v \in DOMAIN FlagBits \cap FlagValues : S = BitsOf(v)
  PROVE  BitsAskedFor'
<1>1. SUFFICES ASSUME NEW p \in bits'
               PROVE  \/ p = <<1, 1>> /\ flags' \cap DebugParserFlags # {}
                      \/ \E v \in DOMAIN FlagBits \cap FlagValues :
                           p \in BitsOf(v) /\ BitsOf(v) \subseteq bits'
  BY DEF BitsAskedFor, FlagValues, BitsOf
<1>2. CASE p \in bits
  BY <1>2 DEF BitsAskedFor, FlagValues
<1>3. CASE p \in S
  BY <1>3
<1>4. QED
  BY <1>1, <1>2, <1>3

LEMMA ArgumentsStep ==
  ASSUME TypeOK, ArgumentsRead, [Next]_vars
  PROVE  ArgumentsRead'
<1>1. args' = args /\ \A i \in Nat : IsValue(i)' <=> IsValue(i)
  BY DEF Next, vars, given, Help, Flag, Option, OptionWithoutValue, Positional,
     CheckFiles, Lex, Dump, NoDump, StopAfterLex, Parse, StopAfterParse,
     NextFile, Return, NoReturn, IsValue, OptionRun
<1>a. FlagValues' = FlagValues
  <2>1. {j \in 1..(Len(args) - 1) : args[j] = SetFlag /\ ~IsValue(j)}' =
        {j \in 1..(Len(args) - 1) : args[j] = SetFlag /\ ~IsValue(j)}
    BY <1>1
  <2>2. QED
    BY <1>1, <2>1, Zenon DEF FlagValues, ValuesGiven
<1>b. BitsAskedFor /\ vals[SetFlag] \in FlagValues
  BY DEF ArgumentsRead
<1>2. CASE Flag
  <2>1. BitsAskedFor'
    <3>1. CASE Arg \in DebugParserFlags
      <4>1. bits' = bits \cup {<<1, 1>>} /\ flags \subseteq flags' /\ Arg \in flags'
        BY <1>2, <3>1 DEF Flag, SetFeatureFlag, Shifted
      <4>2. QED
        BY <1>a, <1>b, <3>1, <4>1, BitsSet
    <3>2. CASE Arg \notin DebugParserFlags
      <4>1. bits' = bits \cup {} /\ flags \subseteq flags'
        BY <1>2, <3>2 DEF Flag
      <4>2. QED
        BY <1>a, <1>b, <4>1, BitsSet
    <3>3. QED BY <3>1, <3>2
  <2>2. ~IsValue(it + 1)
    <3>1. Arg \notin Options
      BY <1>2 DEF Flag, Flags, Options, VerboseFlags, DebugLexerFlags, DebugParserFlags,
         SetFlag, StopAt, LexOut
    <3>2. it \in Nat /\ it >= 1 /\ args[it] \notin Options
      BY <1>2, <3>1, ArgumentHere DEF Flag, Arg
    <3>3. QED
      BY <3>2, ValueStep
  <2>3. QED
    BY <1>1, <1>2, <1>a, <1>b, <2>1, <2>2, ArgumentHere DEF Flag, NextArgument, ArgumentsRead
<1>3. CASE Option
  <2>1. it \in Nat /\ it >= 1 /\ args[it] \in Options /\ ~IsValue(it) /\ it + 1 \in DOMAIN args
    BY <1>3, ArgumentHere DEF Option, Arg, ArgumentsRead, TypeOK, Reading
  <2>2. ~IsValue(it + 1 + 1)
    <3>1. IsValue(it + 1)
      BY <2>1, ValueStep
    <3>2. QED
      BY <2>1, <3>1, ValueStep
  <2>3. vals'[SetFlag] \in FlagValues
    <3>1. CASE Arg = SetFlag
      <4>1. vals'[SetFlag] = args[it + 1]
        BY <1>3, <3>1 DEF Option, TypeOK
      <4>2. it \in 1..(Len(args) - 1)
        BY <1>3, <2>1, ArgumentHere DEF Option
      <4>3. QED
        BY <2>1, <3>1, <4>1, <4>2 DEF FlagValues, ValuesGiven, Arg
    <3>2. CASE Arg # SetFlag
      BY <1>3, <1>b, <3>2 DEF Option, TypeOK
    <3>3. QED BY <3>1, <3>2
  <2>4. BitsAskedFor'
    <3>1. CASE UNCHANGED bits
      <4>1. bits' = bits \cup {} /\ flags \subseteq flags'
        BY <1>3, <3>1 DEF Option
      <4>2. QED
        BY <1>a, <1>b, <4>1, BitsSet
    <3>2. CASE ~UNCHANGED bits
      <4> DEFINE w == vals'[SetFlag]
      <4>1. HandleFeatureFlag(w)
        BY <1>3, <3>2 DEF Option
      <4>2. /\ w \in DOMAIN FlagBits
            /\ bits' = bits \cup {<<FlagBits[w][1], b>> : b \in Shifted(FlagBits[w][2])}
        BY <4>1, <3>2 DEF HandleFeatureFlag, SetFeatureFlag
      <4>3. bits' = bits \cup BitsOf(w) /\ flags \subseteq flags'
        BY <1>3, <4>2 DEF BitsOf, Shifted, Option
      <4>4. QED
        BY <1>a, <1>b, <2>3, <4>2, <4>3, BitsSet
    <3>3. QED BY <3>1, <3>2
  <2>5. QED
    BY <1>1, <1>3, <1>a, <2>1, <2>2, <2>3, <2>4 DEF Option, ArgumentsRead
<1>4. CASE Positional
  <2>1. Arg \notin Options /\ it \in Nat /\ it >= 1
    BY <1>4, ArgumentHere DEF Positional
  <2>2. ~IsValue(it + 1)
    BY <2>1, ValueStep DEF Arg
  <2>3. BitsAskedFor'
    <3>1. bits' = bits \cup {} /\ flags \subseteq flags'
      BY <1>4 DEF Positional
    <3>2. QED
      BY <1>a, <1>b, <3>1, BitsSet
  <2>4. it' = it + 1 /\ it + 1 \in Nat /\ vals' = vals
    BY <1>4, <2>1 DEF Positional, NextArgument
  <2>5. QED
    BY <1>1, <1>a, <1>b, <2>2, <2>3, <2>4 DEF ArgumentsRead
<1>5. CASE ~(Flag \/ Option \/ Positional)
  <2>1. UNCHANGED <<bits, it, vals, flags>>
    BY <1>5 DEF Next, vars, options, Help, OptionWithoutValue,
       CheckFiles, Lex, Dump, NoDump, StopAfterLex, Parse, StopAfterParse,
       NextFile, Return, NoReturn
  <2>2. pc' = "args" => pc = "args"
    BY <1>5 DEF Next, vars, Help, OptionWithoutValue, Goto, Exit, FailedAssert,
       CheckFiles, Lex, Dump, NoDump, StopAfterLex, Parse, StopAfterParse,
       NextFile, Return, NoReturn, ExitWithLexerStatus
  <2>3. it \in Nat
    BY DEF TypeOK
  <2>4. BitsAskedFor'
    <3>1. bits' = bits \cup {} /\ flags \subseteq flags'
      BY <2>1
    <3>2. QED
      BY <1>a, <1>b, <3>1, BitsSet
  <2>5. QED
    BY <1>1, <1>a, <1>b, <2>1, <2>2, <2>3, <2>4 DEF ArgumentsRead
<1>6. QED
  BY <1>2, <1>3, <1>4, <1>5

(* Each feature flag bit has been asked for, on every command line.        *)
THEOREM BitsAreAskedFor == Spec => []BitsAskedFor
<1>1. Init => ArgumentsRead
  <2>1. ~IsValue(1)
    BY DEF IsValue
  <2>2. ASSUME Init PROVE it = 1 /\ bits = {} /\ vals[SetFlag] = "0,0x0"
    BY <2>2 DEF Init, Options
  <2>3. QED
    BY <2>1, <2>2 DEF ArgumentsRead, BitsAskedFor, FlagValues
<1>2. TypeOK /\ ArgumentsRead /\ [Next]_vars => ArgumentsRead'
  BY ArgumentsStep
<1>3. ArgumentsRead => BitsAskedFor
  BY DEF ArgumentsRead
<1>4. QED
  BY <1>1, <1>2, <1>3, TypeCorrect, PTL DEF Spec

-----------------------------------------------------------------------------
(* The loop over the files.  It treats them in order; each is lexed once;  *)
(* and with a phase to stop after it never comes to a second one.          *)

LoopPcs == {"loop", "lexed", "dumped", "parsed"}
FilePcs == {"lexed", "dumped", "parsed"}
StopsEarly == vals[StopAt] \in {"lex", "parse"}

LoopState ==
  /\ pc = "args" => /\ cur = 1 /\ ~failedOutput
                    /\ lexed = <<>> /\ parsed = <<>> /\ lookups = <<>>
                    /\ lexedIds = <<>> /\ toks = <<>>
                    /\ out.stdout = <<>> /\ out.file = <<>> /\ ~out.opened
  /\ pc \in LoopPcs => it = Len(args) + 1
  /\ pc # "exited" => status = Success
  /\ pc \in FilePcs => cur <= Len(files)
  /\ pc \in LoopPcs =>
       /\ Len(lexed)  = IF pc = "loop" THEN cur - 1 ELSE cur
       /\ Len(parsed) = IF pc = "parsed" THEN cur ELSE cur - 1
       /\ StopsEarly => cur = 1
       /\ StopsEarly /\ pc = "loop" => ~failedOutput
       /\ pc = "parsed" => vals[StopAt] # "lex"
  /\ pc \in FilePcs => toks = lexed[cur].content.toks
  /\ Len(lexed) <= Len(files) /\ Len(parsed) <= Len(files)
  /\ \A i \in 1..Len(lexed)  : lexed[i].file = files[i]
  /\ \A i \in 1..Len(parsed) : parsed[i] = files[i]

(* What the invariant says where control is in the loop.                   *)
LEMMA LoopHere ==
  ASSUME TypeOK, LoopState
  PROVE  /\ Len(lexed) \in Nat /\ Len(parsed) \in Nat /\ Len(files) \in Nat
         /\ cur \in Nat /\ cur >= 1
         /\ lexed \in Seq([file : STRING, content : Content])
         /\ parsed \in Seq(STRING) /\ files \in Seq(STRING)
         /\ DOMAIN lexed = 1..Len(lexed) /\ DOMAIN parsed = 1..Len(parsed)
BY DEF TypeOK

LEMMA LoopStep ==
  ASSUME TypeOK, LoopState, [Next]_vars
  PROVE  LoopState'
<1> USE DEF Goto, Exit, FailedAssert, Success, Failure, LoopPcs, FilePcs, StopsEarly
<1>1. CASE UNCHANGED vars
  BY <1>1 DEF vars, given, options, session, history, LoopState
<1>2. CASE Help \/ Flag \/ OptionWithoutValue \/ Positional \/ Option
  <2>1. /\ pc = "args" /\ pc' \in {"args", "exited", "aborted", "undefined"}
        /\ UNCHANGED <<cur, toks, lexedIds, failedOutput, history>>
        /\ status' = status \/ pc' = "exited"
    BY <1>2 DEF Help, Flag, OptionWithoutValue, Positional, Option, Reading,
       HandleFeatureFlag, session
  <2>2. Len(lexed') = 0 /\ Len(parsed') = 0 /\ Len(files') \in Nat
    BY <2>1, <1>2, TypeStep DEF LoopState, TypeOK, InLoop, history
  <2>3. QED
    BY <2>1, <2>2 DEF LoopState, history
<1>3. CASE CheckFiles
  <2>1. it = Len(args) + 1
    BY <1>3 DEF CheckFiles, TypeOK
  <2>2. pc = "args" /\ lexed = <<>> /\ parsed = <<>> /\ cur = 1 /\ pc' \in {"loop", "aborted"}
    BY <1>3 DEF CheckFiles, LoopState
  <2>3. UNCHANGED <<args, it, vals, files, session>>
    BY <1>3 DEF CheckFiles, given, options
  <2>4. QED
    BY <2>1, <2>2, <2>3 DEF LoopState, session, history
<1>4. CASE Lex
  <2>1. UNCHANGED <<args, it, vals, files, cur, failedOutput, status, out, parsed, lookups>>
        /\ pc = "loop" /\ cur <= Len(files)
    BY <1>4 DEF Lex, given, options
  <2>2. CASE lexed' = lexed
    <3>1. pc' \in {"aborted", "undefined"}
      <4>1. Len(Append(lexed, [file |-> File, content |-> Held(File)])) = Len(lexed) + 1
        BY LoopHere
      <4>2. lexed' # Append(lexed, [file |-> File, content |-> Held(File)])
        <5> DEFINE a == Append(lexed, [file |-> File, content |-> Held(File)])
        <5>1. Len(a) = Len(lexed) + 1 /\ Len(lexed) \in Nat
          BY <4>1, LoopHere
        <5> HIDE DEF a
        <5>2. a # lexed
          BY <5>1
        <5>3. QED
          BY <2>2, <5>2 DEF a
      <4>3. QED
        BY <1>4, <4>2 DEF Lex
    <3>2. QED
      BY <2>1, <2>2, <3>1 DEF LoopState
  <2>3. CASE lexed' # lexed
    <3>1. /\ lexed' = Append(lexed, [file |-> File, content |-> Held(File)])
          /\ toks' = Held(File).toks /\ pc' = "lexed"
      BY <1>4, <2>3 DEF Lex, LexFile
    <3>2. /\ Len(lexed') = cur /\ lexed'[cur] = [file |-> File, content |-> Held(File)]
          /\ \A i \in 1..(cur - 1) : lexed'[i] = lexed[i]
      BY <2>1, <3>1, LoopHere DEF LoopState
    <3>3. \A i \in 1..Len(lexed') : lexed'[i].file = files[i]
      BY <2>1, <3>2, LoopHere DEF LoopState, File
    <3>4. QED
      BY <2>1, <3>1, <3>2, <3>3, LoopHere DEF LoopState
  <2>4. QED BY <2>2, <2>3
<1>5. CASE Dump \/ NoDump
  <2>1. /\ UNCHANGED <<args, it, vals, files, cur, toks, status, lexed, parsed, lookups>>
        /\ pc = "lexed" /\ pc' \in {"dumped", "undefined", "aborted"}
    BY <1>5 DEF Dump, NoDump, given, options, session, history
  <2>2. QED
    BY <2>1 DEF LoopState
<1>6. CASE Parse
  <2>1. /\ UNCHANGED <<args, it, vals, files, cur, toks, failedOutput, status, out, lexed>>
        /\ pc = "dumped" /\ pc' \in {"parsed", "undefined"} /\ vals[StopAt] # "lex"
        /\ \/ parsed' = parsed /\ pc' = "undefined"
           \/ parsed' = Append(parsed, File) /\ pc' = "parsed"
    BY <1>6 DEF Parse, given, options
  <2>2. CASE pc' = "undefined"
    <3>1. parsed' = parsed
      BY <2>1, <2>2
    <3>2. QED
      BY <2>1, <2>2, <3>1 DEF LoopState
  <2>3. CASE pc' = "parsed"
    <3>1. parsed' = Append(parsed, File) /\ File \in STRING
      BY <2>1, <2>3, LoopHere DEF LoopState, File
    <3>2. Len(parsed') = cur /\ parsed'[cur] = files[cur]
          /\ \A i \in 1..(cur - 1) : parsed'[i] = parsed[i]
      BY <2>1, <3>1, LoopHere, AppendProperties DEF LoopState, File
    <3>3. \A i \in 1..Len(parsed') : parsed'[i] = files[i]
      BY <2>1, <3>2, LoopHere DEF LoopState
    <3>4. QED
      BY <2>1, <2>3, <3>2, <3>3, LoopHere DEF LoopState
  <2>4. QED BY <2>1, <2>2, <2>3
<1>7. CASE NextFile
  <2>1. /\ UNCHANGED <<args, it, vals, files, toks, failedOutput, status, out, lexed, parsed, lookups>>
        /\ pc = "parsed" /\ pc' = "loop" /\ cur' = cur + 1 /\ vals[StopAt] # "parse"
    BY <1>7 DEF NextFile, given, options, history
  <2>2. ~StopsEarly
    <3>1. vals[StopAt] # "lex"
      BY <2>1 DEF LoopState
    <3>2. QED BY <2>1, <3>1
  <2>3. QED
    BY <2>1, <2>2, LoopHere DEF LoopState
<1>8. CASE StopAfterLex \/ StopAfterParse \/ Return \/ NoReturn
  <2>1. /\ UNCHANGED <<args, it, vals, files, cur, toks, failedOutput, out, lexed, parsed, lookups>>
        /\ pc' \in {"exited", "stuck"} /\ pc # "exited"
        /\ pc' = "stuck" => status' = status
    BY <1>8 DEF StopAfterLex, StopAfterParse, Return, NoReturn, ExitWithLexerStatus,
       given, options, session, history
  <2>2. QED
    BY <2>1 DEF LoopState
<1>9. QED
  BY <1>1, <1>2, <1>3, <1>4, <1>5, <1>6, <1>7, <1>8 DEF Next

LEMMA LoopInit == Init => LoopState
<1> SUFFICES ASSUME Init PROVE LoopState
  OBVIOUS
<1>1. Len(lexed) = 0 /\ Len(parsed) = 0 /\ Len(files) = 0 /\ pc = "args"
  BY DEF Init
<1>2. /\ cur = 1 /\ ~failedOutput /\ toks = <<>> /\ status = Success
      /\ lexed = <<>> /\ parsed = <<>> /\ lookups = <<>> /\ lexedIds = <<>>
      /\ out.stdout = <<>> /\ out.file = <<>> /\ ~out.opened
  BY DEF Init
<1>3. QED
  BY <1>1, <1>2 DEF LoopState, LoopPcs, FilePcs

LEMMA LoopCorrect == Spec => [](TypeOK /\ LoopState)
<1>1. TypeOK /\ LoopState /\ [Next]_vars => LoopState'
  BY LoopStep
<1>2. QED
  BY <1>1, LoopInit, TypeCorrect, PTL DEF Spec

-----------------------------------------------------------------------------
(* How a run ends.                                                         *)

(* Only these actions end it; each is a step from where it has not ended.  *)
LEMMA Endings ==
  ASSUME [Next]_vars
  PROVE  /\ pc' = "exited" => \/ UNCHANGED vars \/ Help \/ StopAfterLex
                              \/ StopAfterParse \/ Return
         /\ pc' = "aborted" => \/ UNCHANGED vars \/ Option \/ OptionWithoutValue
                               \/ CheckFiles \/ Lex \/ Dump
         /\ pc' = "undefined" => \/ UNCHANGED vars \/ OptionWithoutValue \/ Lex
                                 \/ Dump \/ Parse
<1> USE DEF Goto, Exit, FailedAssert
<1>1. CASE Help \/ Flag \/ Option \/ OptionWithoutValue \/ Positional \/ CheckFiles
  BY <1>1 DEF Help, Flag, Option, OptionWithoutValue, Positional, CheckFiles,
     HandleFeatureFlag, Reading
<1>2. CASE \/ Lex \/ Dump \/ NoDump \/ Parse \/ NextFile \/ NoReturn
  BY <1>2 DEF Lex, Dump, NoDump, Parse, NextFile, NoReturn
<1>3. CASE StopAfterLex \/ StopAfterParse \/ Return \/ UNCHANGED vars
  BY <1>3 DEF StopAfterLex, StopAfterParse, Return, ExitWithLexerStatus
<1>4. QED
  BY <1>1, <1>2, <1>3 DEF Next

(* Every file is lexed and parsed, in order, or the first one only.        *)
LEMMA FilesProcessedStep ==
  ASSUME TypeOK, LoopState, FilesProcessed, [Next]_vars
  PROVE  FilesProcessed'
<1> USE DEF Exit, Success, Failure
<1>1. SUFFICES ASSUME pc' = "exited", status' = Success PROVE FilesProcessed'
  BY DEF FilesProcessed
<1>2. CASE UNCHANGED vars
  BY <1>2 DEF FilesProcessed, vars, given, options, session, history, LexedFiles
<1>3. CASE Help
  BY <1>1, <1>3 DEF Help
<1>4. Len(lexed) <= Len(files) /\ \A i \in 1..Len(lexed) : LexedFiles[i] = files[i]
  BY LoopHere DEF LoopState, LexedFiles
<1>5. LexedFiles \in Seq(STRING) /\ Len(LexedFiles) = Len(lexed)
  <2>1. ASSUME NEW i \in 1..Len(lexed)
        PROVE  lexed[i].file \in STRING
    <3>1. lexed[i] \in [file : STRING, content : Content]
      BY LoopHere, ElementOfSeq
    <3>2. QED
      BY <3>1
  <2>2. QED
    BY <2>1, LoopHere DEF LexedFiles
<1>6. CASE StopAfterLex
  <2>1. vals[StopAt] = "lex" /\ Len(lexed) = 1 /\ Len(parsed) = 0 /\ Len(files) >= 1
    BY <1>6 DEF StopAfterLex, LoopState, LoopPcs, FilePcs, StopsEarly
  <2>2. LexedFiles = <<files[1]>> /\ parsed = <<>> /\ First(files) = <<files[1]>>
    BY <2>1, <1>4, <1>5, LoopHere DEF First
  <2>3. UNCHANGED <<files, vals, lexed, parsed>>
    BY <1>6 DEF StopAfterLex, options, history
  <2>4. QED
    BY <2>1, <2>2, <2>3 DEF FilesProcessed, LexedFiles, First
<1>7. CASE StopAfterParse
  <2>1. vals[StopAt] = "parse" /\ Len(lexed) = 1 /\ Len(parsed) = 1 /\ Len(files) >= 1
    BY <1>7 DEF StopAfterParse, LoopState, LoopPcs, FilePcs, StopsEarly
  <2>2. LexedFiles = <<files[1]>> /\ First(files) = <<files[1]>>
    BY <2>1, <1>4, <1>5, LoopHere DEF First
  <2>3. parsed = <<files[1]>>
    BY <2>1, LoopHere DEF LoopState
  <2>4. UNCHANGED <<files, vals, lexed, parsed>>
    BY <1>7 DEF StopAfterParse, options, history
  <2>5. QED
    BY <2>1, <2>2, <2>3, <2>4 DEF FilesProcessed, LexedFiles, First
<1>8. CASE Return
  <2>1. Len(lexed) = Len(files) /\ Len(parsed) = Len(files) /\ (StopsEarly => Len(files) = 0)
    BY <1>8, LoopHere DEF Return, LoopState, LoopPcs, FilePcs
  <2>2. LexedFiles = files
    BY <2>1, <1>4, <1>5, LoopHere, SeqEqual
  <2>3. parsed = files
    BY <2>1, LoopHere, SeqEqual DEF LoopState
  <2>4. Len(files) = 0 => files = <<>> /\ First(files) = <<>>
    BY LoopHere DEF First
  <2>5. UNCHANGED <<files, vals, lexed, parsed>>
    BY <1>8 DEF Return, options, history
  <2>6. (LexedFiles = files /\ parsed = files)'
    BY <2>2, <2>3, <2>5 DEF LexedFiles
  <2>7. CASE StopsEarly
    BY <2>1, <2>4, <2>5, <2>6, <2>7 DEF FilesProcessed, First
  <2>8. CASE ~StopsEarly
    BY <2>5, <2>6, <2>8 DEF FilesProcessed, StopsEarly
  <2>9. QED BY <2>7, <2>8
<1>9. QED
  BY <1>1, <1>2, <1>3, <1>6, <1>7, <1>8, Endings

(* A run that succeeds has lexed all files, or stopped behind a phase of   *)
(* the first one.                                                          *)
THEOREM AllFilesProcessed == Spec => []FilesProcessed
<1>1. Init => FilesProcessed
  BY DEF Init, FilesProcessed
<1>2. TypeOK /\ LoopState /\ FilesProcessed /\ [Next]_vars => FilesProcessed'
  BY FilesProcessedStep
<1>3. QED
  BY <1>1, <1>2, LoopCorrect, PTL DEF Spec

(* A run through all files forgets that an output could not be written.    *)
LEMMA ExitStatusStep ==
  ASSUME TypeOK, LoopState, ExitStatusExact, [Next]_vars
  PROVE  ExitStatusExact'
<1> USE DEF Exit, Success, Failure
<1>1. SUFFICES ASSUME pc' = "exited" PROVE ExitStatusExact'
  BY DEF ExitStatusExact
<1>2. CASE UNCHANGED vars
  BY <1>2 DEF ExitStatusExact, vars, given, options, session
<1>3. CASE Help
  BY <1>3, ArgumentHere DEF Help, given, options, ExitStatusExact, Reading
<1>4. it \in Nat /\ Len(args) \in Nat /\ failedOutput \in BOOLEAN
  BY DEF TypeOK
<1>5. CASE StopAfterLex \/ StopAfterParse
  <2>1. it = Len(args) + 1 /\ vals[StopAt] \in {"lex", "parse"}
        /\ UNCHANGED <<args, it, vals, failedOutput>>
        /\ status' = IF failedOutput THEN Failure ELSE Success
    BY <1>5 DEF StopAfterLex, StopAfterParse, ExitWithLexerStatus, given, options,
       LoopState, LoopPcs
  <2>2. QED
    BY <1>4, <2>1 DEF ExitStatusExact
<1>6. CASE Return
  <2>1. it = Len(args) + 1 /\ (StopsEarly => ~failedOutput)
        /\ UNCHANGED <<args, it, vals, failedOutput>> /\ status' = Success
    BY <1>6 DEF Return, given, options, LoopState, LoopPcs
  <2>2. QED
    BY <1>4, <2>1 DEF ExitStatusExact, StopsEarly
<1>7. QED
  BY <1>1, <1>2, <1>3, <1>5, <1>6, Endings

(* The exit status says what went wrong, but for a lexer output that was   *)
(* not written when nothing stops the run early.                           *)
THEOREM ExitStatusCorrect == Spec => []ExitStatusExact
<1>1. Init => ExitStatusExact
  BY DEF Init, ExitStatusExact
<1>2. TypeOK /\ LoopState /\ ExitStatusExact /\ [Next]_vars => ExitStatusExact'
  BY ExitStatusStep
<1>3. QED
  BY <1>1, <1>2, LoopCorrect, PTL DEF Spec

-----------------------------------------------------------------------------
(* What the files held when they were lexed, and what the dumps hold.      *)

ToFile == Dumping /\ vals[LexOut] \in Writable
DumpsDone == IF pc = "lexed" THEN Len(lexed) - 1 ELSE Len(lexed)

OutputState ==
  /\ SourcesAsGiven
  /\ Len(lexed) <= limit
  /\ pc \in LoopPcs =>
       (out.opened <=> ToFile /\ DumpsDone >= 1 /\ limit >= 2)
  /\ pc \in LoopPcs \cup {"exited"} => OutputAfter(DumpsDone)

(* lexed, and what it is read with, stays.                                 *)
LEMMA LexedKept ==
  ASSUME SourcesAsGiven, UNCHANGED <<vals, flags, lexed>>
  PROVE  SourcesAsGiven'
BY DEF SourcesAsGiven, Dumping

LEMMA OutputKept ==
  ASSUME NEW n, OutputAfter(n), UNCHANGED <<limit, vals, flags, out, lexed>>
  PROVE  OutputAfter(n)'
BY DEF OutputAfter, Dumping, FileHolds, StdoutHolds, IsDumpOf

(* Lexing one more file says nothing of the dumps of those before it.      *)
LEMMA OutputKeptByLex ==
  ASSUME TypeOK, NEW f \in [file : STRING, content : Content],
         OutputAfter(Len(lexed)), Len(lexed) <= limit,
         UNCHANGED <<limit, vals, flags, out>>, lexed' = Append(lexed, f)
  PROVE  OutputAfter(Len(lexed) - 1)'
<1> DEFINE n == Len(lexed)
<1>1. /\ n \in Nat /\ limit \in Nat /\ Len(lexed') = n + 1
      /\ \A i \in 1..n : lexed'[i] = lexed[i]
  BY AppendProperties DEF TypeOK
<1>2. FileHolds(n) => FileHolds(Len(lexed) - 1)'
  <2>1. CASE n = 0 \/ limit = 1
    BY <1>1, <2>1 DEF FileHolds
  <2>2. CASE ~(n = 0 \/ limit = 1)
    <3>1. (IF n = limit THEN n - 1 ELSE n) \in 1..n
      BY <1>1, <2>2
    <3>2. QED
      BY <1>1, <2>2, <3>1 DEF FileHolds, IsDumpOf
  <2>3. QED BY <2>1, <2>2
<1>3. StdoutHolds(n) => StdoutHolds(Len(lexed) - 1)'
  BY <1>1 DEF StdoutHolds
<1>4. QED
  BY <1>2, <1>3 DEF OutputAfter, Dumping

LEMMA OutputStep ==
  ASSUME TypeOK, LoopState, OutputState, [Next]_vars
  PROVE  OutputState'
<1> USE DEF Goto, Exit, FailedAssert, LoopPcs, FilePcs
<1>1. limit \in Nat /\ Len(lexed) \in Nat /\ limit' = limit
  <2>1. limit \in Nat /\ Len(lexed) \in Nat
    BY DEF TypeOK
  <2>2. QED
    BY <2>1 DEF Next, vars, given, Help, Flag, Option, OptionWithoutValue, Positional,
     CheckFiles, Lex, Dump, NoDump, StopAfterLex, Parse, StopAfterParse,
     NextFile, Return, NoReturn
<1>2. CASE UNCHANGED vars
  <2>1. UNCHANGED <<pc, limit, vals, flags, out, lexed>>
    BY <1>2 DEF vars, given, options, session, history
  <2>2. DumpsDone' = DumpsDone /\ (ToFile' <=> ToFile)
    BY <2>1 DEF DumpsDone, ToFile, Dumping
  <2>3. OutputAfter(DumpsDone) => OutputAfter(DumpsDone)'
    BY <2>1 DEF OutputAfter, Dumping, FileHolds, StdoutHolds, IsDumpOf, DumpsDone
  <2>4. QED
    BY <2>1, <2>2, <2>3, LexedKept DEF OutputState
<1>3. CASE pc = "args" /\ ~UNCHANGED vars
  <2>1. /\ UNCHANGED <<lexed, out>> /\ lexed = <<>> /\ Len(lexed) = 0
        /\ ~out.opened /\ out.file = <<>> /\ out.stdout = <<>> /\ pc' # "lexed"
    BY <1>3 DEF LoopState, Next, Help, Flag, Option, OptionWithoutValue, Positional,
       CheckFiles, Lex, Dump, NoDump, StopAfterLex, Parse, StopAfterParse,
       NextFile, Return, NoReturn, session, history, HandleFeatureFlag
  <2>2. SourcesAsGiven'
    BY <2>1 DEF SourcesAsGiven
  <2>3. DumpsDone' = 0
    BY <2>1 DEF DumpsDone
  <2>4. OutputAfter(0)'
    BY <2>1 DEF OutputAfter, FileHolds, StdoutHolds
  <2>5. QED
    BY <1>1, <2>1, <2>2, <2>3, <2>4 DEF OutputState
<1>4. CASE Lex
  <2>1. UNCHANGED <<vals, flags, out>> /\ pc = "loop"
    BY <1>4 DEF Lex, options
  <2>2. CASE Opens(File)
    <3> DEFINE f == [file |-> File, content |-> Held(File)]
    <3>1. lexed' = Append(lexed, f) /\ pc' = "lexed" /\ Len(lexed) < limit
      BY <1>4, <2>2 DEF Lex, Opens, CanOpen
    <3>2. f \in [file : STRING, content : Content]
      BY <1>4, <2>2, HeldContent, LoopHere DEF Lex, File, Opens
    <3>3. /\ Len(lexed') = Len(lexed) + 1 /\ lexed'[Len(lexed) + 1] = f
          /\ \A i \in 1..Len(lexed) : lexed'[i] = lexed[i]
      BY <3>1, <3>2, LoopHere, AppendProperties
    <3>4. Held(File) = IF ToFile /\ Len(lexed) >= 1 /\ File = vals[LexOut]
                       THEN DumpContent ELSE Original(File)
      BY <2>1, <3>1, <1>1 DEF Held, Overwritten, OutputState, DumpsDone
    <3>5. SourcesAsGiven'
      <4>1. SUFFICES ASSUME NEW i \in 1..(Len(lexed) + 1)
                     PROVE  lexed'[i].content =
                              IF Dumping /\ vals[LexOut] \in Writable
                                   /\ i > 1 /\ lexed'[i].file = vals[LexOut]
                              THEN DumpContent ELSE Original(lexed'[i].file)
        <5>1. lexed' \in Seq([file : STRING, content : Content])
          BY <3>1, <3>2, LoopHere, AppendProperties
        <5>2. DOMAIN lexed' = 1..(Len(lexed) + 1)
          BY <3>3, <5>1
        <5>3. QED
          BY <2>1, <5>2 DEF SourcesAsGiven, Dumping
      <4>2. CASE i = Len(lexed) + 1
        BY <1>1, <3>3, <3>4, <4>2 DEF ToFile
      <4>3. CASE i # Len(lexed) + 1
        <5>1. i \in DOMAIN lexed /\ lexed'[i] = lexed[i]
          BY <3>3, <4>3, LoopHere
        <5>2. QED
          BY <5>1 DEF OutputState, SourcesAsGiven
      <4>4. QED BY <4>2, <4>3
    <3>6. OutputAfter(Len(lexed) - 1)'
      BY <1>1, <2>1, <3>1, <3>2, OutputKeptByLex DEF OutputState, DumpsDone
    <3>7. DumpsDone' = (Len(lexed) - 1)' /\ DumpsDone' = DumpsDone /\ (ToFile' <=> ToFile)
      BY <1>1, <2>1, <3>1, <3>3 DEF DumpsDone, ToFile, Dumping
    <3>8. OutputAfter(DumpsDone)'
      BY <3>6, <3>7
    <3>9. QED
      BY <1>1, <2>1, <3>1, <3>3, <3>5, <3>7, <3>8 DEF OutputState
  <2>3. CASE ~Opens(File)
    <3>1. UNCHANGED lexed /\ pc' \in {"aborted", "undefined"}
      BY <1>4, <2>3 DEF Lex
    <3>2. QED
      BY <1>1, <2>1, <3>1, LexedKept DEF OutputState
  <2>4. QED BY <2>2, <2>3
<1>5. CASE Dump
  <2>1. UNCHANGED <<vals, flags, lexed, toks, cur, files>> /\ pc = "lexed" /\ Dumping
    BY <1>5 DEF Dump, options, Dumping
  <2>2. pc' \in {"dumped", "aborted", "undefined"}
    BY <1>5 DEF Dump
  <2>3. CASE pc' # "dumped"
    BY <1>1, <2>1, <2>2, <2>3, LexedKept DEF OutputState
  <2>4. CASE pc' = "dumped"
    <3>1. /\ DumpsDone = Len(lexed) - 1 /\ DumpsDone' = Len(lexed) /\ Len(lexed) >= 1
          /\ ToFile' <=> ToFile
          /\ Len(lexed) = cur /\ toks = lexed[cur].content.toks /\ lexed[cur].file = File
      BY <2>1, <2>4, LoopHere DEF DumpsDone, ToFile, Dumping, LoopState, File
    <3>2. OutputAfter(Len(lexed) - 1) /\ (out.opened <=> ToFile /\ Len(lexed) >= 2 /\ limit >= 2)
      BY <1>1, <2>1, <3>1 DEF OutputState
    <3>3. ASSUME ~DumpReadsPastEnd
          PROVE  /\ DOMAIN DumpLines = DOMAIN toks /\ DumpLines \in Seq(Lines)
                 /\ \A k \in DOMAIN DumpLines : DumpLines[k].file = lexed[Len(lexed)].file
      <4>1. DumpLines \in Seq(Lines)
        BY <2>1, <3>3, DumpLinesType DEF LoopState
      <4>2. QED
        BY <3>1, <4>1 DEF DumpLines, NameLine
    <3>4. CASE vals[LexOut] # "" /\ vals[LexOut] \notin Writable
      <4>1. UNCHANGED out
        BY <1>5, <2>4, <3>4 DEF Dump
      <4>2. OutputAfter(Len(lexed))'
        BY <2>1, <3>4 DEF OutputAfter
      <4>3. QED
        BY <1>1, <2>1, <2>4, <3>1, <3>2, <3>4, <4>1, <4>2, LexedKept DEF OutputState, ToFile
    <3>5. CASE vals[LexOut] = ""
      <4>1. vals[LexOut] \notin Writable /\ ~ToFile
        BY <3>5, DriverAssumption DEF DriverConstants, SystemConstants, ToFile
      <4>2. out' = [out EXCEPT !.stdout = out.stdout \o DumpLines]
            /\ ~DumpReadsPastEnd /\ DumpLines \in Seq(Lines)
        BY <1>5, <2>4, <3>5, <3>3 DEF Dump
      <4>3. /\ out'.file = out.file /\ out'.opened = out.opened
            /\ out'.stdout = out.stdout \o DumpLines
            /\ out.stdout \in Seq(Lines)
        BY <4>2 DEF TypeOK
      <4>4. StdoutHolds(Len(lexed) - 1) /\ out.file = <<>>
        BY <2>1, <3>2, <3>5 DEF OutputAfter
      <4>5. /\ DOMAIN out'.stdout = 1..(Len(out.stdout) + Len(DumpLines))
            /\ Len(out.stdout) \in Nat /\ Len(DumpLines) \in Nat
            /\ DOMAIN out.stdout = 1..Len(out.stdout)
            /\ DOMAIN DumpLines = 1..Len(DumpLines)
            /\ \A k \in 1..Len(out.stdout) : out'.stdout[k] = out.stdout[k]
            /\ \A k \in 1..Len(DumpLines) :
                 out'.stdout[Len(out.stdout) + k] = DumpLines[k]
        BY <4>2, <4>3, ConcatProperties
      <4>6. ASSUME NEW i \in 1..Len(lexed), lexed[i].content.toks # <<>>
            PROVE  \E k \in DOMAIN out'.stdout : out'.stdout[k].file = lexed[i].file
        <5>1. CASE i < Len(lexed)
          <6>1. PICK k \in DOMAIN out.stdout : out.stdout[k].file = lexed[i].file
            BY <4>4, <4>6, <5>1, <1>1 DEF StdoutHolds
          <6>2. QED
            BY <4>5, <6>1
        <5>2. CASE i = Len(lexed)
          <6>1. 1 \in DOMAIN DumpLines
            <7>1. toks # <<>> /\ toks \in Seq(TokenKinds)
              BY <3>1, <4>6, <5>2 DEF TypeOK
            <7>2. QED
              BY <7>1, <3>3, <4>2
          <6>2. Len(out.stdout) + 1 \in DOMAIN out'.stdout
                /\ out'.stdout[Len(out.stdout) + 1] = DumpLines[1]
            BY <4>5, <6>1
          <6>3. DumpLines[1].file = lexed[i].file
            BY <3>3, <4>2, <5>2, <6>1
          <6>4. QED
            BY <6>2, <6>3
        <5>3. QED
          BY <1>1, <5>1, <5>2
      <4>7. StdoutHolds(Len(lexed))'
        BY <2>1, <4>6 DEF StdoutHolds
      <4>8. OutputAfter(Len(lexed))'
        BY <2>1, <3>5, <4>1, <4>3, <4>4, <4>7 DEF OutputAfter
      <4>9. QED
        BY <1>1, <2>1, <2>4, <3>1, <3>2, <4>1, <4>3, <4>8, LexedKept DEF OutputState
    <3>6. CASE vals[LexOut] \in Writable /\ ~CanOpen
      <4>0. vals[LexOut] # ""
        BY <3>6, DriverAssumption DEF DriverConstants, SystemConstants
      <4>1. UNCHANGED out /\ Len(lexed) = limit
        <5>1. UNCHANGED out
          BY <1>5, <3>6, <4>0 DEF Dump
        <5>2. QED
          BY <1>1, <3>6, <5>1 DEF CanOpen, OutputState
      <4>2. FileHolds(Len(lexed) - 1) /\ out.stdout = <<>>
        BY <2>1, <3>2, <3>6 DEF OutputAfter
      <4>3. FileHolds(Len(lexed))'
        BY <1>1, <2>1, <3>1, <4>1, <4>2 DEF FileHolds, IsDumpOf
      <4>4. OutputAfter(Len(lexed))'
        <5>1. vals'[LexOut] # ""
          BY <2>1, <3>6, DriverAssumption DEF DriverConstants, SystemConstants
        <5>2. QED
          BY <4>1, <4>2, <4>3, <5>1 DEF DriverConstants, SystemConstants, OutputAfter
      <4>5. QED
        BY <1>1, <2>1, <2>4, <3>1, <3>2, <4>1, <4>4, LexedKept DEF OutputState
    <3>7. CASE vals[LexOut] \in Writable /\ CanOpen
      <4>1. vals[LexOut] # ""
        BY <3>7, DriverAssumption DEF DriverConstants, SystemConstants
      <4>2. out' = [out EXCEPT !.file = DumpLines, !.opened = TRUE]
            /\ ~DumpReadsPastEnd /\ DumpLines \in Seq(Lines)
        BY <1>5, <2>4, <3>7, <4>1, <3>3 DEF Dump, WriteFile
      <4>3. out'.file = DumpLines /\ out'.opened = TRUE /\ out'.stdout = out.stdout
        BY <4>2 DEF TypeOK
      <4>4. Len(lexed) < limit /\ out.stdout = <<>>
        BY <2>1, <3>2, <3>7 DEF CanOpen, OutputAfter
      <4>5. IsDumpOf(DumpLines, lexed[Len(lexed)])
        <5>1. Len(DumpLines) = Len(toks) /\ toks \in Seq(TokenKinds)
          BY <3>3, <4>2, LenProperties DEF TypeOK
        <5>2. QED
          BY <3>1, <3>3, <4>2, <5>1 DEF IsDumpOf
      <4>6. FileHolds(Len(lexed))'
        BY <1>1, <2>1, <3>1, <4>3, <4>4, <4>5 DEF FileHolds, IsDumpOf
      <4>7. OutputAfter(Len(lexed))'
        BY <2>1, <4>1, <4>3, <4>4, <4>6 DEF OutputAfter
      <4>8. QED
        BY <1>1, <2>1, <2>4, <3>1, <3>7, <4>3, <4>4, <4>7, LexedKept DEF OutputState, ToFile
    <3>8. QED
      BY <3>4, <3>5, <3>6, <3>7
  <2>5. QED BY <2>3, <2>4
<1>6. CASE NoDump
  <2>1. UNCHANGED <<vals, flags, lexed, out>> /\ pc = "lexed" /\ pc' = "dumped" /\ ~Dumping
    BY <1>6 DEF NoDump, options, session, history, Dumping
  <2>2. ~Dumping' /\ ~ToFile /\ ~ToFile'
    BY <2>1 DEF Dumping, ToFile
  <2>3. QED
    BY <1>1, <2>1, <2>2, LexedKept DEF OutputState, OutputAfter
<1>7. CASE \/ StopAfterLex \/ Parse \/ StopAfterParse \/ NextFile \/ Return \/ NoReturn
  <2>1. /\ UNCHANGED <<vals, flags, lexed, out>> /\ pc \in LoopPcs /\ pc # "lexed"
        /\ pc' # "lexed"
    BY <1>7 DEF StopAfterLex, StopAfterParse, Return, NoReturn, ExitWithLexerStatus,
       Parse, NextFile, options, session, history
  <2>2. DumpsDone = Len(lexed) /\ DumpsDone' = Len(lexed) /\ (ToFile' <=> ToFile)
    BY <2>1 DEF DumpsDone, ToFile, Dumping
  <2>3. OutputAfter(Len(lexed))'
    BY <1>1, <2>1, <2>2, OutputKept DEF OutputState
  <2>4. QED
    BY <1>1, <2>1, <2>2, <2>3, LexedKept DEF OutputState
<1>8. QED
  <2>1. CheckFiles \/ Help \/ Flag \/ Option \/ OptionWithoutValue \/ Positional
          => pc = "args"
    BY DEF CheckFiles, Help, Flag, Option, OptionWithoutValue, Positional, Reading
  <2>2. QED
    BY <1>2, <1>3, <1>4, <1>5, <1>6, <1>7, <2>1 DEF Next

LEMMA OutputCorrect == Spec => []OutputState
<1>1. Init => OutputState
  <2>1. SUFFICES ASSUME Init PROVE OutputState
    OBVIOUS
  <2>2. /\ lexed = <<>> /\ Len(lexed) = 0 /\ pc = "args" /\ limit \in Nat
    BY <2>1, DriverAssumption DEF DriverConstants, SystemConstants, Init
  <2>3. QED
    BY <2>2 DEF OutputState, SourcesAsGiven, LoopPcs
<1>2. TypeOK /\ LoopState /\ OutputState /\ [Next]_vars => OutputState'
  BY OutputStep
<1>3. QED
  BY <1>1, <1>2, LoopCorrect, PTL DEF Spec

(* The output file holds the dump of the last file that could be dumped,   *)
(* standard output those of all files.                                     *)
THEOREM OutputFileCorrect == Spec => []OutputFileHoldsLastFile
<1>1. OutputState => OutputFileHoldsLastFile
  BY DEF OutputState, OutputFileHoldsLastFile, DumpsDone, LoopPcs
<1>2. QED
  BY <1>1, OutputCorrect, PTL

(* Each file is lexed as it was, but for the lexer output file.            *)
THEOREM SourcesLexedAsGiven == Spec => []SourcesAsGiven
<1>1. OutputState => SourcesAsGiven
  BY DEF OutputState
<1>2. QED
  BY <1>1, OutputCorrect, PTL

-----------------------------------------------------------------------------
(* The names: those of the first file stay in front, and those of the      *)
(* current one are among them all.                                         *)

FirstNames == lexed[1].content.names

NamesState ==
  /\ NamesComeFromFirstFile
  /\ lexed = <<>> => lexedIds = <<>> /\ lookups = <<>>
  /\ lexed # <<>> => /\ Len(FirstNames) <= Len(lexedIds)
                     /\ \A i \in 1..Len(FirstNames) : lexedIds[i] = FirstNames[i]
  /\ pc \in FilePcs => Len(lexed[cur].content.names) <= Len(lexedIds)

LEMMA FirstNamesType ==
  ASSUME TypeOK, lexed # <<>>
  PROVE  FirstNames \in Seq(Names) /\ Len(FirstNames) \in Nat
<1>1. lexed \in Seq([file : STRING, content : Content]) /\ 1 \in 1..Len(lexed)
  BY DEF TypeOK
<1>2. lexed[1] \in [file : STRING, content : Content]
  BY <1>1, ElementOfSeq
<1>3. lexed[1].content.names \in Seq(Names)
  BY <1>2 DEF Content
<1>4. QED
  BY <1>3, LenProperties DEF FirstNames

LEMMA NamesStep ==
  ASSUME TypeOK, LoopState, NamesState, [Next]_vars
  PROVE  NamesState'
<1> USE DEF Goto, Exit, FailedAssert, FilePcs
<1>1. CASE Lex /\ Opens(File)
  <2> DEFINE f == [file |-> File, content |-> Held(File)]
             names == Held(File).names
  <2>1. /\ lexed' = Append(lexed, f) /\ lexedIds' = lexedIds \o names
        /\ UNCHANGED <<lookups, cur>> /\ pc' = "lexed" /\ pc = "loop"
    BY <1>1 DEF Lex, LexFile
  <2>2. f \in [file : STRING, content : Content] /\ names \in Seq(Names)
    <3>1. Held(File) \in Content /\ File \in STRING
      BY <1>1, HeldContent, LoopHere DEF Lex, File, Opens
    <3>2. QED
      BY <3>1 DEF Content
  <2>3. /\ Len(lexed') = Len(lexed) + 1 /\ lexed'[Len(lexed) + 1] = f
        /\ \A i \in 1..Len(lexed) : lexed'[i] = lexed[i]
        /\ lexed' # <<>> /\ Len(lexed) + 1 = cur
    BY <2>1, <2>2, LoopHere, AppendProperties DEF LoopState, LoopPcs
  <2>4. /\ lexedIds \in Seq(Names) /\ Len(lexedIds) \in Nat /\ Len(names) \in Nat
        /\ Len(lexedIds') = Len(lexedIds) + Len(names)
        /\ \A i \in 1..Len(lexedIds) : lexedIds'[i] = lexedIds[i]
    BY <2>1, <2>2, ConcatProperties, LenProperties DEF TypeOK
  <2>5. lexed'[cur].content.names = names
    BY <2>3
  <2>6. CASE lexed = <<>>
    <3>1. FirstNames' = names /\ lexedIds' = names /\ lookups' = <<>>
      <4>1. Len(lexed) = 0
        BY <2>6
      <4>2. lexedIds = <<>> /\ lookups' = <<>>
        BY <2>1, <2>6 DEF NamesState
      <4>3. QED
        BY <2>1, <2>2, <2>3, <4>1, <4>2, ConcatEmptySeq DEF FirstNames
    <3>2. NamesComeFromFirstFile'
      BY <3>1 DEF NamesComeFromFirstFile
    <3>3. QED
      BY <2>1, <2>3, <2>4, <2>5, <3>1, <3>2 DEF NamesState
  <2>7. CASE lexed # <<>>
    <3>1. Len(lexed) >= 1
      BY <2>7, LoopHere, EmptySeq
    <3>2. FirstNames' = FirstNames /\ lexed'[1] = lexed[1]
      BY <2>3, <3>1, LoopHere DEF FirstNames
    <3>3. NamesComeFromFirstFile'
      BY <2>1, <2>7, <3>2 DEF NamesState, NamesComeFromFirstFile
    <3>4. Len(FirstNames) \in Nat
      BY <2>7, FirstNamesType
    <3>5. /\ Len(FirstNames') <= Len(lexedIds')
          /\ \A i \in 1..Len(FirstNames') : lexedIds'[i] = FirstNames'[i]
      BY <2>4, <2>7, <3>2, <3>4 DEF NamesState
    <3>6. QED
      BY <2>1, <2>3, <2>4, <2>5, <3>3, <3>5 DEF NamesState
  <2>8. QED BY <2>6, <2>7
<1>2. CASE Parse
  <2>1. UNCHANGED <<lexed, lexedIds, cur>> /\ pc = "dumped"
    BY <1>2 DEF Parse
  <2>2. lexed # <<>>
    BY <2>1, LoopHere DEF LoopState, LoopPcs
  <2>3. PICK n \in 0..2 :
          \/ lookups' = lookups
          \/ /\ n <= Len(lexedIds)
             /\ lookups' = lookups \o [k \in 1..n |-> [file |-> File, text |-> lexedIds[k]]]
    BY <1>2 DEF Parse
  <2>4. CASE lookups' = lookups
    BY <2>1, <2>2, <2>4 DEF NamesState, NamesComeFromFirstFile, FirstNames
  <2>5. CASE lookups' # lookups
    <3> DEFINE new == [k \in 1..n |-> [file |-> File, text |-> lexedIds[k]]]
    <3>1. new \in Seq(Lines) /\ Len(new) = n
      <4>1. \A k \in 1..n : lexedIds[k] \in Names
        BY <2>3, <2>5 DEF TypeOK
      <4>2. File \in STRING
        BY <2>1, LoopHere DEF LoopState, File
      <4>3. QED
        BY <4>1, <4>2 DEF Lines
    <3>2. /\ lookups' = lookups \o new /\ lookups \in Seq(Lines)
          /\ DOMAIN lookups = 1..Len(lookups) /\ Len(lookups) \in Nat
      <4>1. lookups \in Seq(Lines)
        BY DEF TypeOK
      <4>2. lookups' = lookups \o new
        BY <2>3, <2>5
      <4>3. QED
        BY <4>1, <4>2, LenProperties
    <3>3. /\ DOMAIN lookups' = 1..(Len(lookups) + n)
          /\ \A k \in 1..(Len(lookups) + n) :
               lookups'[k] = IF k <= Len(lookups) THEN lookups[k]
                                                  ELSE new[k - Len(lookups)]
      BY <3>1, <3>2, ConcatProperties, LenProperties
    <3>4. NamesComeFromFirstFile'
      <4>1. SUFFICES ASSUME Len(FirstNames) >= 2, NEW k \in 1..(Len(lookups) + n)
                     PROVE  \E i \in 1..2 : lookups'[k].text = FirstNames[i]
        BY <2>1, <3>3 DEF NamesComeFromFirstFile, FirstNames
      <4>2. CASE k <= Len(lookups)
        BY <2>2, <3>2, <3>3, <4>1, <4>2 DEF NamesState, NamesComeFromFirstFile, FirstNames
      <4>3. CASE k > Len(lookups)
        <5>1. k - Len(lookups) \in 1..n /\ k - Len(lookups) \in 1..2
          BY <3>2, <4>3
        <5>2. lookups'[k].text = lexedIds[k - Len(lookups)]
          BY <3>2, <3>3, <4>3, <5>1
        <5>3. lexedIds[k - Len(lookups)] = FirstNames[k - Len(lookups)]
          BY <2>2, <4>1, <5>1, FirstNamesType DEF NamesState
        <5>4. QED
          BY <5>1, <5>2, <5>3
      <4>4. QED
        BY <3>2, <4>2, <4>3
    <3>5. QED
      BY <2>1, <2>2, <3>4 DEF NamesState, FirstNames
  <2>6. QED BY <2>4, <2>5
<1>3. CASE Lex /\ ~Opens(File)
  <2>1. UNCHANGED <<lexed, lexedIds, lookups>> /\ pc' \in {"aborted", "undefined"}
    BY <1>3 DEF Lex
  <2>2. QED
    BY <2>1 DEF NamesState, NamesComeFromFirstFile, FirstNames
<1>4. CASE ~(Lex \/ Parse)
  <2>1. /\ UNCHANGED <<lexed, lexedIds, lookups>>
        /\ pc' \in FilePcs => pc \in FilePcs /\ cur' = cur
    <3>1. CASE Help \/ Flag \/ Option \/ OptionWithoutValue \/ Positional \/ CheckFiles
      BY <3>1 DEF Help, Flag, Option, OptionWithoutValue, Positional, CheckFiles,
         HandleFeatureFlag, Reading, session, history
    <3>2. CASE \/ Dump \/ NoDump \/ NextFile \/ NoReturn \/ StopAfterLex
               \/ StopAfterParse \/ Return \/ UNCHANGED vars
      BY <3>2 DEF Dump, NoDump, NextFile, NoReturn, StopAfterLex, StopAfterParse,
         Return, ExitWithLexerStatus, vars, session, history
    <3>3. QED
      BY <1>4, <3>1, <3>2 DEF Next
  <2>2. QED
    BY <2>1 DEF NamesState, NamesComeFromFirstFile, FirstNames
<1>5. QED
  BY <1>1, <1>2, <1>3, <1>4

LEMMA NamesCorrect == Spec => [](TypeOK /\ LoopState /\ OutputState /\ NamesState)
<1>1. Init => NamesState
  BY DEF Init, NamesState, NamesComeFromFirstFile, FilePcs
<1>2. TypeOK /\ LoopState /\ NamesState /\ [Next]_vars => NamesState'
  BY NamesStep
<1>3. QED
  BY <1>1, <1>2, LoopCorrect, OutputCorrect, PTL DEF Spec

(* The names parse() gets for any file are those of the first one.         *)
THEOREM NamesAreOfFirstFile == Spec => []NamesComeFromFirstFile
<1>1. NamesState => NamesComeFromFirstFile
  BY DEF NamesState
<1>2. QED
  BY <1>1, NamesCorrect, PTL

-----------------------------------------------------------------------------
(* What a run dies of.                                                     *)

LEMMA FullyOpened ==
  ASSUME TypeOK, LoopState, pc = "loop", cur <= Len(files), ~CanOpen
  PROVE  Len(files) > limit
<1>1. Len(lexed) = cur - 1 /\ limit \in Nat
  BY DEF LoopState, LoopPcs, TypeOK
<1>2. QED
  BY <1>1, LoopHere DEF CanOpen

LEMMA UndefinedStep ==
  ASSUME TypeOK, LoopState, NamesState, NoUndefinedRead, [Next]_vars
  PROVE  NoUndefinedRead'
<1> USE DEF Goto, FailedAssert
<1>1. SUFFICES ASSUME pc' = "undefined" PROVE NoUndefinedRead'
  BY DEF NoUndefinedRead
<1>2. CASE UNCHANGED vars
  BY <1>2 DEF NoUndefinedRead, vars, given, options, session, history
<1>3. CASE OptionWithoutValue
  <2>1. it = Len(args) /\ ~asserts /\ UNCHANGED <<it, args, asserts>>
    BY <1>1, <1>3 DEF OptionWithoutValue, given, options
  <2>2. QED
    BY <2>1 DEF NoUndefinedRead
<1>4. CASE Lex
  <2>1. UNCHANGED <<files, limit, asserts>> /\ pc = "loop" /\ cur <= Len(files)
    BY <1>4 DEF Lex, given, options
  <2>2. (Missing(File) \/ File \in Unreadable \/ ~CanOpen) /\ ~asserts
    BY <1>1, <1>4 DEF Lex, Opens
  <2>3. Missing(File) \/ File \in Unreadable =>
          \E i \in DOMAIN files : Absent(files[i]) \/ files[i] \in Unreadable
    BY <2>1, LoopHere DEF Missing, File
  <2>4. ~CanOpen => Len(files) > limit
    BY <2>1, FullyOpened
  <2>5. QED
    BY <2>1, <2>2, <2>3, <2>4 DEF NoUndefinedRead, Absent
<1>5. CASE Dump \/ Parse
  <2>1. /\ pc \in {"lexed", "dumped"} /\ UNCHANGED lexed
        /\ \E k \in DOMAIN toks : toks[k] = "id"
        /\ \/ DumpReadsPastEnd
           \/ 2 > Len(lexedIds)
    <3>1. CASE Dump
      BY <1>1, <3>1 DEF Dump, DumpReadsPastEnd
    <3>2. CASE Parse
      <4>1. PICK n \in 0..2 : n > Len(lexedIds) /\ (n > 0 => \E k \in DOMAIN toks : toks[k] = "id")
        BY <1>1, <3>2 DEF Parse
      <4>2. Len(lexedIds) \in Nat
        BY DEF TypeOK
      <4>3. QED
        BY <3>2, <4>1, <4>2 DEF Parse
    <3>3. QED
      BY <1>5, <3>1, <3>2
  <2> DEFINE content == lexed[cur].content
  <2>2. /\ cur \in DOMAIN lexed /\ toks = content.toks
        /\ Len(content.names) <= Len(lexedIds)
    BY <2>1, LoopHere DEF LoopState, NamesState, FilePcs, LoopPcs
  <2>3. /\ IdCount(content) \in Nat /\ Len(lexedIds) \in Nat
        /\ \A k \in DOMAIN toks : IdIndex(k) <= IdCount(content)
        /\ \A k \in DOMAIN toks : toks[k] = "id" => IdCount(content) >= 1
    <3>1. ASSUME NEW k \in DOMAIN toks
          PROVE  /\ IdIndex(k) \in Nat /\ (toks[k] = "id" => IdIndex(k) >= 1)
                 /\ IdIndex(k) <= IdCount(content) /\ IdCount(content) \in Nat
      BY <2>2, IdIndexBounds DEF IdCount
    <3>2. Len(lexedIds) \in Nat
      BY DEF TypeOK
    <3>3. QED
      BY <2>1, <3>1, <3>2
  <2>4. Len(content.names) \in Nat
    <3>1. lexed[cur] \in [file : STRING, content : Content]
      BY <2>2, LoopHere, ElementOfSeq
    <3>2. QED
      BY <3>1, LenProperties DEF Content
  <2>5. IdCount(content) = 1 \/ IdCount(content) > Len(content.names)
    <3>1. CASE DumpReadsPastEnd
      <4>1. PICK k \in DOMAIN toks : toks[k] = "id" /\ IdIndex(k) > Len(lexedIds)
        BY <3>1 DEF DumpReadsPastEnd
      <4>2. IdIndex(k) \in Nat
        BY IdIndexBounds
      <4>3. QED
        BY <2>2, <2>3, <2>4, <4>1, <4>2
    <3>2. CASE 2 > Len(lexedIds)
      BY <2>1, <2>2, <2>3, <2>4, <3>2
    <3>3. QED BY <2>1, <3>1, <3>2
  <2>6. QED
    BY <2>1, <2>2, <2>5 DEF NoUndefinedRead
<1>6. QED
  BY <1>1, <1>2, <1>3, <1>4, <1>5, Endings

(* No run with enough names, on existing files that can be opened, reads   *)
(* past a vector.                                                          *)
THEOREM UndefinedReadsExplained == Spec => []NoUndefinedRead
<1>1. Init => NoUndefinedRead
  BY DEF Init, NoUndefinedRead
<1>2. TypeOK /\ LoopState /\ NamesState /\ NoUndefinedRead /\ [Next]_vars => NoUndefinedRead'
  BY UndefinedStep
<1>3. QED
  BY <1>1, <1>2, NamesCorrect, PTL DEF Spec

LEMMA AbortStep ==
  ASSUME TypeOK, LoopState, AbortsExplained, [Next]_vars
  PROVE  AbortsExplained'
<1> USE DEF Goto, FailedAssert
<1>1. SUFFICES ASSUME pc' = "aborted" PROVE AbortsExplained'
  BY DEF AbortsExplained
<1>2. CASE UNCHANGED vars
  <2>1. UNCHANGED <<args, asserts, limit, it, pc, files, vals, flags, toks>>
    BY <1>2 DEF vars, given, options, session
  <2>2. QED
    BY <2>1 DEF AbortsExplained, Absent, Dumping
<1>3. CASE Option
  <2>1. \/ vals'[SetFlag] \notin DOMAIN FlagBits
        \/ asserts' /\ vals'[SetFlag] \in Commaless
    BY <1>1, <1>3 DEF Option, HandleFeatureFlag, Reading, given
  <2>2. QED
    BY <2>1 DEF AbortsExplained
<1>4. CASE OptionWithoutValue
  <2>1. it = Len(args) /\ args[it] \in Options /\ asserts /\ UNCHANGED <<it, args, asserts>>
    BY <1>1, <1>4 DEF OptionWithoutValue, given, options, Arg
  <2>2. QED
    BY <2>1 DEF AbortsExplained
<1>5. CASE CheckFiles
  <2>1. /\ UNCHANGED <<files, asserts>>
        /\ \E i \in DOMAIN files :
             files[i] \in Hidden \/ (asserts /\ files[i] \in Directories)
    BY <1>1, <1>5 DEF CheckFiles, DiesOf, given, options
  <2>2. QED
    BY <2>1 DEF AbortsExplained
<1>6. CASE Lex
  <2>1. UNCHANGED <<files, limit, asserts>> /\ pc = "loop" /\ cur <= Len(files)
    BY <1>6 DEF Lex, given, options
  <2>2. (Missing(File) \/ File \in Unreadable \/ ~CanOpen) /\ asserts
    BY <1>1, <1>6 DEF Lex, Opens
  <2>3. Missing(File) \/ File \in Unreadable =>
          \E i \in DOMAIN files : Absent(files[i]) \/ files[i] \in Unreadable
    BY <2>1, LoopHere DEF Missing, File
  <2>4. ~CanOpen => Len(files) > limit
    BY <2>1, FullyOpened
  <2>5. QED
    BY <2>1, <2>2, <2>3, <2>4 DEF AbortsExplained, Absent
<1>7. CASE Dump
  <2>1. asserts /\ DumpFails /\ Dumping /\ UNCHANGED <<asserts, flags, toks>>
    BY <1>1, <1>7 DEF Dump, given, options, Dumping
  <2>2. QED
    BY <2>1 DEF AbortsExplained, DumpFails, Dumping
<1>8. QED
  BY <1>1, <1>2, <1>3, <1>4, <1>5, <1>6, <1>7, Endings

(* What the driver dies of.                                                *)
THEOREM AbortsAreExplained == Spec => []AbortsExplained
<1>1. Init => AbortsExplained
  BY DEF Init, AbortsExplained
<1>2. TypeOK /\ LoopState /\ AbortsExplained /\ [Next]_vars => AbortsExplained'
  BY AbortStep
<1>3. QED
  BY <1>1, <1>2, LoopCorrect, PTL DEF Spec
=============================================================================
