--------------------------- MODULE CompileProofs ----------------------------
(***************************************************************************)
(* What holds of the whole compiler: what is proved of Lexer and Parser    *)
(* alone holds while they run inside it, and it implements Driver.         *)
(***************************************************************************)
EXTENDS Compile, FiniteSetTheorems, SequenceTheorems, TLAPS

LP == INSTANCE LexingProofs WITH pc <- lexPc, toks <- lexToks,
                                 Texts <- {}, Keywords <- DOMAIN KeywordOf
PP == INSTANCE ParserProofs WITH toks <- ParserTokens, slack <- <<>>, pc <- parsePc,
                                 lookups <- looked, TokenStreams <- {}, Slacks <- {}
DP == INSTANCE DriverProofs WITH Names <- Seq(L!Alnum)

(* The steps of L and P are the ones LexerProofs and ParserProofs are      *)
(* about: the same definitions, instantiated twice.                        *)
LEMMA SameLexer == L!Next <=> LP!Next
<1>1. /\ L!Blank <=> LP!Blank
      /\ L!CharToken <=> LP!CharToken
      /\ L!Newline <=> LP!Newline
      /\ L!EndOfFile <=> LP!EndOfFile
      /\ L!EndUnseen <=> LP!EndUnseen
  BY Zenon DEF L!Blank, LP!Blank, L!CharToken, LP!CharToken, L!Newline, LP!Newline,
     L!EndOfFile, LP!EndOfFile, L!EndUnseen, LP!EndUnseen, L!Case, LP!Case, L!Blanks,
     LP!Blanks, L!Ignored, LP!Ignored, L!Alpha, LP!Alpha, L!PastEnd, LP!PastEnd,
     L!EndCase, LP!EndCase, L!given, LP!given, L!lexemes, LP!lexemes, L!CharTokens,
     LP!CharTokens, L!Push, LP!Push, L!Goto, LP!Goto, L!Token, LP!Token, L!Min, LP!Min
<1>2. /\ L!LineComment <=> LP!LineComment
      /\ L!BlockComment <=> LP!BlockComment
  BY Zenon DEF L!LineComment, LP!LineComment, L!BlockComment, LP!BlockComment, L!Case,
     LP!Case, L!Char, LP!Char, L!LineCommentEnds, LP!LineCommentEnds, L!Push, LP!Push,
     L!ReadTo, LP!ReadTo, L!EndCase, LP!EndCase, L!Goto, LP!Goto, L!given, LP!given,
     L!lexemes, LP!lexemes, L!BlockCommentEnds, LP!BlockCommentEnds, L!AbortsBefore,
     LP!AbortsBefore, L!EndsSeen, LP!EndsSeen, L!NoByte, LP!NoByte, L!Token, LP!Token,
     L!Counted, LP!Counted, L!OpensRun, LP!OpensRun, L!Min, LP!Min, L!Cardinality,
     LP!Cardinality
<1>3. /\ L!Slash <=> LP!Slash
      /\ L!StringLiteral <=> LP!StringLiteral
      /\ L!NumberLiteral <=> LP!NumberLiteral
  BY Zenon DEF L!Slash, LP!Slash, L!StringLiteral, LP!StringLiteral, L!NumberLiteral,
     LP!NumberLiteral, L!Case, LP!Case, L!Char, LP!Char, L!ReadTo, LP!ReadTo, L!Token,
     LP!Token, L!RawToken, LP!RawToken, L!EndCase, LP!EndCase, L!given, LP!given,
     L!lexemes, LP!lexemes, L!StringEnds, LP!StringEnds, L!Push, LP!Push, L!Goto, LP!Goto,
     L!Digits, LP!Digits, L!NumberEnd, LP!NumberEnd, L!Suffixes, LP!Suffixes,
     L!ReadToUnget, LP!ReadToUnget, L!NoByte, LP!NoByte, L!Counted, LP!Counted, L!Ungot,
     LP!Ungot, L!Min, LP!Min, L!Cardinality, LP!Cardinality
<1>4. /\ L!Identifier <=> LP!Identifier
      /\ L!NoIdentifier <=> LP!NoIdentifier
  BY Zenon DEF L!Identifier, LP!Identifier, L!NoIdentifier, LP!NoIdentifier, L!Alpha,
     LP!Alpha, L!IdentifierEnd, LP!IdentifierEnd, L!Spelling, LP!Spelling, L!Push,
     LP!Push, L!StoreId, LP!StoreId, L!ReadAfter, LP!ReadAfter, L!Ungot, LP!Ungot, L!Goto,
     LP!Goto, L!given, LP!given, L!lexemes, LP!lexemes, L!Char, LP!Char, L!Alnum,
     LP!Alnum, L!Token, LP!Token, L!NoByte, LP!NoByte, L!Digits, LP!Digits, L!Min, LP!Min
<1> QED BY <1>1, <1>2, <1>3, <1>4, Zenon DEF L!Next, LP!Next

LEMMA SameGuards ==
  /\ P!ReadsMapped <=> PP!ReadsMapped
  /\ P!Dies <=> PP!Dies
  /\ P!Halted <=> PP!Halted
BY Zenon DEF P!ReadsMapped, PP!ReadsMapped, P!Dies, PP!Dies, P!Halted, PP!Halted, P!Reads,
   PP!Reads, P!Token, PP!Token, P!Unmapped, PP!Unmapped, P!EatsTheEnd, PP!EatsTheEnd,
   P!CursorAsserted, PP!CursorAsserted, P!SpecifierAsserted, PP!SpecifierAsserted,
   P!HaltedPcs, PP!HaltedPcs, P!Silent, PP!Silent, P!Eats, PP!Eats, P!Size, PP!Size,
   P!Scanned, PP!Scanned, P!Current, PP!Current, P!Peeked, PP!Peeked, P!HasPeek,
   PP!HasPeek, P!Limit, PP!Limit, P!Doubled, PP!Doubled, P!CanAdvance, PP!CanAdvance,
   P!Unsupported, PP!Unsupported, P!Modifiers, PP!Modifiers, P!Stops, PP!Stops, P!PCs,
   PP!PCs, P!Wanted, PP!Wanted, P!AttributePcs, PP!AttributePcs, P!DeclaratorPcs,
   PP!DeclaratorPcs

LEMMA SameParser == P!Next <=> PP!Next
<1>1. ASSUME NEW p PROVE P!Step(p) <=> PP!Step(p)
  BY SameGuards DEF P!Step, PP!Step
<1>2. /\ P!ExternalDeclaration <=> PP!ExternalDeclaration
      /\ P!AttributeSpecifiers <=> PP!AttributeSpecifiers
      /\ P!AttributeList <=> PP!AttributeList
      /\ P!AttributeName <=> PP!AttributeName
      /\ P!AttributeScopedName <=> PP!AttributeScopedName
      /\ P!AttributeArguments <=> PP!AttributeArguments
      /\ P!AttributeClose <=> PP!AttributeClose
  BY <1>1, SameGuards, Zenon DEF P!ExternalDeclaration, PP!ExternalDeclaration,
     P!AttributeSpecifiers, PP!AttributeSpecifiers, P!AttributeList, PP!AttributeList,
     P!AttributeName, PP!AttributeName, P!AttributeScopedName, PP!AttributeScopedName,
     P!AttributeArguments, PP!AttributeArguments, P!AttributeClose, PP!AttributeClose,
     P!Size, PP!Size, P!Goto, PP!Goto, P!PushIndex, PP!PushIndex, P!NewType, PP!NewType,
     P!given, PP!given, P!names, PP!names, P!Doubled, PP!Doubled, P!Move, PP!Move,
     P!Current, PP!Current, P!HasPeek, PP!HasPeek, P!decl, PP!decl, P!Report, PP!Report,
     P!Token, PP!Token, P!Limit, PP!Limit, P!Unmapped, PP!Unmapped
<1>3. P!DeclarationSpecifiers <=> PP!DeclarationSpecifiers
  BY <1>1, SameGuards, Zenon DEF P!DeclarationSpecifiers, PP!DeclarationSpecifiers,
     P!StorageClassSpecifier, PP!StorageClassSpecifier, P!TypeSpecifier, PP!TypeSpecifier,
     P!FunctionSpecifier, PP!FunctionSpecifier, P!Move, PP!Move, P!Current, PP!Current,
     P!Specifiers, PP!Specifiers, P!Goto, PP!Goto, P!given, PP!given, P!names, PP!names,
     P!StorageClasses, PP!StorageClasses, P!PlainCategories, PP!PlainCategories,
     P!MergedCategories, PP!MergedCategories, P!Merge, PP!Merge, P!Modifiers,
     PP!Modifiers, P!FunctionSpecs, PP!FunctionSpecs, P!Token, PP!Token, P!MergeRules,
     PP!MergeRules, P!Size, PP!Size, P!Limit, PP!Limit, P!Unmapped, PP!Unmapped
<1>4. /\ P!Pointer <=> PP!Pointer
      /\ P!FindFirstOf <=> PP!FindFirstOf
      /\ P!FunctionDeclarator <=> PP!FunctionDeclarator
      /\ P!FunctionParen <=> PP!FunctionParen
      /\ P!FunctionParameters <=> PP!FunctionParameters
  BY <1>1, SameGuards, Zenon DEF P!Pointer, PP!Pointer, P!FindFirstOf, PP!FindFirstOf,
     P!FunctionDeclarator, PP!FunctionDeclarator, P!FunctionParen, PP!FunctionParen,
     P!FunctionParameters, PP!FunctionParameters, P!SkipAsterisk, PP!SkipAsterisk,
     P!Current, PP!Current, P!Goto, PP!Goto, P!given, PP!given, P!names, PP!names, P!decl,
     PP!decl, P!Scanned, PP!Scanned, P!Token, PP!Token, P!PushIndex, PP!PushIndex,
     P!Identifier, PP!Identifier, P!NoIdentifier, PP!NoIdentifier, P!PopIndex,
     PP!PopIndex, P!Move, PP!Move, P!Limit, PP!Limit, P!Stops, PP!Stops, P!Size, PP!Size,
     P!Unmapped, PP!Unmapped, P!Lookup, PP!Lookup, P!Wanted, PP!Wanted
<1>5. /\ P!DirectDeclarator <=> PP!DirectDeclarator
      /\ P!DeclaratorParsed <=> PP!DeclaratorParsed
      /\ P!CloseParen <=> PP!CloseParen
      /\ P!DeclaratorFailed <=> PP!DeclaratorFailed
      /\ P!FunctionBody <=> PP!FunctionBody
      /\ P!FunctionDefinitionFailed <=> PP!FunctionDefinitionFailed
      /\ P!Declaration <=> PP!Declaration
      /\ P!Dispatch <=> PP!Dispatch
      /\ P!ReadPastStorage <=> PP!ReadPastStorage
      /\ P!Abort <=> PP!Abort
  BY <1>1, SameGuards, Zenon DEF P!DirectDeclarator, PP!DirectDeclarator,
     P!DeclaratorParsed, PP!DeclaratorParsed, P!CloseParen, PP!CloseParen,
     P!DeclaratorFailed, PP!DeclaratorFailed, P!FunctionBody, PP!FunctionBody,
     P!FunctionDefinitionFailed, PP!FunctionDefinitionFailed, P!Declaration,
     PP!Declaration, P!Dispatch, PP!Dispatch, P!ReadPastStorage, PP!ReadPastStorage,
     P!Abort, PP!Abort, P!Identifier, PP!Identifier, P!Goto, PP!Goto, P!NoIdentifier,
     PP!NoIdentifier, P!Current, PP!Current, P!Move, PP!Move, P!names, PP!names, P!given,
     PP!given, P!decl, PP!decl, P!UngetToken, PP!UngetToken, P!PopIndex, PP!PopIndex,
     P!Keywords, PP!Keywords, P!Report, PP!Report, P!Lookup, PP!Lookup, P!Token, PP!Token,
     P!Specifiers, PP!Specifiers, P!Unsupported, PP!Unsupported, P!OtherKeywords,
     PP!OtherKeywords, P!Size, PP!Size, P!Limit, PP!Limit, P!Unmapped, PP!Unmapped,
     P!StorageClasses, PP!StorageClasses, P!PlainCategories, PP!PlainCategories,
     P!MergedCategories, PP!MergedCategories, P!Modifiers, PP!Modifiers, P!FunctionSpecs,
     PP!FunctionSpecs
<1> QED BY <1>2, <1>3, <1>4, <1>5, Zenon DEF P!Next, PP!Next

LEMMA SameCount == ASSUME NEW S PROVE LP!Cardinality(S) = Cardinality(S)
BY DEF LP!Cardinality, Cardinality

LEMMA SameAlphabet == L!Chars = LP!Chars /\ L!Alnum = LP!Alnum /\ L!Alpha = LP!Alpha
BY DEF L!Chars, LP!Chars, L!Alnum, LP!Alnum, L!Alpha, LP!Alpha, L!CharTokens, LP!CharTokens,
   L!Digits, LP!Digits, L!Blanks, LP!Blanks, L!Ignored, LP!Ignored

LEMMA SameLexing == ASSUME NEW t PROVE L!LexOf(t) = LP!LexOf(t)
<1>1. ASSUME NEW u, NEW rest, NEW ch, NEW p
      PROVE  L!LexWord(u, rest, ch, p) = LP!LexWord(u, rest, ch, p)
  BY Zenon DEF L!LexWord, LP!LexWord, L!Alpha, LP!Alpha, L!EndOfRun, LP!EndOfRun, L!Alnum,
     LP!Alnum, L!Prepend, LP!Prepend, L!Behind, LP!Behind, L!Byte, LP!Byte, L!Digits,
     LP!Digits, L!Min, LP!Min
<1>2. ASSUME NEW u, NEW rest, NEW p
      PROVE  L!LexNumber(u, rest, p) = LP!LexNumber(u, rest, p)
  BY <1>1, Zenon DEF L!LexNumber, LP!LexNumber, L!EndOfRun, LP!EndOfRun, L!Digits,
     LP!Digits, L!Prepend, LP!Prepend, L!Byte, LP!Byte, L!Suffixes, LP!Suffixes, L!Behind,
     LP!Behind, L!Min, LP!Min
<1>3. ASSUME NEW u, NEW rest, NEW p
      PROVE  L!LexSlash(u, rest, p) = LP!LexSlash(u, rest, p)
  BY <1>1, Zenon DEF L!LexSlash, LP!LexSlash, L!Byte, LP!Byte, L!LexTo, LP!LexTo,
     L!CommentEnds, LP!CommentEnds, L!Prepend, LP!Prepend, L!RawToken, LP!RawToken,
     L!Nothing, LP!Nothing, L!Min, LP!Min
<1>4. ASSUME NEW u, NEW rest, NEW p
      PROVE  L!LexAt(u, rest, p) = LP!LexAt(u, rest, p)
  BY <1>1, <1>2, <1>3, Zenon DEF L!LexAt, LP!LexAt, L!Byte, LP!Byte, L!Nothing,
     LP!Nothing, L!CharTokens, LP!CharTokens, L!Prepend, LP!Prepend, L!LexTo, LP!LexTo,
     L!Digits, LP!Digits, L!Min, LP!Min
<1> QED BY <1>4 DEF L!LexOf, LP!LexOf, L!LexRest, LP!LexRest

LEMMA SameTokens == P!TokenIds = PP!TokenIds /\ P!Keywords = PP!Keywords
BY DEF P!TokenIds, PP!TokenIds, P!Keywords, PP!Keywords, P!OtherTokens, PP!OtherTokens,
   P!Specifiers, PP!Specifiers, P!StorageClasses, PP!StorageClasses,
   P!PlainCategories, PP!PlainCategories, P!MergedCategories, PP!MergedCategories,
   P!Modifiers, PP!Modifiers, P!FunctionSpecs, PP!FunctionSpecs,
   P!Unsupported, PP!Unsupported, P!OtherKeywords, PP!OtherKeywords

-----------------------------------------------------------------------------
(* Which of main(), lex() and parse() runs.                                *)

StringsOfChars == Seq(LP!Alnum)

Phase ==
  /\ args \in Seq(STRING) /\ it \in Nat \ {0} /\ files \in Seq(STRING) /\ cur \in Nat
  /\ asserts \in BOOLEAN /\ signed \in BOOLEAN
  /\ lexedIds \in Seq(StringsOfChars)
  /\ lexPc # "idle" =>
       /\ pc \in {"loop", "stuck"} /\ (lexPc = "done" => pc = "loop")
       /\ pc = "loop" => /\ cur <= Len(files) /\ D!Opens(D!File)
                         /\ text = TextOf(D!File)
  /\ parsePc # "idle" =>
       /\ pc \in {"dumped", "undefined", "stuck"} /\ (parsePc = "done" => pc = "dumped")
       /\ pc = "dumped" => vals["-fstop-after-phase"] # "lex"
  /\ pc \in {"lexed", "dumped"} => toks = DumpTokens

LexerState ==
  /\ lexPc # "idle" => LP!Typed /\ LP!Apart /\ LP!IdsMatch /\ LP!Coming
  /\ lexToks \in Seq(LP!Tokens) /\ LP!KeywordsSpelled

ParserState ==
  /\ parsePc # "idle" => /\ PP!IInv
                         /\ looked # <<>> => \E k \in DOMAIN lexToks : ParserTokens[k] = "id"
  /\ parsePc # "idle" /\ pc = "dumped" =>
       \A k \in DOMAIN looked : looked[k].str < Len(lexedIds)

IInv == Phase /\ LexerState /\ ParserState

LEMMA GivenHere == Arguments \subseteq Seq(STRING) /\ Builds \subseteq BOOLEAN
BY CompileAssumption DEF D!SystemConstants

LEMMA InitInvariant == Init => IInv
<1>1. SUFFICES ASSUME Init PROVE IInv
  OBVIOUS
<1>2. asserts \in BOOLEAN /\ signed \in BOOLEAN
  BY <1>1, CompileAssumption, GivenHere DEF Init, D!Init
<1>3. lexPc = "idle" /\ parsePc = "idle" /\ pc = "args" /\ lexedIds = <<>> /\ lexToks = <<>>
  BY <1>1 DEF Init, D!Init
<1>4. Phase
  <2>1. args \in Seq(STRING) /\ it = 1 /\ files = <<>> /\ cur = 1
    BY <1>1, CompileAssumption, GivenHere DEF Init, D!Init
  <2> QED BY <1>2, <1>3, <2>1 DEF Phase
<1>5. lexToks \in Seq(LP!Tokens) /\ LP!KeywordsSpelled
  BY <1>3 DEF LP!KeywordsSpelled
<1> QED BY <1>3, <1>4, <1>5 DEF IInv, LexerState, ParserState

(* The assumptions of Lexer, as it is used here.                           *)
LEMMA LexerAssumed ==
  /\ {} \subseteq Seq(LP!Chars) /\ DOMAIN KeywordOf \subseteq Seq(LP!Alnum)
  /\ Builds \subseteq BOOLEAN /\ CharSigns \subseteq BOOLEAN
BY CompileAssumption, GivenHere, SameAlphabet

LEMMA LexerStarts ==
  LP!Start' => (LP!Typed /\ LP!Apart /\ LP!IdsMatch /\ LP!Coming)'
<1>1. LP!Start => LP!Typed /\ LP!Apart /\ LP!IdsMatch /\ LP!Coming
  BY LP!TypedStart, LP!IdsStart, LP!ComingStart, LexerAssumed
<1> QED BY <1>1, PTL

LEMMA ParserStarts == PP!Start' => PP!IInv'
<1>1. PP!Start => PP!IInv
  BY PP!StartInvariant, GivenHere
<1> QED BY <1>1, PTL

-----------------------------------------------------------------------------
(* The tokens, as the parser and the dump see them.                        *)

LEMMA SpellingIs == ASSUME NEW k PROVE Spelled(k) = LP!KeywordSpelling(k)
BY SameAlphabet DEF Spelled, LP!KeywordSpelling

LEMMA PunctuationIs == ASSUME NEW t PROVE Punctuation(t) \in P!OtherTokens \ {"id"}
BY DEF Punctuation, P!OtherTokens

LEMMA PunctuationsNoKeywords == ASSUME NEW t PROVE Punctuation(t) \notin P!Keywords
<1>1. P!OtherTokens \cap P!Keywords = {}
  BY Zenon DEF P!OtherTokens, P!Keywords, P!Specifiers, P!StorageClasses, P!PlainCategories,
     P!MergedCategories, P!Modifiers, P!FunctionSpecs, P!Unsupported, P!OtherKeywords
<1> QED BY <1>1, PunctuationIs

LEMMA KeywordIs ==
  ASSUME LexerState, NEW i \in DOMAIN lexToks, lexToks[i].id = "keyword"
  PROVE  /\ Spelled(lexToks[i]) \in DOMAIN KeywordOf
         /\ ParserToken(lexToks[i]) \in P!Keywords
<1>1. Spelled(lexToks[i]) \in DOMAIN KeywordOf
  BY SpellingIs DEF LexerState, LP!KeywordsSpelled
<1> QED BY <1>1, CompileAssumption DEF ParserToken

LEMMA DumpIdIs == ASSUME NEW k PROVE DumpToken(k) = "id" <=> k = "id"
BY DEF DumpToken, L!CharTokens

LEMMA IdIsNoKeyword == "id" \notin P!Keywords
BY DEF P!Keywords, P!Specifiers, P!StorageClasses, P!PlainCategories, P!MergedCategories,
   P!Modifiers, P!FunctionSpecs, P!Unsupported, P!OtherKeywords

LEMMA TokenIs ==
  ASSUME LexerState, NEW i \in DOMAIN lexToks
  PROVE  /\ ParserToken(lexToks[i]) \in P!TokenIds
         /\ ParserToken(lexToks[i]) = "id" => DumpToken(lexToks[i].id) = "id"
<1> DEFINE k == lexToks[i]
<1>1. CASE k.id \in {"id", "newline"}
  <2>1. ParserToken(k) = k.id
    BY <1>1 DEF ParserToken
  <2> QED BY <1>1, <2>1, DumpIdIs DEF P!TokenIds, P!OtherTokens
<1>2. CASE k.id = "keyword"
  BY <1>2, KeywordIs, IdIsNoKeyword DEF P!TokenIds
<1>3. CASE k.id \notin {"id", "newline", "keyword"}
  <2>1. ParserToken(k) = Punctuation(k.id)
    BY <1>3 DEF ParserToken
  <2> QED BY <2>1, PunctuationIs DEF P!TokenIds
<1> QED BY <1>1, <1>2, <1>3

LEMMA StreamIs ==
  ASSUME LexerState
  PROVE  /\ ParserTokens \in Seq(PP!TokenIds)
         /\ DOMAIN ParserTokens = DOMAIN lexToks /\ DOMAIN DumpTokens = DOMAIN lexToks
         /\ \A i \in DOMAIN lexToks : ParserTokens[i] = "id" => DumpTokens[i] = "id"
<1>1. Len(lexToks) \in Nat /\ DOMAIN lexToks = 1..Len(lexToks)
  BY LenProperties DEF LexerState
<1>2. \A i \in 1..Len(lexToks) : ParserToken(lexToks[i]) \in PP!TokenIds
  BY <1>1, TokenIs, SameTokens
<1>3. [i \in 1..Len(lexToks) |-> ParserToken(lexToks[i])] \in Seq(PP!TokenIds)
  BY <1>1, <1>2
<1>4. ParserTokens \in Seq(PP!TokenIds)
  BY <1>1, <1>3 DEF ParserTokens
<1> QED BY <1>4, TokenIs DEF ParserTokens, DumpTokens

(* A token id of the lexer is one of the dump.                             *)
LEMMA DumpIds ==
  {k \in DOMAIN lexToks : DumpTokens[k] = "id"} = {k \in DOMAIN lexToks : lexToks[k].id = "id"}
<1>1. \A k \in DOMAIN lexToks : DumpTokens[k] = "id" <=> lexToks[k].id = "id"
  BY DumpIdIs DEF DumpTokens
<1> QED BY <1>1

-----------------------------------------------------------------------------
(* The lexer and the parser under the steps of main().                     *)

LEMMA LexerKept ==
  ASSUME LexerState, UNCHANGED <<asserts, text, signed, c, next, loc, lexToks, ids, nums, strs>>,
         lexPc' = lexPc \/ lexPc' = "idle"
  PROVE  LexerState'
<1>1. LP!KeywordsSpelled'
  BY DEF LexerState, LP!KeywordsSpelled, LP!KeywordSpelling
<1>2. (lexToks \in Seq(LP!Tokens))'
  BY DEF LexerState
<1>3. ASSUME lexPc' # "idle"
      PROVE  (LP!Typed /\ LP!Apart /\ LP!IdsMatch /\ LP!Coming)'
  <2>1. LP!Typed /\ LP!Apart /\ LP!IdsMatch /\ LP!Coming
    BY <1>3 DEF LexerState
  <2>2. UNCHANGED LP!vars
    BY <1>3 DEF LP!vars, LP!given, LP!lexemes
  <2> QED BY <2>1, <2>2, LexerAssumed, LP!TypedStep, LP!IdsSame,
         LP!ComingStep
<1> QED BY <1>1, <1>2, <1>3 DEF LexerState

LEMMA LexerSteps ==
  ASSUME LexerState, lexPc # "idle", L!Next
  PROVE  LexerState'
<1>1. /\ LP!Next /\ LP!Typed /\ LP!Apart /\ LP!IdsMatch /\ LP!Coming
      /\ LP!KeywordsSpelled
  BY SameLexer DEF LexerState
<1>2. LP!Typed'
  BY <1>1, LexerAssumed, LP!TypedStep
<1>3. LP!Apart' /\ LP!IdsMatch' /\ LP!KeywordsSpelled' /\ LP!Coming'
  BY <1>1, LexerAssumed, LP!ApartStep, LP!IdsStep, LP!KeywordsStep, LP!ComingStep
<1>4. (lexToks \in Seq(LP!Tokens))'
  BY <1>2 DEF LP!Typed, LP!TypeOK, LP!Tokens
<1> QED BY <1>2, <1>3, <1>4 DEF LexerState

LEMMA TokensKept ==
  ASSUME UNCHANGED <<text, lexToks>>
  PROVE  UNCHANGED <<ParserTokens, DumpTokens>>
BY DEF ParserTokens, DumpTokens, ParserToken, DumpToken, Spelled

LEMMA ParserKept ==
  ASSUME ParserState, UNCHANGED <<asserts, text, lexToks, parserVars>>,
         pc' = "dumped" /\ parsePc # "idle" => pc = "dumped" /\ UNCHANGED lexedIds
  PROVE  ParserState'
<1>1. UNCHANGED <<ParserTokens, parsePc, looked, lexToks>>
  BY TokensKept DEF parserVars
<1>2. ASSUME parsePc # "idle" PROVE PP!IInv'
  <2>1. UNCHANGED PP!vars
    BY <1>1 DEF parserVars, PP!vars, PP!given, PP!names, PP!decl
  <2>2. PP!IInv
    BY <1>2 DEF ParserState
  <2> QED BY <2>1, <2>2, GivenHere, PP!StepInvariant
<1> QED BY <1>1, <1>2 DEF ParserState

LEMMA ParserIdle == ASSUME parsePc' = "idle" PROVE ParserState'
BY DEF ParserState

LEMMA CurrentIs ==
  ASSUME LexerState, idx \in Nat, PP!Current = "id"
  PROVE  \E k \in DOMAIN lexToks : ParserTokens[k] = "id"
<1>1. PP!Size \in Nat /\ DOMAIN ParserTokens = 1..PP!Size
  BY StreamIs, LenProperties DEF PP!Size
<1>2. Len(<<>>) = 0
  OBVIOUS
<1>3. PP!Limit = PP!Size
  BY <1>1, <1>2 DEF PP!Limit
<1>4. idx < PP!Size /\ ParserTokens[idx + 1] = "id"
  BY <1>1, <1>3 DEF PP!Current, PP!Token, PP!Unmapped
<1>5. idx + 1 \in DOMAIN ParserTokens
  BY <1>1, <1>4
<1> QED BY <1>4, <1>5, StreamIs

(* No lookup is the last step of parse().                                  *)
LEMMA LookedUp ==
  ASSUME LexerState, ParserState, ParseStep
  PROVE  /\ PP!IInv /\ PP!Next
         /\ looked' # <<>> => \E k \in DOMAIN lexToks : ParserTokens[k] = "id"
         /\ UNCHANGED looked \/ parsePc' # "done"
<1>1. PP!IInv /\ PP!Next
  BY SameParser DEF ParserState, ParseStep
<1>2. idx \in Nat
  BY <1>1 DEF PP!IInv, PP!Control
<1>3. \/ UNCHANGED looked
      \/ PP!Current = "id" /\ parsePc' \in {"function_paren", "declarator_parsed"}
  BY <1>1, GivenHere, PP!OnlyIdsLookedUp
<1>4. looked # <<>> => \E k \in DOMAIN lexToks : ParserTokens[k] = "id"
  BY DEF ParserState, ParseStep
<1> QED BY <1>1, <1>2, <1>3, <1>4, CurrentIs

LEMMA ParserSteps ==
  ASSUME LexerState, ParserState, ParseStep
  PROVE  ParserState'
<1>1. PP!IInv'
  BY LookedUp, GivenHere, PP!StepInvariant
<1>2. UNCHANGED <<lexToks, ParserTokens>>
  BY TokensKept DEF ParseStep, lexerVars
<1>3. pc' = "dumped" => NamesExist /\ UNCHANGED lexedIds
  BY DEF ParseStep, driverVars
<1> QED BY <1>1, <1>2, <1>3, LookedUp DEF ParserState, NamesExist

-----------------------------------------------------------------------------
(* The invariant, action by action.                                        *)

(* main() parses arguments, dumps, stops or goes on to the next file.      *)
LEMMA DrivingHere ==
  ASSUME Phase, Driving
  PROVE  /\ UNCHANGED <<args, asserts, lexedIds, toks, lexerVars, parserVars>>
         /\ it' \in Nat \ {0} /\ files' \in Seq(STRING) /\ cur' \in Nat
         /\ \/ pc \in {"args", "parsed"} /\ pc' \notin {"lexed", "dumped"}
            \/ pc = "lexed" /\ pc' # "lexed"
            \/ pc = "dumped" /\ vals["-fstop-after-phase"] = "lex" /\ pc' = "exited"
            \/ pc = "loop" /\ cur > Len(files) /\ pc' = "exited"
<1> USE DEF D!Goto, D!Exit, D!given, D!options, D!history, D!session
<1>1. it + 1 \in Nat \ {0} /\ it + 2 \in Nat \ {0} /\ cur + 1 \in Nat
  BY DEF Phase
<1>2. D!Reading => args[it] \in STRING
  BY DEF Phase, D!Reading
<1>3. CASE D!Help \/ D!Flag \/ D!Option \/ D!OptionWithoutValue
  BY <1>1, <1>3 DEF Driving, Phase, D!Help, D!Flag, D!Option, D!OptionWithoutValue, D!Reading,
     D!NextArgument, D!HandleFeatureFlag, D!FailedAssert, lexerVars, parserVars
<1>4. CASE D!Positional
  <2>1. files' = Append(files, args[it]) /\ args[it] \in STRING
    BY <1>2, <1>4 DEF D!Positional, D!Arg
  <2>2. files' \in Seq(STRING)
    BY <2>1 DEF Phase
  <2> QED BY <1>1, <1>4, <2>2 DEF Driving, Phase, D!Positional, D!Reading, D!NextArgument
<1>5. CASE D!CheckFiles
  BY <1>5 DEF Driving, Phase, D!CheckFiles
<1>6. CASE D!Dump \/ D!NoDump
  BY <1>6 DEF Driving, Phase, D!Dump, D!NoDump
<1>7. CASE D!StopAfterLex \/ D!StopAfterParse \/ D!NextFile \/ D!Return
  BY <1>1, <1>7 DEF Driving, Phase, D!StopAfterLex, D!StopAfterParse, D!NextFile, D!Return,
     D!StopAt, D!ExitWithLexerStatus
<1> QED BY <1>3, <1>4, <1>5, <1>6, <1>7 DEF Driving

LEMMA DrivingStep == ASSUME IInv, Driving PROVE IInv'
<1> USE DEF IInv
<1>1. /\ UNCHANGED <<args, asserts, lexedIds, toks, text, signed, lexPc, c, next, loc, lexToks,
                     ids, nums, strs, parserVars, parsePc>>
      /\ it' \in Nat \ {0} /\ files' \in Seq(STRING) /\ cur' \in Nat
  BY DrivingHere DEF lexerVars, parserVars
<1>2. lexPc = "idle"
  <2>1. cur > Len(files) => ~(cur <= Len(files))
    BY LenProperties DEF Phase
  <2> QED BY <2>1, DrivingHere DEF Phase
<1>3. parsePc = "idle"
  BY DrivingHere DEF Phase
<1>4. pc' \in {"lexed", "dumped"} => pc \in {"lexed", "dumped"}
  BY DrivingHere
<1>5. UNCHANGED DumpTokens
  BY <1>1, TokensKept
<1>6. Phase'
  BY <1>1, <1>2, <1>3, <1>4, <1>5 DEF Phase
<1>7. LexerState' /\ ParserState'
  BY <1>1, <1>3, LexerKept, ParserIdle
<1> QED BY <1>6, <1>7

LEMMA SourceIsText ==
  ASSUME NEW f, D!Opens(f)
  PROVE  TextOf(f) \in Seq(LP!Chars)
<1>1. <<>> \in Seq(LP!Chars)
  OBVIOUS
<1>2. f \notin Hidden
  BY CompileAssumption DEF D!Opens, D!SystemConstants
<1> QED BY <1>1, <1>2, CompileAssumption, SameAlphabet
        DEF TextOf, D!Opens, D!Missing, D!Absent, Contents

(* lex() begins on the text of the file.                                   *)
LEMMA LexerOpens == ASSUME IInv, OpenFile PROVE LP!Start'
<1>1. c' = LP!Char(1)'
  BY DEF OpenFile, L!Char, LP!Char, L!NoByte, LP!NoByte
<1>2. text' \in Seq(LP!Chars)
  BY SourceIsText DEF OpenFile
<1>3. asserts' \in BOOLEAN /\ signed' \in BOOLEAN
  BY DEF IInv, Phase, OpenFile, driverVars
<1> QED BY <1>1, <1>2, <1>3 DEF OpenFile, LP!Start

LEMMA OpenFileStep == ASSUME IInv, OpenFile PROVE IInv'
<1> USE DEF IInv
<1>1. /\ pc = "loop" /\ parsePc = "idle" /\ lexPc' = "switch"
      /\ cur <= Len(files) /\ D!Opens(D!File)
      /\ lexToks' = <<>> /\ text' = TextOf(D!File)
      /\ UNCHANGED <<driverVars, parserVars, signed>>
  BY DEF OpenFile, Phase
<1>2. LP!Start'
  BY LexerOpens
<1>3. LexerState'
  <2>1. LP!KeywordsSpelled' /\ (lexToks \in Seq(LP!Tokens))'
    BY <1>1 DEF LP!KeywordsSpelled
  <2> QED BY <1>2, <2>1, LexerStarts DEF LexerState
<1>4. Phase'
  <2>1. UNCHANGED <<D!Opens(D!File), TextOf(D!File)>>
    BY <1>1 DEF driverVars, D!Opens, D!Missing, D!Absent, D!Overwritten, D!File, D!CanOpen,
        TextOf
  <2> QED BY <1>1, <2>1 DEF Phase, driverVars, parserVars
<1>5. ParserState'
  BY <1>1, ParserIdle DEF parserVars
<1> QED BY <1>3, <1>4, <1>5

LEMMA OpenFailsStep == ASSUME IInv, OpenFails PROVE IInv'
<1> USE DEF IInv
<1>1. /\ pc = "loop" /\ pc' \in {"aborted", "undefined"} /\ lexPc = "idle"
      /\ UNCHANGED <<args, it, files, cur, asserts, lexedIds, lexerVars, parserVars>>
  BY DEF OpenFails, D!Lex, D!Goto, D!FailedAssert, D!given, D!options
<1>2. parsePc = "idle"
  BY <1>1 DEF Phase
<1>3. UNCHANGED <<text, signed, lexPc, c, next, loc, lexToks, ids, nums, strs, parsePc>>
  BY <1>1 DEF lexerVars, parserVars
<1>4. Phase'
  BY <1>1, <1>2, <1>3 DEF Phase
<1> QED BY <1>1, <1>2, <1>3, <1>4, LexerKept, ParserIdle

LEMMA LexStepStep == ASSUME IInv, LexStep PROVE IInv'
<1> USE DEF IInv
<1>1. /\ pc = "loop" /\ parsePc = "idle" /\ lexPc # "idle"
      /\ cur <= Len(files) /\ D!Opens(D!File) /\ text = TextOf(D!File)
      /\ UNCHANGED <<driverVars, parserVars, signed, text>>
  <2>1. UNCHANGED <<signed, text>>
    BY SameLexer, LexerAssumed, LP!StepGiven DEF LexStep, LP!given
  <2> QED BY <2>1 DEF LexStep, Phase
<1>2. Phase'
  <2>1. UNCHANGED <<D!Opens(D!File), TextOf(D!File)>>
    BY <1>1 DEF driverVars, D!Opens, D!Missing, D!Absent, D!Overwritten, D!File, D!CanOpen,
        TextOf
  <2> QED BY <1>1, <2>1 DEF Phase, driverVars, parserVars
<1>3. LexerState'
  BY <1>1, LexerSteps DEF LexStep
<1> QED BY <1>1, <1>2, <1>3, ParserIdle DEF parserVars

(* The tokens and the names of lex() become those of main().               *)
LEMMA LexReturnsStep == ASSUME IInv, LexReturns PROVE IInv'
<1> USE DEF IInv
<1>1. /\ pc = "loop" /\ pc' = "lexed" /\ lexPc' = "idle" /\ parsePc = "idle"
      /\ toks' = DumpTokens /\ lexedIds' = lexedIds \o ids
      /\ UNCHANGED <<args, it, files, cur, asserts, text, signed, c, next, loc, lexToks,
                     ids, nums, strs, parserVars>>
  BY DEF LexReturns, Phase
<1>2. lexedIds' \in Seq(StringsOfChars)
  <2>1. ids \in Seq(StringsOfChars)
    BY DEF LexReturns, LexerState, LP!Typed, LP!TypeOK, StringsOfChars
  <2>2. lexedIds \in Seq(StringsOfChars)
    BY DEF Phase
  <2> QED BY <1>1, <2>1, <2>2, ConcatProperties
<1>3. UNCHANGED DumpTokens
  BY <1>1, TokensKept
<1>4. Phase'
  BY <1>1, <1>2, <1>3 DEF Phase, parserVars
<1> QED BY <1>1, <1>4, LexerKept, ParserIdle DEF parserVars

(* parse() begins on the tokens of the file.                               *)
LEMMA ParserOpens == ASSUME IInv, NewParser PROVE PP!Start'
<1>1. UNCHANGED ParserTokens
  BY TokensKept DEF NewParser, lexerVars
<1>2. ParserTokens' \in Seq(PP!TokenIds) /\ <<>> \in Seq(PP!TokenIds) /\ asserts' \in BOOLEAN
  BY <1>1, StreamIs DEF IInv, Phase, NewParser, driverVars
<1> QED BY <1>2 DEF NewParser, ResetNameIndex, PP!Start

LEMMA NewParserStep == ASSUME IInv, NewParser PROVE IInv'
<1> USE DEF IInv
<1>1. /\ pc = "dumped" /\ pc' = "dumped" /\ lexPc = "idle" /\ parsePc' = "external"
      /\ vals' = vals /\ vals["-fstop-after-phase"] # "lex" /\ looked' = <<>>
      /\ UNCHANGED <<args, it, files, cur, asserts, lexedIds, toks, text, signed, lexPc, c,
                     next, loc, lexToks, ids, nums, strs>>
  BY DEF NewParser, Phase, driverVars, lexerVars
<1>2. UNCHANGED DumpTokens
  BY <1>1, TokensKept
<1>3. PP!Start'
  BY ParserOpens
<1>4. ParserState'
  BY <1>1, <1>3, ParserStarts DEF ParserState
<1>5. Phase'
  BY <1>1, <1>2 DEF Phase
<1> QED BY <1>1, <1>4, <1>5, LexerKept

LEMMA ParseStepStep == ASSUME IInv, ParseStep PROVE IInv'
<1> USE DEF IInv
<1>1. /\ pc = "dumped" /\ pc' \in {"dumped", "undefined"} /\ lexPc = "idle"
      /\ parsePc # "idle" /\ vals["-fstop-after-phase"] # "lex"
      /\ UNCHANGED <<args, it, files, cur, asserts, lexedIds, toks, vals, text, signed, lexPc,
                     c, next, loc, lexToks, ids, nums, strs>>
  BY DEF ParseStep, Phase, driverVars, lexerVars
<1>2. UNCHANGED DumpTokens
  BY <1>1, TokensKept
<1>3. parsePc' = "done" => pc' = "dumped"
  <2>1. ASSUME parsePc' = "done" PROVE NamesExist
    BY <1>1, <2>1, LookedUp DEF ParserState, NamesExist
  <2> QED BY <1>1, <2>1 DEF ParseStep, driverVars
<1>4. Phase'
  BY <1>1, <1>2, <1>3 DEF Phase
<1> QED BY <1>1, <1>4, LexerKept, ParserSteps

LEMMA ParseReturnsStep == ASSUME IInv, ParseReturns PROVE IInv'
<1> USE DEF IInv
<1>1. /\ pc = "dumped" /\ pc' = "parsed" /\ lexPc = "idle" /\ parsePc' = "idle"
      /\ UNCHANGED <<args, it, files, cur, asserts, lexedIds, text, signed, lexPc, c,
                     next, loc, lexToks, ids, nums, strs>>
  BY DEF ParseReturns, Phase, lexerVars
<1>2. Phase'
  BY <1>1 DEF Phase
<1> QED BY <1>1, <1>2, LexerKept, ParserIdle

LEMMA LostStep == ASSUME IInv, Lost PROVE IInv'
<1> USE DEF IInv
<1>1. /\ pc' = "stuck" /\ lexPc # "done" /\ parsePc # "done"
      /\ UNCHANGED <<args, it, files, cur, asserts, lexedIds, text, signed, lexPc, c,
                     next, loc, lexToks, ids, nums, strs, parsePc, parserVars>>
  <2>1. lexPc \in {"hung", "aborted"} => parsePc = "idle"
    BY DEF Phase, Lost, D!NoReturn
  <2>2. parsePc \in {"aborted", "fault"} => lexPc = "idle"
    BY DEF Phase, Lost, D!NoReturn
  <2> QED BY <2>1, <2>2 DEF Lost, D!NoReturn, D!Goto, D!given, D!options, D!session,
             lexerVars, parserVars
<1>2. lexPc # "idle" => pc \in {"loop", "dumped"} /\ parsePc = "idle"
  BY DEF Phase, Lost, D!NoReturn
<1>3. Phase'
  BY <1>1, <1>2 DEF Phase
<1> QED BY <1>1, <1>3, LexerKept, ParserKept

LEMMA StepInvariant == IInv /\ [Next]_vars => IInv'
<1>1. SUFFICES ASSUME IInv, [Next]_vars PROVE IInv'
  OBVIOUS
<1>2. CASE UNCHANGED vars
  <2>1. /\ UNCHANGED <<pc, args, it, files, cur, asserts, lexedIds, toks, vals, lexed, limit, out,
                       text, signed, lexPc, c, next, loc, lexToks, ids, nums, strs>>
        /\ UNCHANGED <<parsePc, parserVars>>
    BY <1>2 DEF vars, driverVars, lexerVars, parserVars
  <2>2. UNCHANGED <<D!Opens(D!File), DumpTokens, TextOf(D!File)>>
    BY <2>1, TokensKept
       DEF D!Opens, D!Missing, D!Absent, D!Overwritten, D!File, D!CanOpen, TextOf
  <2>3. Phase'
    BY <1>1, <2>1, <2>2 DEF IInv, Phase
  <2> QED BY <1>1, <2>1, <2>3, LexerKept, ParserKept DEF IInv
<1>3. CASE Next
  BY <1>1, <1>3, DrivingStep, OpenFileStep, OpenFailsStep, LexStepStep, LexReturnsStep,
     NewParserStep, ParseStepStep, ParseReturnsStep, LostStep DEF Next
<1> QED BY <1>1, <1>2, <1>3

LEMMA Invariance == Spec => []IInv
BY InitInvariant, StepInvariant, PTL DEF Spec

-----------------------------------------------------------------------------
(* What Driver knows of a file is what lex() makes of it.                  *)

(* When lex() returns it has made of its text what Content says.           *)
LEMMA ContentIs ==
  ASSUME LexerState, lexPc = "done"
  PROVE  [toks |-> DumpTokens, names |-> ids] = Content(text)
<1>1. LP!Made = L!LexOf(text)
  BY SameLexing DEF LexerState, LP!Coming, LP!LexesTheText
<1>2. L!LexOf(text).names = ids /\ L!LexOf(text).toks = [k \in DOMAIN lexToks |-> lexToks[k].id]
  BY <1>1 DEF LP!Made
<1>3. [i \in DOMAIN L!LexOf(text).toks |-> DumpToken(L!LexOf(text).toks[i])] = DumpTokens
  BY <1>2 DEF DumpTokens
<1> QED BY <1>2, <1>3 DEF Content

LEMMA ContentOfNothing == Content(<<>>) = [toks |-> <<>>, names |-> <<>>]
<1>1. <<>> \in Seq(LP!Chars) /\ 1 \notin DOMAIN <<>>
  OBVIOUS
<1>2. LP!LexRest(<<>>)[1] = LP!LexAt(<<>>, LP!LexRest(<<>>), 1)
  BY <1>1, LexerAssumed, LP!RestEquation
<1>3. LP!LexOf(<<>>) = LP!Nothing
  BY <1>1, <1>2 DEF LP!LexOf, LP!LexAt, LP!Byte, LP!CharTokens, LP!Digits
<1>4. L!LexOf(<<>>).toks = <<>> /\ L!LexOf(<<>>).names = <<>>
  BY <1>3, SameLexing DEF LP!Nothing
<1> QED BY <1>4 DEF Content

(* Driver holds of a file the content of the text lex() would read.        *)
LEMMA HeldIs ==
  ASSUME NEW f, D!Opens(f)
  PROVE  D!Held(f) = Content(TextOf(f))
<1>1. f \in DOMAIN Sources \cup Directories \/ D!Overwritten(f)
  BY CompileAssumption DEF D!SystemConstants, D!Opens, D!Missing, D!Absent, Contents
<1>2. CASE D!Overwritten(f)
  BY <1>2 DEF D!Held, TextOf, DumpContent
<1>3. CASE ~D!Overwritten(f) /\ f \in Directories
  BY <1>3, ContentOfNothing DEF D!Held, D!Original, TextOf
<1>4. CASE ~D!Overwritten(f) /\ f \in DOMAIN Sources /\ f \notin Directories
  BY <1>4 DEF D!Held, D!Original, TextOf, Contents
<1> QED BY <1>1, <1>2, <1>3, <1>4

LEMMA InvariantContents == IInv => LexAsContents
<1>1. SUFFICES ASSUME IInv, lexPc = "done"
               PROVE  [toks |-> DumpTokens, names |-> ids] = D!Held(D!File)
  BY DEF LexAsContents
<1>2. D!Opens(D!File) /\ text = TextOf(D!File)
  BY <1>1 DEF IInv, Phase
<1> QED BY <1>1, <1>2, ContentIs, HeldIs DEF IInv

(* For every text, keyword table and command line, what lex() has made of  *)
(* a file when it returns is what Driver knows of it: the tokens and names *)
(* the function of Lexing makes of the text the file held when it was      *)
(* opened, the dump's if a dump has overwritten it (a_c_compiler.cpp:203). *)
THEOREM FilesAreLexedAsSaid == Spec => []LexAsContents
BY Invariance, InvariantContents, PTL

-----------------------------------------------------------------------------
(* Every step of the compiler is a step of Driver, or none.                *)

LEMMA LexImplemented == ASSUME IInv, LexReturns PROVE D!Lex
<1>1. pc = "loop" /\ cur <= Len(files) /\ D!Opens(D!File)
  BY DEF LexReturns, IInv, Phase
<1>2. D!Held(D!File) = [toks |-> DumpTokens, names |-> ids]
  BY InvariantContents DEF LexReturns, LexAsContents
<1>3. D!Held(D!File).toks = DumpTokens /\ D!Held(D!File).names = ids
  BY <1>2
<1>4. D!LexFile(D!File) /\ lexed' = Append(lexed, [file |-> D!File, content |-> D!Held(D!File)])
  BY <1>2, <1>3 DEF LexReturns, D!LexFile
<1> QED BY <1>1, <1>4 DEF LexReturns, D!Lex, D!Goto, D!given, D!options

(* The names looked up are the first ones, and there is an id.             *)
LEMMA NamesInOrder ==
  ASSUME PP!IInv
  PROVE  /\ Len(looked) \in 0..2 /\ DOMAIN looked = 1..Len(looked)
         /\ \A k \in DOMAIN looked : looked[k].str = k - 1
<1>1. Len(looked) \in Nat /\ DOMAIN looked = 1..Len(looked)
  BY LenProperties DEF PP!IInv, PP!Data
<1>2. /\ Len(looked) <= 2 /\ (Len(looked) >= 1 => looked[1].str = 0)
      /\ Len(looked) = 2 => looked[2].str = 1
  BY DEF PP!IInv, PP!Names
<1> QED BY <1>1, <1>2

LEMMA NamesInOrderNext ==
  PP!IInv' => (/\ Len(looked) \in 0..2 /\ DOMAIN looked = 1..Len(looked)
               /\ \A k \in DOMAIN looked : looked[k].str = k - 1)'
<1>1. PP!IInv => /\ Len(looked) \in 0..2 /\ DOMAIN looked = 1..Len(looked)
                 /\ \A k \in DOMAIN looked : looked[k].str = k - 1
  BY NamesInOrder
<1> QED BY <1>1, PTL

LEMMA IdsAreRead ==
  ASSUME IInv, pc = "dumped", NEW k \in DOMAIN lexToks, ParserTokens[k] = "id"
  PROVE  \E j \in DOMAIN toks : toks[j] = "id"
<1>1. toks = DumpTokens
  BY DEF IInv, Phase
<1> QED BY <1>1, StreamIs DEF IInv

LEMMA ParseImplemented ==
  ASSUME IInv, IInv', ParseStep
  PROVE  D!Parse \/ UNCHANGED D!vars
<1>1. CASE NamesExist
  BY <1>1 DEF ParseStep, driverVars, D!vars, D!given, D!options, D!session, D!history
<1>2. CASE ~NamesExist
  <2>1. PP!IInv'
    BY LookedUp, GivenHere, PP!StepInvariant DEF IInv
  <2>2. /\ Len(looked') \in 0..2 /\ DOMAIN looked' = 1..Len(looked')
        /\ \A k \in DOMAIN looked' : looked'[k].str = k - 1
    BY <2>1, NamesInOrderNext
  <2>3. Len(lexedIds) \in Nat
    BY LenProperties DEF IInv, Phase
  <2>4. PICK k \in 1..Len(looked') : ~(k - 1 < Len(lexedIds))
    BY <1>2, <2>2 DEF NamesExist
  <2>5. Len(looked') > Len(lexedIds)
    BY <2>2, <2>3, <2>4
  <2>6. \E j \in DOMAIN toks : toks[j] = "id"
    <3>1. looked' # <<>>
      BY <2>3, <2>5
    <3>2. UNCHANGED ParserTokens
      BY TokensKept DEF ParseStep, lexerVars
    <3> QED BY <3>1, LookedUp, IdsAreRead DEF IInv, ParseStep
  <2>7. \E n \in 0..2 : n > Len(lexedIds)
    BY <2>2, <2>5
  <2>8. /\ pc = "dumped" /\ pc' = "undefined" /\ vals["-fstop-after-phase"] # "lex"
        /\ UNCHANGED <<args, asserts, limit, it, flags, vals, files, bits, cur, toks,
                       lexedIds, failedOutput, status, out, lexed, parsed, lookups>>
    BY <1>2 DEF IInv, Phase, ParseStep
  <2> QED BY <2>6, <2>7, <2>8 DEF D!Parse, D!StopAt, D!Goto, D!given, D!options
<1> QED BY <1>1, <1>2

LEMMA ParseReturnsImplemented == ASSUME IInv, ParseReturns PROVE D!Parse
<1>1. pc = "dumped" /\ PP!IInv /\ vals["-fstop-after-phase"] # "lex"
  BY DEF IInv, Phase, ParserState, ParseReturns
<1>2. /\ Len(looked) \in 0..2 /\ DOMAIN looked = 1..Len(looked)
      /\ \A k \in DOMAIN looked : looked[k].str = k - 1
  BY <1>1, NamesInOrder
<1>3. \A k \in DOMAIN looked : looked[k].str < Len(lexedIds)
  BY <1>1 DEF IInv, ParserState, ParseReturns
<1>4. Len(lexedIds) \in Nat
  BY LenProperties DEF IInv, Phase
<1>5. Len(looked) <= Len(lexedIds)
  <2>1. CASE Len(looked) = 0
    BY <1>4, <2>1
  <2>2. CASE Len(looked) # 0
    <3>1. Len(looked) \in DOMAIN looked
      BY <1>2, <2>2
    <3>2. Len(looked) - 1 < Len(lexedIds)
      BY <1>2, <1>3, <3>1
    <3> QED BY <1>2, <1>4, <3>2
  <2> QED BY <2>1, <2>2
<1>6. Len(looked) > 0 => \E j \in DOMAIN toks : toks[j] = "id"
  <2>1. ASSUME Len(looked) > 0 PROVE \E j \in DOMAIN toks : toks[j] = "id"
    <3>1. looked # <<>>
      BY <2>1
    <3> QED BY <1>1, <3>1, IdsAreRead DEF IInv, ParserState, ParseReturns
  <2> QED BY <2>1
<1>7. [k \in DOMAIN looked |-> [file |-> D!File, text |-> lexedIds[looked[k].str + 1]]]
        = [k \in 1..Len(looked) |-> [file |-> D!File, text |-> lexedIds[k]]]
  <2>1. \A k \in 1..Len(looked) : looked[k].str + 1 = k
    BY <1>2
  <2> QED BY <1>2, <2>1
<1>8. /\ lookups' = lookups \o [k \in 1..Len(looked) |-> [file |-> D!File, text |-> lexedIds[k]]]
      /\ parsed' = Append(parsed, D!File)
  BY <1>7 DEF ParseReturns
<1> QED BY <1>1, <1>2, <1>5, <1>6, <1>8
       DEF ParseReturns, D!Parse, D!StopAt, D!Goto, D!given, D!options

LEMMA StepImplements ==
  ASSUME IInv, IInv', [Next]_vars
  PROVE  [D!Next]_(D!vars)
<1> USE DEF D!vars, D!given, D!options, D!session, D!history
<1>1. CASE UNCHANGED vars
  BY <1>1 DEF vars, driverVars
<1>2. CASE Driving
  BY <1>2 DEF Driving, D!Next
<1>3. CASE OpenFile \/ LexStep \/ NewParser
  BY <1>3 DEF OpenFile, LexStep, NewParser, driverVars
<1>4. CASE OpenFails
  BY <1>4 DEF OpenFails, D!Next
<1>5. CASE LexReturns
  BY <1>5, LexImplemented DEF D!Next
<1>6. CASE ParseStep
  BY <1>6, ParseImplemented DEF D!Next
<1>7. CASE ParseReturns
  BY <1>7, ParseReturnsImplemented DEF D!Next
<1>8. CASE Lost
  BY <1>8 DEF Lost, D!Next
<1> QED BY <1>1, <1>2, <1>3, <1>4, <1>5, <1>6, <1>7, <1>8 DEF Next

(* For every command line, set of files and build, the compiler does what  *)
(* Driver says: its steps are the driver's, and lexing and parsing in      *)
(* between are none (a_c_compiler.cpp:203, 234).                           *)
THEOREM CompilerImplementsDriver == Spec => ImplementsDriver
<1>1. Init => D!Init
  BY DEF Init
<1>2. IInv /\ IInv' /\ [Next]_vars => [D!Next]_(D!vars)
  BY StepImplements
<1> QED BY <1>1, <1>2, Invariance, PTL DEF Spec, ImplementsDriver, D!Spec

-----------------------------------------------------------------------------
(* What is proved of Driver holds of the compiler.                         *)

(* The driver implemented is the one DriverProofs is about.                *)
LEMMA SameConstants ==
  D!SystemConstants /\ D!LexedConstants <=> DP!DriverConstants
BY DEF D!SystemConstants, DP!SystemConstants, D!LexedConstants, DP!LexedConstants,
   DP!DriverConstants, D!Content, DP!Content, D!IdCount,
   DP!IdCount, D!SetFlag, DP!SetFlag, D!Options, DP!Options, D!TokenKinds,
   DP!TokenKinds, D!StopAt, DP!StopAt, D!LexOut, DP!LexOut, D!Cardinality,
   DP!Cardinality

(* What Driver assumes of the tokens and names of the files is so.         *)
LEMMA ContentType ==
  ASSUME NEW t \in Seq(L!Chars)
  PROVE  /\ Content(t) \in D!Content
         /\ Len(Content(t).names) <= D!IdCount(Content(t))
<1> DEFINE made == L!LexOf(t)
           kinds == [i \in DOMAIN made.toks |-> DumpToken(made.toks[i])]
<1>1. made \in LP!Results /\ Len(made.names) <= LP!IdsAt(made.toks)
  BY SameLexing, SameAlphabet, LexerAssumed, LP!LexOfType
<1>2. made.toks \in Seq(LP!TokenIds) /\ made.names \in Seq(Seq(L!Alnum))
  BY <1>1, SameAlphabet DEF LP!Results
<1>3. Content(t) = [toks |-> kinds, names |-> made.names]
  BY DEF Content
<1> HIDE DEF made
<1>4. kinds \in Seq(D!TokenKinds)
  <2>1. DOMAIN made.toks = 1..Len(made.toks) /\ Len(made.toks) \in Nat
    BY <1>2, LenProperties
  <2>2. \A k : DumpToken(k) \in D!TokenKinds
    BY DEF DumpToken, D!TokenKinds
  <2> QED BY <2>1, <2>2
<1>5. Content(t) \in D!Content
  BY <1>2, <1>3, <1>4 DEF D!Content
<1>6. D!IdCount(Content(t)) = LP!IdsAt(made.toks)
  <2>1. \A i \in DOMAIN made.toks : kinds[i] = "id" <=> made.toks[i] = "id"
    BY DumpIdIs
  <2>2. {i \in DOMAIN kinds : kinds[i] = "id"} = {i \in DOMAIN made.toks : made.toks[i] = "id"}
    BY <2>1
  <2>3. Content(t).toks = kinds
    BY <1>3
  <2> HIDE DEF kinds
  <2>4. D!IdCount(Content(t)) = D!Cardinality({i \in DOMAIN kinds : kinds[i] = "id"})
    BY <2>3 DEF D!IdCount
  <2>5. LP!IdsAt(made.toks) = LP!Cardinality({i \in DOMAIN kinds : kinds[i] = "id"})
    BY <2>2 DEF LP!IdsAt
  <2>6. \A S : D!Cardinality(S) = LP!Cardinality(S)
    BY Zenon DEF D!Cardinality, LP!Cardinality
  <2> QED BY <2>4, <2>5, <2>6
<1> QED BY <1>1, <1>3, <1>5, <1>6

LEMMA LexedAssumed == D!LexedConstants
<1>1. \A f \in DOMAIN Contents : Contents[f] = Content(Sources[f]) /\ Sources[f] \in Seq(L!Chars)
  BY CompileAssumption DEF Contents
<1>2. DumpContent \in D!Content
  BY CompileAssumption, ContentType DEF DumpContent
<1> QED BY <1>1, <1>2, ContentType DEF D!LexedConstants

LEMMA SameInit == D!Init <=> DP!Init
BY DEF D!Init, DP!Init, D!Options, DP!Options, D!SetFlag, DP!SetFlag, D!Success,
   DP!Success, D!StopAt, DP!StopAt, D!LexOut, DP!LexOut

LEMMA SameNext == D!Next <=> DP!Next
BY DEF D!Next, DP!Next, D!vars, DP!vars, D!Help, DP!Help, D!Flag, DP!Flag, D!Option,
   DP!Option, D!OptionWithoutValue, DP!OptionWithoutValue, D!Positional,
   DP!Positional, D!CheckFiles, DP!CheckFiles, D!Lex, DP!Lex, D!Dump, DP!Dump,
   D!NoDump, DP!NoDump, D!StopAfterLex, DP!StopAfterLex, D!Parse, DP!Parse,
   D!StopAfterParse, DP!StopAfterParse, D!NextFile, DP!NextFile, D!Return,
   DP!Return, D!NoReturn, DP!NoReturn, D!given, DP!given, D!options, DP!options,
   D!session, DP!session, D!Reading, DP!Reading, D!Arg, DP!Arg, D!HelpFlags,
   DP!HelpFlags, D!Exit, DP!Exit, D!Failure, DP!Failure, D!history, DP!history,
   D!Flags, DP!Flags, D!DebugParserFlags, DP!DebugParserFlags, D!SetFeatureFlag,
   DP!SetFeatureFlag, D!NextArgument, DP!NextArgument, D!Options, DP!Options,
   D!Tested, DP!Tested, D!SetFlag, DP!SetFlag, D!HandleFeatureFlag,
   DP!HandleFeatureFlag, D!FailedAssert, DP!FailedAssert, D!Missing, DP!Missing,
   D!Goto, DP!Goto, D!File, DP!File, D!CanOpen, DP!CanOpen, D!Opens, DP!Opens, D!LexFile,
   DP!LexFile, D!DiesOf, DP!DiesOf,
   D!Held, DP!Held, D!DebugLexerFlags, DP!DebugLexerFlags, D!LexOut, DP!LexOut,
   D!DumpReadsPastEnd, DP!DumpReadsPastEnd, D!DumpFails, DP!DumpFails, D!DumpLines,
   DP!DumpLines, D!WriteFile, DP!WriteFile, D!StopAt, DP!StopAt,
   D!ExitWithLexerStatus, DP!ExitWithLexerStatus, D!Success, DP!Success,
   D!VerboseFlags, DP!VerboseFlags, D!Shifted, DP!Shifted, D!Absent, DP!Absent,
   D!Overwritten, DP!Overwritten, D!Original, DP!Original, D!IdIndex, DP!IdIndex,
   D!NameLine, DP!NameLine, D!Cardinality, DP!Cardinality

LEMMA SameDriver == D!Spec => DP!Spec
<1>1. [D!Next]_(D!vars) => [DP!Next]_(DP!vars)
  BY SameNext DEF D!vars, DP!vars, D!given, DP!given, D!options, DP!options,
     D!session, DP!session, D!history, DP!history
<1> QED BY <1>1, SameInit, PTL DEF D!Spec, DP!Spec

LEMMA SamePromises ==
  /\ DP!BitsAskedFor /\ DP!FilesProcessed /\ DP!ExitStatusExact
  /\ DP!OutputFileHoldsLastFile /\ DP!SourcesAsGiven /\ DP!NamesComeFromFirstFile
  /\ DP!NoUndefinedRead /\ DP!AbortsExplained
  => DriverPromises
BY DEF DriverPromises, D!BitsAskedFor, DP!BitsAskedFor,
   D!FilesProcessed, DP!FilesProcessed, D!ExitStatusExact, DP!ExitStatusExact,
   D!OutputFileHoldsLastFile, DP!OutputFileHoldsLastFile, D!NamesComeFromFirstFile,
   DP!NamesComeFromFirstFile, D!NoUndefinedRead, DP!NoUndefinedRead,
   D!SourcesAsGiven, DP!SourcesAsGiven, D!AbortsExplained, DP!AbortsExplained,
   D!BitsOf, DP!BitsOf, D!ValuesGiven, DP!ValuesGiven, D!DebugParserFlags,
   DP!DebugParserFlags, D!Success,
   DP!Success, D!StopAt, DP!StopAt, D!LexedFiles, DP!LexedFiles, D!First, DP!First,
   D!Failure, DP!Failure, D!OutputAfter, DP!OutputAfter, D!Absent, DP!Absent,
   D!IdCount, DP!IdCount, D!Dumping, DP!Dumping, D!LexOut, DP!LexOut, D!Original,
   DP!Original, D!SetFlag, DP!SetFlag, D!Options, DP!Options, D!IsValue, DP!IsValue,
   D!FileHolds, DP!FileHolds, D!StdoutHolds, DP!StdoutHolds, D!DebugLexerFlags,
   DP!DebugLexerFlags, D!OptionRun, DP!OptionRun, D!IsDumpOf, DP!IsDumpOf,
   D!Cardinality, DP!Cardinality

(* On every command line and set of files the compiler, lexing and parsing *)
(* as it does, keeps what the theorems about Driver promise: which files   *)
(* it has processed and with which status, what its output file holds,     *)
(* whose names a parse gets, and what it can die of (a_c_compiler.cpp:185). *)
THEOREM CompilerKeepsPromises == Spec => []DriverPromises
<1>1. DP!DriverConstants
  BY CompileAssumption, LexedAssumed, SameConstants
<1>2. D!Spec => DP!Spec
  BY SameDriver
<1>3. DP!Spec => [](/\ DP!BitsAskedFor /\ DP!FilesProcessed /\ DP!ExitStatusExact
                   /\ DP!OutputFileHoldsLastFile /\ DP!SourcesAsGiven
                   /\ DP!NamesComeFromFirstFile /\ DP!NoUndefinedRead /\ DP!AbortsExplained)
  BY <1>1, DP!BitsAreAskedFor, DP!AllFilesProcessed, DP!ExitStatusCorrect,
     DP!OutputFileCorrect, DP!SourcesLexedAsGiven, DP!NamesAreOfFirstFile,
     DP!UndefinedReadsExplained, DP!AbortsAreExplained, PTL
<1> QED BY <1>2, <1>3, CompilerImplementsDriver, SamePromises, PTL DEF ImplementsDriver

-----------------------------------------------------------------------------
(* The tokens of an ordinary text.                                         *)

LeftParen  == "("
LeftSquare == "["
Semicolon  == ";"

LEMMA PunctuationOf ==
  /\ Punctuation(Semicolon) = "semicolon"
  /\ \A t : /\ Punctuation(t) = "l_paren" => t = LeftParen
            /\ Punctuation(t) = "l_square" => t = LeftSquare
<1>1. ";" # "(" /\ ";" # ")" /\ ";" # "[" /\ ";" # "]" /\ ";" # "{" /\ ";" # "}"
  BY Zenon
<1>2. Punctuation(Semicolon) = "semicolon"
  BY <1>1, Zenon DEF Punctuation, Semicolon
<1>3. ASSUME NEW t PROVE Punctuation(t) = "l_paren" => t = LeftParen
  BY Zenon DEF Punctuation, LeftParen
<1>4. ASSUME NEW t PROVE Punctuation(t) = "l_square" => t = LeftSquare
  BY Zenon DEF Punctuation, LeftSquare
<1> QED BY <1>2, <1>3, <1>4

LEMMA PunctuationChars ==
  /\ {LeftParen, LeftSquare, Semicolon} \subseteq LP!CharTokens
  /\ {LeftParen, LeftSquare, Semicolon} \cap {"id", "keyword", "newline"} = {}
BY Zenon DEF LeftParen, LeftSquare, Semicolon, LP!CharTokens

LEMMA OrdinaryParts ==
  ASSUME NEW t, OrdinaryText(t)
  PROVE  /\ Len(t) >= 2 /\ t[Len(t)] = "nl" /\ t[Len(t) - 1] = Semicolon
         /\ \A i \in DOMAIN t : t[i] \notin {LeftSquare, "quote", "/", ".", "ff"} \cup LP!Digits
         /\ \A i \in DOMAIN t : t[i] = LeftParen => BehindName(t, i)
         /\ \A i \in DOMAIN t : \A j \in i..Len(t) :
              SubSeq(t, i, j) \in DOMAIN KeywordOf
                => KeywordOf[SubSeq(t, i, j)] \notin P!Unsupported \cup P!Modifiers
<1>1. /\ Len(t) >= 2 /\ t[Len(t)] = "nl" /\ t[Len(t) - 1] = Semicolon
      /\ \A i \in DOMAIN t : t[i] = LeftParen => BehindName(t, i)
      /\ \A i \in DOMAIN t : \A j \in i..Len(t) :
           SubSeq(t, i, j) \in DOMAIN KeywordOf
             => KeywordOf[SubSeq(t, i, j)] \notin P!Unsupported \cup P!Modifiers
  BY Zenon DEF OrdinaryText, Semicolon, LeftParen
<1>2. \A i \in DOMAIN t : t[i] \notin {LeftSquare, "quote", "/", ".", "ff"} \cup LP!Digits
  BY Zenon DEF OrdinaryText, LeftSquare, LP!Digits
<1> QED BY <1>1, <1>2

LEMMA OrdinaryIsPlain ==
  ASSUME OrdinaryText(text)
  PROVE  LP!Plain /\ LP!Closed
<1>1. \A i \in DOMAIN text : text[i] \notin {"quote", "/", ".", "ff"} \cup LP!Digits
  BY OrdinaryParts
<1>2. \A i \in DOMAIN text : LP!Char(i) # "/"
  BY <1>1 DEF LP!Char, LP!NoByte
<1>3. text[Len(text)] = "nl"
  BY OrdinaryParts
<1> QED BY <1>1, <1>2, <1>3 DEF LP!Plain, LP!Closed

(* Only a word can be a keyword, and only its character a punctuation.     *)
LEMMA TokenKinds ==
  ASSUME LexerState, NEW i \in DOMAIN lexToks
  PROVE  /\ ParserToken(lexToks[i]) = "l_paren" => lexToks[i].id = LeftParen
         /\ ParserToken(lexToks[i]) = "l_square" => lexToks[i].id = LeftSquare
         /\ ParserToken(lexToks[i]) \in P!Keywords => lexToks[i].id = "keyword"
         /\ lexToks[i].id \in {"id", "newline"} => ParserToken(lexToks[i]) = lexToks[i].id
         /\ lexToks[i].id = Semicolon => ParserToken(lexToks[i]) = "semicolon"
<1> DEFINE k == lexToks[i]
<1>0. {"l_paren", "l_square", "id", "newline"} \cap P!Keywords = {}
  BY DEF P!Keywords, P!Specifiers, P!StorageClasses, P!PlainCategories, P!MergedCategories,
     P!Modifiers, P!FunctionSpecs, P!Unsupported, P!OtherKeywords
<1>1. CASE k.id \in {"id", "newline"}
  <2>1. ParserToken(k) = k.id
    BY <1>1 DEF ParserToken
  <2> QED BY <1>0, <1>1, <2>1, PunctuationChars
<1>2. CASE k.id = "keyword"
  <2>1. ParserToken(k) \in P!Keywords
    BY <1>2, KeywordIs
  <2> QED BY <1>0, <1>2, <2>1, PunctuationChars
<1>3. CASE k.id \notin {"id", "newline", "keyword"}
  <2>1. ParserToken(k) = Punctuation(k.id)
    BY <1>3 DEF ParserToken
  <2>2. Punctuation(k.id) \notin P!Keywords
    BY PunctuationsNoKeywords
  <2> QED BY <1>3, <2>1, <2>2, PunctuationOf
<1> QED BY <1>1, <1>2, <1>3

(* The parser's tokens, by the numbers it has for them.                    *)
LEMMA NumberedTokens ==
  ASSUME LexerState
  PROVE  /\ PP!Size = Len(lexToks) /\ Len(lexToks) \in Nat
         /\ DOMAIN lexToks = 1..Len(lexToks)
         /\ \A S, i : i \in PP!Numbered(S) <=>
              /\ i \in 0..(Len(lexToks) - 1) /\ i + 1 \in DOMAIN lexToks
              /\ ParserToken(lexToks[i + 1]) \in S
<1>1. DOMAIN ParserTokens = 1..Len(ParserTokens) /\ Len(ParserTokens) \in Nat
      /\ DOMAIN lexToks = 1..Len(lexToks) /\ Len(lexToks) \in Nat
  BY StreamIs, LenProperties DEF LexerState
<1>2. PP!Size = Len(lexToks)
  <2>1. ParserTokens = [i \in 1..Len(lexToks) |-> ParserToken(lexToks[i])]
    BY <1>1 DEF ParserTokens
  <2>2. Len([i \in 1..Len(lexToks) |-> ParserToken(lexToks[i])]) = Len(lexToks)
    BY <1>1
  <2> QED BY <2>1, <2>2 DEF PP!Size
<1>3. \A i \in 0..(Len(lexToks) - 1) :
        i + 1 \in DOMAIN lexToks /\ PP!Token(i) = ParserToken(lexToks[i + 1])
  BY <1>1, <1>2 DEF PP!Token, ParserTokens
<1> QED BY <1>1, <1>2, <1>3 DEF PP!Numbered

LEMMA OrdinaryStream ==
  ASSUME LexerState, LP!PlainLexed, OrdinaryText(text)
  PROVE  /\ PP!EndsInSemicolonNewline /\ ~PP!StrayParen
         /\ PP!Numbered(PP!Unsupported \cup PP!Modifiers \cup {"l_square"}) = {}
<1>1. /\ PP!Size = Len(lexToks) /\ Len(lexToks) \in Nat /\ DOMAIN lexToks = 1..Len(lexToks)
      /\ DOMAIN text = 1..Len(text) /\ Len(text) \in Nat
      /\ \A k \in DOMAIN lexToks : LP!Shaped(lexToks[k])
  BY NumberedTokens, LexerAssumed, LP!PlainTypes DEF LP!PlainLexed, LP!PlainTokens
<1>2. PP!EndsInSemicolonNewline
  <2>1. /\ Len(lexToks) >= 2 /\ lexToks[Len(lexToks)].id = "newline"
        /\ lexToks[Len(lexToks) - 1].id = Semicolon
    BY OrdinaryParts, PunctuationChars, LexerAssumed, LP!LastTokens
  <2>2. /\ Len(lexToks) \in DOMAIN lexToks /\ Len(lexToks) - 1 \in DOMAIN lexToks
        /\ PP!Size - 2 + 1 = Len(lexToks) - 1 /\ PP!Size - 1 + 1 = Len(lexToks)
        /\ PP!Size - 2 < PP!Size /\ PP!Size - 1 < PP!Size
    BY <1>1, <2>1
  <2>3. /\ ParserToken(lexToks[Len(lexToks)]) = "newline"
        /\ ParserToken(lexToks[Len(lexToks) - 1]) = "semicolon"
    BY <2>1, <2>2, TokenKinds
  <2>4. PP!Token(PP!Size - 2) = "semicolon" /\ PP!Token(PP!Size - 1) = "newline"
    BY <2>2, <2>3 DEF PP!Token, ParserTokens
  <2> QED BY <1>1, <2>1, <2>4 DEF PP!EndsInSemicolonNewline
<1>3. ASSUME NEW k \in DOMAIN lexToks, lexToks[k].id \in {"id", "keyword"}
      PROVE  /\ lexToks[k].from \in DOMAIN text
             /\ lexToks[k].to \in lexToks[k].from..Len(text)
             /\ Spelled(lexToks[k]) = SubSeq(text, lexToks[k].from, lexToks[k].to)
  BY <1>3, SpellingIs, LexerAssumed, LP!WordSpelled
<1>4. ~PP!StrayParen
  <2>1. ASSUME NEW i \in PP!Numbered({"l_paren"}) PROVE i - 1 \in PP!Numbered({"id"})
    <3> DEFINE k == i + 1
               p == lexToks[k].from
    <3>1. k \in DOMAIN lexToks /\ lexToks[k].id = LeftParen /\ i \in Nat
      BY <2>1, NumberedTokens, TokenKinds
    <3>2. p \in DOMAIN text /\ text[p] = LeftParen
      BY <1>1, <3>1, PunctuationChars DEF LP!Shaped
    <3>3. BehindName(text, p)
      BY <3>2, OrdinaryParts
    <3>4. /\ k - 1 \in DOMAIN lexToks /\ lexToks[k - 1].id \in {"id", "keyword"}
          /\ lexToks[k - 1].to = p - 1 /\ lexToks[k - 1].from \in 1..(p - 1)
      BY <3>1, <3>3, PunctuationChars, SameAlphabet, LexerAssumed, LP!WordBefore DEF BehindName
    <3>5. lexToks[k - 1].id # "keyword"
      <4>1. lexToks[k - 1].id = "keyword"
              => SubSeq(text, lexToks[k - 1].from, p - 1) \in DOMAIN KeywordOf
        BY <1>3, <3>4, KeywordIs
      <4> QED BY <3>3, <3>4, <4>1 DEF BehindName
    <3>6. ParserToken(lexToks[k - 1]) = "id"
      BY <3>4, <3>5, TokenKinds
    <3>7. k - 1 = (i - 1) + 1 /\ i - 1 \in 0..(Len(lexToks) - 1)
      BY <1>1, <3>1, <3>4
    <3> QED BY <3>4, <3>6, <3>7, NumberedTokens
  <2> QED BY <2>1 DEF PP!StrayParen
<1>5. ASSUME NEW i \in PP!Numbered(PP!Unsupported \cup PP!Modifiers \cup {"l_square"})
      PROVE  FALSE
  <2> DEFINE k == lexToks[i + 1]
  <2>1. /\ i + 1 \in DOMAIN lexToks
        /\ ParserToken(k) \in PP!Unsupported \cup PP!Modifiers \cup {"l_square"}
    BY <1>5, NumberedTokens
  <2>2. CASE ParserToken(k) = "l_square"
    <3>1. k.id = LeftSquare
      BY <2>1, <2>2, TokenKinds
    <3>2. k.from \in DOMAIN text /\ text[k.from] = LeftSquare
      BY <1>1, <2>1, <3>1, PunctuationChars DEF LP!Shaped
    <3> QED BY <3>2, OrdinaryParts
  <2>3. CASE ParserToken(k) \in PP!Unsupported \cup PP!Modifiers
    <3>1. ParserToken(k) \in P!Unsupported \cup P!Modifiers /\ ParserToken(k) \in P!Keywords
      BY <2>3 DEF P!Unsupported, PP!Unsupported, P!Modifiers, PP!Modifiers, P!Keywords, P!Specifiers
    <3>2. k.id = "keyword"
      BY <2>1, <3>1, TokenKinds
    <3>3. Spelled(k) \in DOMAIN KeywordOf /\ ParserToken(k) = KeywordOf[Spelled(k)]
      BY <2>1, <3>2, KeywordIs DEF ParserToken
    <3> QED BY <1>3, <2>1, <3>1, <3>2, <3>3, OrdinaryParts
  <2> QED BY <2>1, <2>2, <2>3
<1> QED BY <1>2, <1>4, <1>5

-----------------------------------------------------------------------------
(* Ordinary sources, one after the other.                                  *)

(* No option interferes, and the files are the arguments, in their order.  *)
Undisturbed == flags = {} /\ vals[D!StopAt] = "" /\ ~out.opened
Progress ==
  /\ pc \in {"args", "loop", "lexed", "dumped", "parsed", "exited"}
  /\ pc = "args" => Len(files) = it - 1 /\ \A i \in 1..(it - 1) : files[i] = args[i]
  /\ pc # "args" => files = args
  /\ pc = "exited" => status = D!Success /\ parsed = args

(* What the tokens of an ordinary source are, and that there are names.    *)
Readable ==
  /\ PP!EndsInSemicolonNewline /\ ~PP!StrayParen
  /\ PP!Numbered(PP!Unsupported \cup PP!Modifiers \cup {"l_square"}) = {}
  /\ (\E k \in DOMAIN lexToks : ParserTokens[k] = "id") => Len(lexedIds) >= 2
LexerRuns == /\ text = Sources[D!File]
             /\ LP!PlainState /\ LP!AllLexed /\ LP!OnlyOpenTextsHang

Survival ==
  Simple => /\ Undisturbed /\ Progress
            /\ lexPc # "idle" => LexerRuns
            /\ pc \in {"lexed", "dumped"} => Readable
            /\ parsePc # "idle" => PP!DeathState

(* A file that is ordinary can be opened and is lexed as it is.            *)
LEMMA OrdinaryFile ==
  ASSUME NEW f, Ordinary(f), ~out.opened
  PROVE  /\ ~D!Missing(f) /\ ~D!Overwritten(f) /\ f \notin Hidden \cup Unreadable
         /\ TextOf(f) = Sources[f] /\ D!Held(f) = Contents[f]
         /\ OrdinaryText(Sources[f]) /\ Len(Contents[f].names) # 1
         /\ f \notin D!HelpFlags \cup D!Flags \cup D!Options \cup Directories
BY CompileAssumption DEF Ordinary, D!Missing, D!Absent, D!Overwritten, TextOf, D!Held, D!Original,
   Contents, D!SystemConstants

LEMMA ReadableKept ==
  ASSUME Readable, UNCHANGED <<text, lexToks, lexedIds>>
  PROVE  Readable'
<1>1. ParserTokens' = ParserTokens
  BY TokensKept
<1> QED BY <1>1 DEF Readable, PP!EndsInSemicolonNewline, PP!StrayParen, PP!Numbered,
        PP!Size, PP!Token

LEMMA GivenKept == ASSUME IInv, Next PROVE UNCHANGED <<args, limit, signed>>
<1>1. CASE Driving
  BY <1>1 DEF Driving, lexerVars, D!Help, D!Flag, D!Option, D!OptionWithoutValue, D!Positional,
     D!CheckFiles, D!Dump, D!NoDump, D!StopAfterLex, D!StopAfterParse, D!NextFile, D!Return,
     D!given
<1>2. CASE OpenFile \/ LexReturns \/ NewParser \/ ParseStep \/ ParseReturns
  BY <1>2 DEF OpenFile, LexReturns, NewParser, ParseStep, ParseReturns, driverVars, lexerVars
<1>3. CASE OpenFails \/ Lost
  BY <1>3 DEF OpenFails, Lost, D!Lex, D!NoReturn, D!given, lexerVars
<1>4. CASE LexStep
  BY <1>4, SameLexer, LexerAssumed, LP!StepGiven DEF LexStep, LP!given, driverVars
<1> QED BY <1>1, <1>2, <1>3, <1>4 DEF Next

(* The steps of main().                                                    *)
LEMMA SurvivesDriving ==
  ASSUME DP!TypeOK, DP!LoopState, Undisturbed, Progress, Driving,
         \A i \in DOMAIN args : Ordinary(args[i])
  PROVE  /\ Undisturbed' /\ Progress'
         /\ pc' \in {"lexed", "dumped"} => pc = "lexed"
<1> USE DEF D!Goto, D!Exit, D!given, D!options, D!history, D!session
<1>1. /\ args \in Seq(STRING) /\ it \in 1..(Len(args) + 1) /\ cur \in 1..(Len(files) + 1)
      /\ files \in Seq(STRING) /\ parsed \in Seq(STRING)
      /\ Len(args) \in Nat /\ DOMAIN args = 1..Len(args)
  BY LenProperties DEF DP!TypeOK
<1>2. \A i \in DOMAIN args :
        args[i] \notin D!HelpFlags \cup D!Flags \cup D!Options \cup Directories \cup Hidden
  BY OrdinaryFile DEF Undisturbed
<1>3. D!Reading => it \in DOMAIN args /\ args[it] \in STRING
  BY <1>1 DEF D!Reading
<1>4. ~D!Help /\ ~D!Flag /\ ~D!Option /\ ~D!OptionWithoutValue
  BY <1>2, <1>3 DEF D!Help, D!Flag, D!Option, D!OptionWithoutValue, D!Arg, D!Reading
<1>5. ~D!Dump /\ ~D!StopAfterLex /\ ~D!StopAfterParse
  BY DEF Undisturbed, D!Dump, D!StopAfterLex, D!StopAfterParse, D!StopAt
<1>6. CASE D!Positional
  <2>1. /\ pc = "args" /\ pc' = pc /\ it' = it + 1 /\ files' = Append(files, args[it])
        /\ UNCHANGED <<args, flags, vals, out>>
    BY <1>6 DEF D!Positional, D!Reading, D!Arg, D!NextArgument
  <2>2. Len(files) = it - 1 /\ it - 1 \in Nat /\ it' - 1 = it
    BY <1>1, <2>1 DEF Progress
  <2>3. /\ Len(files') = it /\ files'[it] = args[it]
        /\ \A i \in 1..(it - 1) : files'[i] = files[i]
    BY <1>1, <1>3, <1>6, <2>1, <2>2 DEF D!Positional
  <2>4. \A i \in 1..it : i \in 1..(it - 1) \/ i = it
    BY <1>1
  <2> QED BY <2>1, <2>2, <2>3, <2>4 DEF Progress, Undisturbed
<1>7. CASE D!CheckFiles
  <2>1. /\ pc = "args" /\ it > Len(args) /\ pc' \in {"aborted", "loop"}
        /\ pc' = "aborted" => \E i \in DOMAIN files : files[i] \in Directories \cup Hidden
        /\ UNCHANGED <<args, files, flags, vals, out>>
    BY <1>7 DEF D!CheckFiles, D!DiesOf
  <2>2. it - 1 = Len(args)
    BY <1>1, <2>1
  <2>3. files = args
    BY <1>1, <2>1, <2>2, SeqEqual DEF Progress
  <2>4. pc' = "loop"
    BY <1>2, <2>1, <2>3
  <2> QED BY <2>1, <2>3, <2>4 DEF Progress, Undisturbed
<1>8. CASE D!NoDump
  BY <1>8 DEF D!NoDump, Progress, Undisturbed
<1>9. CASE D!NextFile
  BY <1>9 DEF D!NextFile, Progress, Undisturbed
<1>10. CASE D!Return
  <2>1. /\ pc = "loop" /\ pc' = "exited" /\ status' = D!Success /\ cur > Len(files)
        /\ UNCHANGED <<args, files, flags, vals, out, parsed>>
    BY <1>10 DEF D!Return
  <2>2. /\ files = args /\ Len(parsed) = cur - 1
        /\ \A i \in 1..Len(parsed) : parsed[i] = files[i]
    BY <2>1 DEF Progress, DP!LoopState, DP!LoopPcs
  <2>3. cur - 1 = Len(args)
    BY <1>1, <2>1, <2>2
  <2>4. parsed = args
    BY <1>1, <2>2, <2>3, SeqEqual
  <2> QED BY <2>1, <2>2, <2>4 DEF Progress, Undisturbed
<1> QED BY <1>4, <1>5, <1>6, <1>7, <1>8, <1>9, <1>10 DEF Driving

LEMMA FileHere ==
  ASSUME DP!TypeOK, Simple, Undisturbed, Progress, pc # "args", cur <= Len(files)
  PROVE  Ordinary(D!File) /\ cur \in 1..Len(args)
<1>1. files = args /\ cur \in 1..Len(args) /\ DOMAIN args = 1..Len(args)
  BY DEF Progress, DP!TypeOK
<1> QED BY <1>1 DEF Simple, D!File

LEMMA LexerRunsStep ==
  ASSUME LexerState, LexerRuns, LexStep
  PROVE  LexerRuns'
<1>1. LP!Typed /\ LP!Next
  BY SameLexer DEF LexerState, LexStep
<1>2. LP!PlainState' /\ LP!AllLexed' /\ LP!OnlyOpenTextsHang'
  BY <1>1, LexerAssumed, LP!PlainStep, LP!LexedStep, LP!OpenStep DEF LexerRuns
<1>3. UNCHANGED text
  BY <1>1, LexerAssumed, LP!StepGiven DEF LP!given
<1> QED BY <1>2, <1>3 DEF LexerRuns, LexStep, driverVars, D!File

LEMMA LexerRunsStart == LP!Start' => (LP!PlainState /\ LP!AllLexed /\ LP!OnlyOpenTextsHang)'
<1>1. LP!Start => LP!PlainState /\ LP!AllLexed /\ LP!OnlyOpenTextsHang
  BY LexerAssumed, LP!PlainStart, LP!LexedStart DEF LP!Start, LP!OnlyOpenTextsHang
<1> QED BY <1>1, PTL

LEMMA ParserRunsStart == PP!Start' => PP!DeathState'
<1>1. PP!Start => PP!DeathState
  BY GivenHere, PP!DeathInit
<1> QED BY <1>1, PTL

(* lex() returns tokens the parser survives, and a name for it.            *)
LEMMA LexerReturnsReadable ==
  ASSUME IInv, DP!TypeOK, Survival, Simple, LexReturns
  PROVE  Readable'
<1>1. /\ Undisturbed /\ Progress /\ LexerRuns /\ lexPc = "done" /\ pc = "loop" /\ cur <= Len(files)
      /\ LexerState /\ lexedIds \in Seq(StringsOfChars)
  BY DEF Survival, LexReturns, IInv, Phase
<1>2. /\ OrdinaryText(text) /\ D!Held(D!File) = Contents[D!File]
      /\ Len(Contents[D!File].names) # 1
  BY <1>1, FileHere, OrdinaryFile DEF LexerRuns, Undisturbed
<1>3. /\ LP!Typed /\ LP!IdsMatch /\ LP!Plain /\ LP!PlainState /\ LP!AllLexed
      /\ text \in Seq(LP!Chars) /\ lexToks \in Seq(LP!Tokens)
  BY <1>1, <1>2, OrdinaryIsPlain DEF LexerState, LexerRuns, LP!Typed, LP!TypeOK
<1>4. LP!PlainLexed
  BY <1>1, <1>3, LexerAssumed, LP!PlainCovered DEF LP!PlainLexed, LP!PlainState
<1>5. ids = Contents[D!File].names
  <2>1. [toks |-> DumpTokens, names |-> ids] = Contents[D!File]
    BY <1>1, <1>2, InvariantContents DEF LexAsContents
  <2> QED BY <2>1
<1>6. ASSUME NEW k \in DOMAIN lexToks, ParserTokens[k] = "id"
      PROVE  Len(lexedIds \o ids) >= 2
  <2>1. lexToks[k].id = "id"
    BY <1>1, <1>6, TokenIs, DumpIdIs DEF ParserTokens
  <2>2. Len(ids) \in Nat /\ Len(ids) >= 1
    BY <1>3, <2>1, LexerAssumed, LP!PlainNames
  <2>3. ids \in Seq(StringsOfChars) /\ Len(ids) # 1
    BY <1>2, <1>3, <1>5 DEF LP!Typed, LP!TypeOK, StringsOfChars
  <2>4. Len(lexedIds \o ids) = Len(lexedIds) + Len(ids)
    BY <1>1, <2>3, ConcatProperties
  <2>5. Len(lexedIds) \in Nat
    BY LenProperties DEF IInv, Phase
  <2>6. \A m, n \in Nat : n >= 1 /\ n # 1 => m + n >= 2
    OBVIOUS
  <2> QED BY <2>2, <2>3, <2>4, <2>5, <2>6, Zenon
<1>7. ParserTokens' = ParserTokens /\ UNCHANGED lexToks /\ lexedIds' = lexedIds \o ids
  BY TokensKept DEF LexReturns
<1> QED BY <1>1, <1>2, <1>4, <1>6, <1>7, OrdinaryStream
       DEF Readable, PP!EndsInSemicolonNewline, PP!StrayParen, PP!Numbered, PP!Size, PP!Token

(* The parser gets through, and finds the names it looks up.               *)
LEMMA ParserSurvives ==
  ASSUME Readable, PP!DeathState
  PROVE  parsePc \notin {"aborted", "fault", "attribute_list"}
BY GivenHere, PP!OrdinaryTokensSurvive DEF Readable

LEMMA NamesAreThere ==
  ASSUME IInv, Readable, ParseStep
  PROVE  NamesExist
<1>1. PP!IInv' /\ (looked' # <<>> => \E k \in DOMAIN lexToks : ParserTokens[k] = "id")
  BY LookedUp, GivenHere, PP!StepInvariant DEF IInv
<1>2. /\ Len(looked') \in 0..2 /\ DOMAIN looked' = 1..Len(looked')
      /\ \A k \in DOMAIN looked' : looked'[k].str = k - 1
  BY <1>1, NamesInOrderNext
<1>3. Len(lexedIds) \in Nat
  BY LenProperties DEF IInv, Phase
<1>4. ASSUME NEW k \in DOMAIN looked' PROVE looked'[k].str < Len(lexedIds)
  <2>1. looked' # <<>>
    BY <1>4
  <2>2. Len(lexedIds) >= 2
    BY <1>1, <2>1 DEF Readable
  <2> QED BY <1>2, <1>3, <2>2
<1> QED BY <1>4 DEF NamesExist

LEMMA LexerRunsSame ==
  ASSUME LP!Typed, LexerRuns, UNCHANGED <<LP!vars, text, D!File>>
  PROVE  LexerRuns'
<1>1. LP!PlainState'
  BY DEF LexerRuns, LP!vars, LP!given, LP!lexemes, LP!PlainState, LP!Plain, LP!PlainTokens,
     LP!Shaped, LP!InOrder
<1>2. LP!AllLexed' /\ LP!OnlyOpenTextsHang'
  BY LexerAssumed, LP!LexedStep, LP!OpenStep DEF LexerRuns
<1> QED BY <1>1, <1>2 DEF LexerRuns

LEMMA SurvivalStart == Init => Survival
<1>1. SUFFICES ASSUME Init PROVE Survival
  OBVIOUS
<1>2. /\ flags = {} /\ ~out.opened /\ pc = "args" /\ it = 1 /\ files = <<>>
      /\ lexPc = "idle" /\ parsePc = "idle"
  BY <1>1 DEF Init, D!Init
<1>3. vals[D!StopAt] = ""
  <2>1. D!StopAt \in D!Options /\ D!StopAt # D!SetFlag
    BY Zenon DEF D!StopAt, D!Options, D!SetFlag
  <2> QED BY <1>1, <2>1, Zenon DEF Init, D!Init
<1>4. Len(<<>>) = 1 - 1 /\ 1..(1 - 1) = {}
  OBVIOUS
<1>5. Progress
  BY <1>2, <1>4 DEF Progress
<1> QED BY <1>2, <1>3, <1>5 DEF Survival, Undisturbed

LEMMA SurvivalStep ==
  ASSUME IInv, DP!TypeOK, DP!LoopState, Survival, [Next]_vars
  PROVE  Survival'
<1> SUFFICES ASSUME Simple' PROVE Survival'
  BY DEF Survival
<1>1. CASE UNCHANGED vars
  <2>1. UNCHANGED <<args, limit, signed, it, flags, vals, files, out, pc, status, parsed, lexPc,
                    parsePc, text, lexToks, lexedIds, D!File, LP!vars, PP!vars>>
    <3>1. UNCHANGED ParserTokens
      BY <1>1, TokensKept DEF vars, lexerVars
    <3> QED BY <1>1, <3>1 DEF vars, driverVars, lexerVars, parserVars, D!File,
            LP!vars, LP!given, LP!lexemes, PP!vars, PP!given, PP!names, PP!decl
  <2>2. Simple /\ Undisturbed' /\ Progress'
    BY <2>1 DEF Simple, Survival, Undisturbed, Progress
  <2>3. lexPc # "idle" => LexerRuns'
    BY <2>1, <2>2, LexerRunsSame DEF Survival, IInv, LexerState
  <2>4. pc \in {"lexed", "dumped"} => Readable'
    BY <2>1, <2>2, ReadableKept DEF Survival
  <2>5. parsePc # "idle" => PP!DeathState'
    BY <2>1, <2>2, GivenHere, PP!DeathStep DEF Survival, IInv, ParserState
  <2> QED BY <2>1, <2>2, <2>3, <2>4, <2>5 DEF Survival
<1>2. SUFFICES ASSUME Next, Simple, Undisturbed, Progress PROVE Survival'
  BY <1>1, GivenKept DEF Survival, Simple
<1>3. /\ lexPc # "idle" => LexerRuns
      /\ pc \in {"lexed", "dumped"} => Readable
      /\ parsePc # "idle" => PP!DeathState
  BY <1>2 DEF Survival
<1>4. CASE Driving
  <2>1. UNCHANGED <<lexedIds, lexerVars, parserVars, parsePc>> /\ lexPc = "idle" /\ parsePc = "idle"
    <3>1. cur > Len(files) => ~(cur <= Len(files))
      BY DEF DP!TypeOK
    <3> QED BY <1>4, <3>1, DrivingHere DEF IInv, Phase, parserVars
  <2>2. /\ Undisturbed' /\ Progress'
        /\ pc' \in {"lexed", "dumped"} => pc = "lexed"
    BY <1>2, <1>4, SurvivesDriving DEF Simple
  <2>3. pc' \in {"lexed", "dumped"} => Readable'
    BY <1>3, <2>1, <2>2, ReadableKept DEF lexerVars
  <2> QED BY <2>1, <2>2, <2>3 DEF Survival, lexerVars
<1>5. CASE OpenFile
  <2>1. /\ pc = "loop" /\ cur <= Len(files) /\ parsePc = "idle" /\ text' = TextOf(D!File)
        /\ UNCHANGED <<driverVars, parsePc, D!File>>
    BY <1>5 DEF OpenFile, IInv, Phase, driverVars, parserVars, D!File
  <2>2. text' = Sources[D!File]
    BY <1>2, <2>1, FileHere, OrdinaryFile DEF Undisturbed
  <2>3. LexerRuns'
    BY <1>5, <2>1, <2>2, LexerOpens, LexerRunsStart DEF LexerRuns
  <2>4. Undisturbed' /\ Progress'
    BY <1>2, <2>1 DEF Undisturbed, Progress, driverVars
  <2> QED BY <2>1, <2>3, <2>4 DEF Survival, driverVars
<1>6. CASE OpenFails
  <2>1. pc = "loop" /\ cur <= Len(files) /\ ~D!Opens(D!File)
    BY <1>6 DEF OpenFails, D!Lex, D!Goto
  <2>2. Ordinary(D!File) /\ cur \in 1..Len(args)
    BY <1>2, <2>1, FileHere
  <2>3. ~D!CanOpen
    BY <1>2, <2>1, <2>2, OrdinaryFile DEF Undisturbed, D!Opens
  <2>4. Len(lexed) = cur - 1 /\ limit \in Nat /\ Len(args) <= limit /\ Len(args) \in Nat
    BY <1>2, <2>1, LenProperties DEF DP!LoopState, DP!LoopPcs, DP!TypeOK, Simple
  <2>5. Len(lexed) < limit
    BY <2>2, <2>4
  <2> QED BY <2>3, <2>5 DEF D!CanOpen
<1>7. CASE LexStep
  <2>1. pc = "loop" /\ lexPc # "idle" /\ parsePc = "idle" /\ UNCHANGED <<driverVars, parsePc>>
    BY <1>7 DEF LexStep, IInv, Phase, parserVars
  <2>2. LexerRuns'
    BY <1>3, <1>7, <2>1, LexerRunsStep DEF IInv
  <2>3. Undisturbed' /\ Progress'
    BY <1>2, <2>1 DEF Undisturbed, Progress, driverVars
  <2> QED BY <2>1, <2>2, <2>3 DEF Survival, driverVars
<1>8. CASE LexReturns
  <2>1. /\ pc = "loop" /\ pc' = "lexed" /\ lexPc' = "idle" /\ parsePc = "idle"
        /\ UNCHANGED <<args, it, flags, vals, files, out, parsed, status, parsePc>>
    BY <1>8 DEF LexReturns, IInv, Phase, parserVars
  <2>2. Readable'
    BY <1>2, <1>8, LexerReturnsReadable
  <2>3. Undisturbed' /\ Progress'
    BY <1>2, <2>1 DEF Undisturbed, Progress
  <2> QED BY <2>1, <2>2, <2>3 DEF Survival
<1>9. CASE NewParser
  <2>1. pc = "dumped" /\ lexPc = "idle" /\ UNCHANGED <<driverVars, lexerVars>>
    BY <1>9 DEF NewParser, IInv, Phase
  <2>2. PP!DeathState'
    BY <1>9, ParserOpens, ParserRunsStart
  <2>3. Readable'
    BY <1>3, <2>1, ReadableKept DEF lexerVars, driverVars
  <2>4. Undisturbed' /\ Progress'
    BY <1>2, <2>1 DEF Undisturbed, Progress, driverVars
  <2> QED BY <2>1, <2>2, <2>3, <2>4 DEF Survival, lexerVars
<1>10. CASE ParseStep
  <2>1. pc = "dumped" /\ parsePc # "idle" /\ lexPc = "idle" /\ UNCHANGED lexerVars
    BY <1>10 DEF ParseStep, IInv, Phase
  <2>2. UNCHANGED driverVars
    BY <1>3, <1>10, <2>1, NamesAreThere DEF ParseStep
  <2>3. PP!DeathState'
    <3>1. PP!IInv /\ PP!Next
      BY <1>10, LookedUp DEF IInv
    <3> QED BY <1>3, <2>1, <3>1, GivenHere, PP!DeathStep
  <2>4. Readable'
    BY <1>3, <2>1, <2>2, ReadableKept DEF lexerVars, driverVars
  <2>5. Undisturbed' /\ Progress'
    BY <1>2, <2>2 DEF Undisturbed, Progress, driverVars
  <2> QED BY <2>1, <2>3, <2>4, <2>5 DEF Survival, lexerVars
<1>11. CASE ParseReturns
  <2>1. /\ pc = "dumped" /\ pc' = "parsed" /\ lexPc = "idle" /\ parsePc' = "idle"
        /\ UNCHANGED <<args, it, flags, vals, files, out, lexPc>>
    BY <1>11 DEF ParseReturns, IInv, Phase, lexerVars
  <2>2. Undisturbed' /\ Progress'
    BY <1>2, <2>1 DEF Undisturbed, Progress
  <2> QED BY <2>1, <2>2 DEF Survival
<1>12. ~Lost
  <2>1. ASSUME lexPc \in {"hung", "aborted"} PROVE FALSE
    <3>1. pc = "loop" /\ cur <= Len(files) /\ LexerRuns
      BY <1>2, <1>3, <2>1 DEF IInv, Phase, Progress
    <3>2. OrdinaryText(text)
      BY <1>2, <3>1, FileHere, OrdinaryFile DEF LexerRuns, Undisturbed
    <3>3. LP!Closed /\ signed
      BY <1>2, <3>2, OrdinaryIsPlain DEF Simple
    <3> QED BY <2>1, <3>1, <3>3 DEF LexerRuns, LP!OnlyOpenTextsHang
  <2>2. ASSUME parsePc \in {"aborted", "fault"} PROVE FALSE
    <3>1. pc = "dumped"
      BY <1>2, <2>2 DEF IInv, Phase, Progress
    <3> QED BY <1>3, <2>2, <3>1, ParserSurvives
  <2> QED BY <2>1, <2>2 DEF Lost
<1> QED BY <1>2, <1>4, <1>5, <1>6, <1>7, <1>8, <1>9, <1>10, <1>11, <1>12 DEF Next

LEMMA SurvivalSuffices ==
  ASSUME IInv, Survival
  PROVE  OrdinarySourcesSurvive
<1> SUFFICES ASSUME Simple PROVE /\ pc \notin {"stuck", "aborted", "undefined"}
                                 /\ parsePc # "attribute_list"
                                 /\ pc = "exited" => status = D!Success /\ parsed = args
  BY DEF OrdinarySourcesSurvive
<1>1. Progress /\ (pc \in {"lexed", "dumped"} => Readable) /\ (parsePc # "idle" => PP!DeathState)
  BY DEF Survival
<1>2. parsePc # "idle" => pc = "dumped"
  BY <1>1 DEF IInv, Phase, Progress
<1>3. parsePc # "attribute_list"
  BY <1>1, <1>2, ParserSurvives
<1> QED BY <1>1, <1>3 DEF Progress

(* However many ordinary sources a compiler is given, of whatever text and *)
(* with whatever keywords, it does not lose one: lex() comes back with     *)
(* tokens that parse() survives, the names it looks up are there, and when *)
(* main() returns it has parsed every file (a_c_compiler.cpp:203, 234).    *)
THEOREM OrdinarySourcesAreNotLost == Spec => []OrdinarySourcesSurvive
<1>1. DP!DriverConstants
  BY CompileAssumption, LexedAssumed, SameConstants
<1>2. DP!Spec => [](DP!TypeOK /\ DP!LoopState)
  BY <1>1, DP!LoopCorrect
<1>3. Spec => [](IInv /\ DP!TypeOK /\ DP!LoopState)
  BY <1>2, SameDriver, Invariance, CompilerImplementsDriver, PTL DEF ImplementsDriver
<1>4. IInv /\ DP!TypeOK /\ DP!LoopState /\ Survival /\ [Next]_vars => Survival'
  BY SurvivalStep
<1>5. IInv /\ Survival => OrdinarySourcesSurvive
  BY SurvivalSuffices
<1> QED BY <1>3, <1>4, <1>5, SurvivalStart, PTL DEF Spec

-----------------------------------------------------------------------------
(* Every call of lex() and parse() keeps what is proved of one alone.      *)

LexCall   == lexPc # "idle" => LP!CallState
ParseCall == parsePc # "idle" => PP!CallState
Calls     == LexCall /\ ParseCall

LEMMA LexCallStart == LP!Start' => LP!CallState'
<1>1. LP!Start => LP!CallState
  BY LexerAssumed, LP!CallStart
<1> QED BY <1>1, PTL

LEMMA ParseCallStart == PP!Start' => PP!CallState'
<1>1. PP!Start => PP!CallState
  BY GivenHere, PP!CallStart
<1> QED BY <1>1, PTL

(* A step of the compiler ends a call, begins one, or is a step of it.     *)
LEMMA LexerMoves ==
  ASSUME IInv, [Next]_vars
  PROVE  lexPc' = "idle" \/ LP!Start' \/ (lexPc # "idle" /\ [LP!Next]_(LP!vars))
<1> USE DEF lexerVars, LP!vars, LP!given, LP!lexemes
<1>1. CASE UNCHANGED vars
  BY <1>1 DEF vars, driverVars
<1>2. CASE Driving
  BY <1>2, DrivingHere DEF IInv
<1>3. CASE OpenFile
  BY <1>3, LexerOpens
<1>4. CASE OpenFails
  BY <1>4 DEF OpenFails
<1>5. CASE LexStep
  BY <1>5, SameLexer DEF LexStep
<1>6. CASE LexReturns
  BY <1>6 DEF LexReturns
<1>7. CASE NewParser
  BY <1>7 DEF NewParser, driverVars
<1>8. CASE ParseStep
  BY <1>8 DEF ParseStep, driverVars
<1>9. CASE ParseReturns
  BY <1>9 DEF ParseReturns
<1>10. CASE Lost
  BY <1>10 DEF Lost, D!NoReturn, D!given
<1> QED BY <1>1, <1>2, <1>3, <1>4, <1>5, <1>6, <1>7, <1>8, <1>9, <1>10 DEF Next

LEMMA ParserMoves ==
  ASSUME IInv, [Next]_vars
  PROVE  parsePc' = "idle" \/ PP!Start' \/ (parsePc # "idle" /\ [PP!Next]_(PP!vars))
<1> USE DEF parserVars, PP!vars, PP!given, PP!names, PP!decl
<1>1. CASE UNCHANGED vars
  <2>1. UNCHANGED ParserTokens
    BY <1>1, TokensKept DEF vars, lexerVars
  <2> QED BY <1>1, <2>1 DEF vars, driverVars
<1>2. CASE Driving
  <2>1. UNCHANGED ParserTokens
    BY <1>2, DrivingHere, TokensKept DEF IInv, lexerVars
  <2> QED BY <1>2, <2>1, DrivingHere DEF IInv
<1>3. CASE OpenFile
  BY <1>3 DEF OpenFile, IInv, Phase
<1>4. CASE OpenFails
  <2>1. parsePc = "idle"
    BY <1>4 DEF OpenFails, D!Lex, IInv, Phase
  <2> QED BY <1>4, <2>1 DEF OpenFails
<1>5. CASE LexStep
  BY <1>5 DEF LexStep, IInv, Phase
<1>6. CASE LexReturns
  BY <1>6 DEF LexReturns, IInv, Phase
<1>7. CASE NewParser
  BY <1>7, ParserOpens
<1>8. CASE ParseStep
  BY <1>8, SameParser DEF ParseStep
<1>9. CASE ParseReturns
  BY <1>9 DEF ParseReturns
<1>10. CASE Lost
  <2>1. UNCHANGED <<ParserTokens, asserts>>
    BY <1>10, TokensKept DEF Lost, lexerVars, D!NoReturn, D!given
  <2> QED BY <1>10, <2>1 DEF Lost
<1> QED BY <1>1, <1>2, <1>3, <1>4, <1>5, <1>6, <1>7, <1>8, <1>9, <1>10 DEF Next

LEMMA CallsStep == IInv /\ Calls /\ [Next]_vars => Calls'
<1>1. SUFFICES ASSUME IInv, Calls, [Next]_vars PROVE Calls'
  OBVIOUS
<1>2. LexCall'
  <2>1. lexPc # "idle" /\ [LP!Next]_(LP!vars) => LP!CallState'
    BY <1>1, LexerAssumed, LP!CallStep DEF Calls, LexCall
  <2> QED BY <1>1, <2>1, LexerMoves, LexCallStart DEF LexCall
<1>3. ParseCall'
  <2>1. parsePc # "idle" /\ [PP!Next]_(PP!vars) => PP!CallState'
    BY <1>1, GivenHere, PP!CallStep DEF Calls, ParseCall
  <2> QED BY <1>1, <2>1, ParserMoves, ParseCallStart DEF ParseCall
<1> QED BY <1>2, <1>3 DEF Calls

LEMMA CallsAlways == Spec => []Calls
<1>1. Init => Calls
  BY DEF Init, Calls, LexCall, ParseCall
<1> QED BY <1>1, CallsStep, Invariance, PTL DEF Spec

(* What the theorems about Lexer and Parser say of a call while it runs.   *)
CallsPromise ==
  /\ lexPc # "idle" =>
       /\ LP!LexemesMatchTokens /\ LP!NothingLost /\ LP!IdentifiersSpelledAsWritten
       /\ LP!LocationsExact /\ LP!LexesTheText /\ LP!OnlyOpenTextsHang
  /\ parsePc # "idle" =>
       /\ PP!BacktrackingRestoresCursor /\ PP!NoReadPastEnd /\ PP!CursorInBounds
       /\ PP!OneNameLookedUp /\ PP!RejectedAtFirstToken
       /\ PP!MergedCategory /\ PP!DeathsExplained

(* In the whole compiler, in whatever order files are lexed and parsed and *)
(* whatever has run before, each call of lex() has lexed its text as       *)
(* Lexer's theorems say, and each call of parse() keeps what Parser's say, *)
(* of the tokens that lex() has made (a_c_compiler.cpp:203, 234).          *)
THEOREM CallsKeepTheirPromises == Spec => []CallsPromise
<1>1. ASSUME IInv, Calls PROVE CallsPromise
  <2>1. ASSUME lexPc # "idle"
        PROVE  /\ LP!LexemesMatchTokens /\ LP!NothingLost /\ LP!IdentifiersSpelledAsWritten
               /\ LP!LocationsExact /\ LP!LexesTheText /\ LP!OnlyOpenTextsHang
    BY <1>1, <2>1, LexerAssumed, LP!CallPromises
       DEF Calls, LexCall, IInv, LexerState, LP!Coming
  <2>2. ASSUME parsePc # "idle"
        PROVE  /\ PP!BacktrackingRestoresCursor /\ PP!NoReadPastEnd /\ PP!CursorInBounds
               /\ PP!OneNameLookedUp /\ PP!RejectedAtFirstToken
               /\ PP!MergedCategory /\ PP!DeathsExplained
    BY <1>1, <2>2, GivenHere, PP!CallPromises DEF Calls, ParseCall
  <2> QED BY <2>1, <2>2 DEF CallsPromise
<1> QED BY <1>1, Invariance, CallsAlways, PTL

-----------------------------------------------------------------------------
(* Compiling ends: the bound on what is left falls with every step.        *)

LEMMA SameLeft == L!Left = LP!Left /\ P!Left = PP!Left
<1>1. L!Left = LP!Left
  BY Zenon DEF L!Left, LP!Left, L!Halted, LP!Halted
<1>2. P!Left = PP!Left
  BY Zenon DEF P!Left, PP!Left, P!HaltedPcs, PP!HaltedPcs, P!Far, PP!Far, P!AttributePcs,
     PP!AttributePcs, P!LeftToSkip, PP!LeftToSkip, P!TriedFrom, PP!TriedFrom, P!LeftToTry,
     PP!LeftToTry, P!Limit, PP!Limit, P!FunctionPcs, PP!FunctionPcs, P!Tries, PP!Tries,
     P!Size, PP!Size
<1> QED BY <1>1, <1>2

LEMMA SameLeftNext == (L!Left = LP!Left /\ P!Left = PP!Left)'
BY SameLeft, PTL

(* What Driver says of the positions in the arguments and the files.       *)
Positions ==
  /\ Len(args) \in Nat /\ it \in 1..(Len(args) + 1)
  /\ Len(files) \in Nat /\ cur \in 1..(Len(files) + 1)
  /\ pc \in {"args", "loop", "lexed", "dumped", "parsed",
             "exited", "aborted", "undefined", "stuck"}

LEMMA LeftType ==
  IInv /\ Positions /\ Calls => StepsLeft \in Nat \X Nat \X Nat \X Nat
<1>1. SUFFICES ASSUME IInv, Positions, Calls
               PROVE  StepsLeft \in Nat \X Nat \X Nat \X Nat
  OBVIOUS
<1>2. Within \in Nat
  BY <1>1, SameLeft, LexerAssumed, GivenHere, LP!CallLeft, PP!CallLeft
     DEF Within, Calls, LexCall, ParseCall
<1>3. Stage \in Nat
  BY DEF Stage
<1>4. Len(args) + 1 - it \in Nat /\ Len(files) + 1 - cur \in Nat
  BY <1>1 DEF Positions
<1> QED BY <1>2, <1>3, <1>4 DEF StepsLeft

LEMMA LeftTypeNext ==
  (IInv /\ Positions /\ Calls)' => (StepsLeft \in Nat \X Nat \X Nat \X Nat)'
BY LeftType, PTL

LEMMA LowerAt ==
  ASSUME NEW a, NEW b, NEW d, NEW e, NEW w, NEW x, NEW y, NEW z,
         \/ a < w
         \/ a = w /\ b < x
         \/ a = w /\ b = x /\ d < y
         \/ a = w /\ b = x /\ d = y /\ e < z
  PROVE  Lower(<<a, b, d, e>>, <<w, x, y, z>>)
<1> DEFINE p == <<a, b, d, e>>
           q == <<w, x, y, z>>
<1>1. /\ p[1] = a /\ p[2] = b /\ p[3] = d /\ p[4] = e
      /\ q[1] = w /\ q[2] = x /\ q[3] = y /\ q[4] = z
  OBVIOUS
<1>2. /\ 1..(1 - 1) = {} /\ 1..(2 - 1) = {1} /\ 1..(3 - 1) = {1, 2}
      /\ 1..(4 - 1) = {1, 2, 3} /\ {1, 2, 3, 4} \subseteq 1..4
  OBVIOUS
<1> HIDE DEF p, q
<1>3. \E k \in 1..4 : p[k] < q[k] /\ \A j \in 1..(k - 1) : p[j] = q[j]
  <2>1. CASE a < w
    BY <1>1, <1>2, <2>1
  <2>2. CASE a = w /\ b < x
    BY <1>1, <1>2, <2>2
  <2>3. CASE a = w /\ b = x /\ d < y
    BY <1>1, <1>2, <2>3
  <2>4. CASE a = w /\ b = x /\ d = y /\ e < z
    BY <1>1, <1>2, <2>4
  <2> QED BY <2>1, <2>2, <2>3, <2>4
<1> QED BY <1>3 DEF Lower, p, q

(* Where lex() or parse() moves on, it has less left.                      *)
LEMMA LexStepLowers ==
  ASSUME IInv, Calls, LexStep
  PROVE  Within' < Within /\ lexPc' # "idle"
<1>1. lexPc # "idle" /\ LP!CallState /\ LP!Next
  BY SameLexer DEF LexStep, Calls, LexCall
<1>2. LP!Left' < LP!Left
  BY <1>1, LexerAssumed, LP!CallLowers
<1>3. lexPc' # "idle"
  BY <1>1, LexerAssumed, LP!CallStep DEF LP!CallState, LP!Typed, LP!TypeOK
<1> QED BY <1>1, <1>2, <1>3, SameLeft, SameLeftNext DEF Within

LEMMA ParseStepLowers ==
  ASSUME IInv, Calls, ParseStep, parserVars' # parserVars
  PROVE  Within' < Within /\ parsePc' # "idle"
<1>1. /\ parsePc # "idle" /\ lexPc = "idle" /\ lexPc' = "idle"
      /\ PP!CallState /\ PP!Next
  BY SameParser DEF ParseStep, Calls, ParseCall, IInv, Phase, lexerVars
<1>2. PP!vars' # PP!vars
  BY DEF parserVars, PP!vars, PP!given, PP!names, PP!decl
<1>3. PP!Left' < PP!Left
  BY <1>1, <1>2, GivenHere, PP!CallLowers
<1>4. parsePc' # "idle"
  <2>1. PP!CallState'
    BY <1>1, GivenHere, PP!CallStep
  <2> QED BY <2>1 DEF PP!CallState, PP!IInv, PP!Control, PP!PCs, PP!AttributePcs,
             PP!DeclaratorPcs, PP!HaltedPcs
<1> QED BY <1>1, <1>3, <1>4, SameLeft, SameLeftNext DEF Within

(* main() goes on to the next argument, file or stage, or ends.            *)
LEMMA EndingLowers ==
  ASSUME ~D!Ended, D!Ended'
  PROVE  Lower(StepsLeft', StepsLeft)
<1>1. StepsLeft' = <<0, 0, 0, 0>>
  BY DEF StepsLeft
<1>2. \/ StepsLeft = <<2, Len(args) + 1 - it, 0, 0>>
      \/ StepsLeft = <<1, Len(files) + 1 - cur, Stage, Within>>
  BY DEF StepsLeft
<1> QED BY <1>1, <1>2, LowerAt

LEMMA LoopingLowers ==
  ASSUME pc \in {"loop", "lexed", "dumped", "parsed"},
         pc' \in {"loop", "lexed", "dumped", "parsed"},
         \/ Len(files') - cur' < Len(files) - cur
         \/ UNCHANGED <<files, cur>> /\ Stage' < Stage
         \/ UNCHANGED <<files, cur, Stage>> /\ Within' < Within,
         Positions, Positions'
  PROVE  Lower(StepsLeft', StepsLeft)
<1>1. /\ StepsLeft  = <<1, Len(files) + 1 - cur, Stage, Within>>
      /\ StepsLeft' = <<1, Len(files') + 1 - cur', Stage', Within'>>
  BY DEF StepsLeft, D!Ended
<1>2. \/ Len(files') + 1 - cur' < Len(files) + 1 - cur
      \/ UNCHANGED <<files, cur>> /\ Stage' < Stage
      \/ UNCHANGED <<files, cur, Stage>> /\ Within' < Within
  BY SMTT(30) DEF Positions
<1>3. \/ Len(files') + 1 - cur' < Len(files) + 1 - cur
      \/ Len(files') + 1 - cur' = Len(files) + 1 - cur /\ Stage' < Stage
      \/ Len(files') + 1 - cur' = Len(files) + 1 - cur /\ Stage' = Stage /\ Within' < Within
  BY <1>2
<1> QED BY <1>1, <1>3, LowerAt

LEMMA ReadingLowers ==
  ASSUME pc = "args", Positions, Positions',
         \/ pc' = "args" /\ args' = args /\ it' \in {it + 1, it + 2}
         \/ pc' = "loop"
  PROVE  Lower(StepsLeft', StepsLeft)
<1>1. StepsLeft = <<2, Len(args) + 1 - it, 0, 0>>
  BY DEF StepsLeft, D!Ended
<1>2. CASE pc' = "loop"
  <2>1. StepsLeft' = <<1, Len(files') + 1 - cur', Stage', Within'>>
    BY <1>2 DEF StepsLeft, D!Ended
  <2> QED BY <1>1, <2>1, LowerAt
<1>3. CASE pc' = "args" /\ args' = args /\ it' \in {it + 1, it + 2}
  <2>1. StepsLeft' = <<2, Len(args) + 1 - it', 0, 0>>
    BY <1>3 DEF StepsLeft, D!Ended
  <2>2. Len(args) + 1 - it' < Len(args) + 1 - it
    BY <1>3 DEF Positions
  <2> QED BY <1>1, <2>1, <2>2, LowerAt
<1> QED BY <1>2, <1>3

LEMMA DrivingLowers ==
  ASSUME IInv, Positions, Positions', Driving
  PROVE  Lower(StepsLeft', StepsLeft)
<1> USE DEF D!Goto, D!Exit, D!given, D!options, D!history, D!session
<1>1. UNCHANGED args
  BY DrivingHere DEF IInv
<1>2. CASE D!Flag \/ D!Positional
  <2>1. pc = "args" /\ pc' = "args" /\ it' = it + 1
    BY <1>2 DEF D!Flag, D!Positional, D!Reading, D!NextArgument
  <2> QED BY <1>1, <2>1, ReadingLowers
<1>3. CASE D!Option
  <2>1. pc = "args" /\ pc' \in {"args", "aborted"} /\ it' = it + 2
    BY <1>3 DEF D!Option, D!HandleFeatureFlag, D!Reading
  <2>2. CASE pc' = "args"
    BY <1>1, <2>1, <2>2, ReadingLowers
  <2>3. CASE pc' = "aborted"
    BY <2>1, <2>3, EndingLowers DEF D!Ended
  <2> QED BY <2>1, <2>2, <2>3
<1>4. CASE D!Help \/ D!OptionWithoutValue \/ D!StopAfterLex \/ D!StopAfterParse \/ D!Return
  <2>1. /\ pc \in {"args", "dumped", "parsed", "loop"}
        /\ pc' \in {"exited", "aborted", "undefined"}
    BY <1>4 DEF D!Help, D!OptionWithoutValue, D!StopAfterLex, D!StopAfterParse, D!Return,
       D!Reading, D!FailedAssert, D!ExitWithLexerStatus
  <2> QED BY <2>1, EndingLowers DEF D!Ended
<1>5. CASE D!CheckFiles
  <2>1. pc = "args" /\ pc' \in {"aborted", "loop"}
    BY <1>5 DEF D!CheckFiles
  <2>2. CASE pc' = "aborted"
    BY <2>1, <2>2, EndingLowers DEF D!Ended
  <2> QED BY <2>1, <2>2, ReadingLowers
<1>6. CASE D!Dump \/ D!NoDump
  <2>1. /\ pc = "lexed" /\ pc' \in {"undefined", "aborted", "dumped"}
        /\ UNCHANGED <<files, cur>>
    BY <1>6 DEF D!Dump, D!NoDump
  <2>2. CASE pc' = "dumped"
    <3>1. Stage' < Stage
      BY <2>1, <2>2 DEF Stage
    <3> QED BY <2>1, <2>2, <3>1, LoopingLowers
  <2> QED BY <2>1, <2>2, EndingLowers DEF D!Ended
<1>7. CASE D!NextFile
  <2>1. pc = "parsed" /\ pc' = "loop" /\ files' = files /\ cur' = cur + 1
    BY <1>7 DEF D!NextFile
  <2>2. Len(files') - cur' < Len(files) - cur
    BY <2>1 DEF Positions
  <2> QED BY <2>1, <2>2, LoopingLowers
<1> QED BY <1>2, <1>3, <1>4, <1>5, <1>6, <1>7 DEF Driving

LEMMA StepLowers ==
  ASSUME IInv, Positions, Positions', Calls, Next, vars' # vars
  PROVE  Lower(StepsLeft', StepsLeft)
<1>1. CASE Driving
  BY <1>1, DrivingLowers
<1>2. CASE OpenFile
  <2>1. /\ pc = "loop" /\ pc' = "loop" /\ UNCHANGED <<files, cur>>
        /\ lexPc = "idle" /\ lexPc' = "switch"
    BY <1>2 DEF OpenFile, driverVars
  <2>2. Stage' < Stage
    BY <2>1 DEF Stage
  <2> QED BY <2>1, <2>2, LoopingLowers
<1>3. CASE OpenFails
  <2>1. pc = "loop" /\ pc' \in {"aborted", "undefined"}
    BY <1>3 DEF OpenFails, D!Lex, D!Goto, D!FailedAssert
  <2> QED BY <2>1, EndingLowers DEF D!Ended
<1>4. CASE LexStep
  <2>1. /\ pc = "loop" /\ pc' = "loop" /\ UNCHANGED <<files, cur>> /\ lexPc # "idle"
    BY <1>4 DEF LexStep, driverVars
  <2>2. Stage' = Stage /\ Within' < Within
    BY <1>4, <2>1, LexStepLowers DEF Stage
  <2> QED BY <2>1, <2>2, LoopingLowers
<1>5. CASE LexReturns
  <2>1. /\ pc = "loop" /\ pc' = "lexed" /\ UNCHANGED <<files, cur>> /\ lexPc # "idle"
    BY <1>5 DEF LexReturns, IInv, Phase
  <2>2. Stage' < Stage
    BY <2>1 DEF Stage
  <2> QED BY <2>1, <2>2, LoopingLowers
<1>6. CASE NewParser
  <2>1. /\ pc = "dumped" /\ pc' = "dumped" /\ UNCHANGED <<files, cur>>
        /\ parsePc = "idle" /\ parsePc' # "idle"
    BY <1>6 DEF NewParser, driverVars
  <2>2. Stage' < Stage
    BY <2>1 DEF Stage
  <2> QED BY <2>1, <2>2, LoopingLowers
<1>7. CASE ParseStep
  <2>1. pc = "dumped" /\ parsePc # "idle" /\ (pc' = "undefined" \/ UNCHANGED driverVars)
    BY <1>7 DEF ParseStep
  <2>2. CASE pc' = "undefined"
    BY <2>1, <2>2, EndingLowers DEF D!Ended
  <2>3. CASE UNCHANGED driverVars
    <3>1. parserVars' # parserVars
      BY <1>7, <2>3 DEF ParseStep, vars
    <3>2. pc' = "dumped" /\ UNCHANGED <<files, cur>>
      BY <2>1, <2>3 DEF driverVars
    <3>3. Stage' = Stage /\ Within' < Within
      BY <1>7, <2>1, <3>1, <3>2, ParseStepLowers DEF Stage
    <3> QED BY <2>1, <3>2, <3>3, LoopingLowers
  <2> QED BY <2>1, <2>2, <2>3
<1>8. CASE ParseReturns
  <2>1. /\ pc = "dumped" /\ pc' = "parsed" /\ UNCHANGED <<files, cur>>
    BY <1>8 DEF ParseReturns, IInv, Phase
  <2>2. Stage' < Stage
    BY <2>1 DEF Stage
  <2> QED BY <2>1, <2>2, LoopingLowers
<1>9. CASE Lost
  <2>1. pc \in {"loop", "dumped"} /\ pc' = "stuck"
    BY <1>9 DEF Lost, D!NoReturn, D!Goto
  <2> QED BY <2>1, EndingLowers DEF D!Ended
<1> QED BY <1>1, <1>2, <1>3, <1>4, <1>5, <1>6, <1>7, <1>8, <1>9 DEF Next

(* Whatever the command line, the files, their texts and the build, the    *)
(* compiler takes finitely many steps: each leaves it less to do, in an    *)
(* order in which nothing falls for ever, until it exits, dies, or is in a *)
(* loop of lex() or parse() that changes nothing any more                  *)
(* (a_c_compiler.cpp:104, 198).                                            *)
THEOREM CompilingTerminates == Spec => EachStepNearsTheEnd
<1>1. DP!DriverConstants
  BY CompileAssumption, LexedAssumed, SameConstants
<1>2. DP!Spec => []DP!TypeOK
  BY <1>1, DP!LoopCorrect, PTL
<1>3. DP!TypeOK => Positions
  BY LenProperties DEF DP!TypeOK, Positions
<1>4. Spec => [](IInv /\ Positions /\ Calls)
  BY <1>2, <1>3, SameDriver, Invariance, CallsAlways, CompilerImplementsDriver, PTL
     DEF ImplementsDriver
<1>5. IInv /\ Positions /\ Calls /\ (IInv /\ Positions /\ Calls)' /\ [Next]_vars
        => [/\ {StepsLeft, StepsLeft'} \subseteq Nat \X Nat \X Nat \X Nat
            /\ Lower(StepsLeft', StepsLeft)]_vars
  <2>1. SUFFICES ASSUME IInv, Positions, Calls, (IInv /\ Positions /\ Calls)', Next, vars' # vars
                 PROVE  /\ {StepsLeft, StepsLeft'} \subseteq Nat \X Nat \X Nat \X Nat
                        /\ Lower(StepsLeft', StepsLeft)
    OBVIOUS
  <2>2. Lower(StepsLeft', StepsLeft)
    BY <2>1, StepLowers
  <2>3. /\ StepsLeft \in Nat \X Nat \X Nat \X Nat
        /\ StepsLeft' \in Nat \X Nat \X Nat \X Nat
    BY <2>1, LeftType, LeftTypeNext
  <2> QED BY <2>2, <2>3
<1> QED BY <1>4, <1>5, PTL DEF Spec, EachStepNearsTheEnd
=============================================================================
