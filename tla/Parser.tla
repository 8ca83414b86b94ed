------------------------------- MODULE Parser -------------------------------
(***************************************************************************)
(* The recursive-descent parser of fe/parse/parse.cpp: one call of         *)
(* parse() on a token stream, from external_declaration to its return.     *)
(*                                                                         *)
(* A step is one parse function, or one iteration of one of its loops; pc  *)
(* names the function about to run.  The C++ call stack has one unbounded  *)
(* part, the parenthesised declarators, and nest counts them.  Tokens are  *)
(* numbered from 0 as in m_toks.                                           *)
(*                                                                         *)
(* m_toks is indexed without a bounds check.  lex() reserves 2048 tokens,  *)
(* so what lies past the last one is uninitialised storage: slack holds    *)
(* what it happens to contain, and Unmapped what lies beyond it.           *)
(***************************************************************************)
EXTENDS Integers, Sequences, FiniteSets

CONSTANTS
  TokenStreams,  \* the token_vectors parse() may be given
  Slacks,        \* what the reserved, uninitialised storage may hold
  Builds         \* the builds: TRUE when ZTD_ASSERT_MESSAGE aborts

StorageClasses == {"static", "extern", "constexpr", "register",
                   "thread_local", "typedef", "auto"}
PlainCategories  == {"void", "char", "bool", "short"}
MergedCategories == {"int", "long", "float", "double"}
Modifiers        == {"signed", "unsigned"}
FunctionSpecs    == {"inline", "_Noreturn"}
Unsupported      == {"_BitInt", "_Complex"}
OtherKeywords    == {"struct", "return", "const"}   \* handled by no specifier

Specifiers == StorageClasses \cup PlainCategories \cup MergedCategories
                \cup Modifiers \cup FunctionSpecs
Keywords   == Specifiers \cup Unsupported \cup OtherKeywords
OtherTokens == {"id", "newline", "number", "l_paren", "r_paren", "l_square",
                "r_square", "l_curly", "r_curly", "semicolon", "asterisk",
                "colon", "comma"}
TokenIds   == Keywords \cup OtherTokens
Unmapped   == "unmapped"

ASSUME StreamsAssumption == /\ TokenStreams \subseteq Seq(TokenIds)
                            /\ Slacks \subseteq Seq(TokenIds)
                            /\ Builds \subseteq BOOLEAN

VARIABLES
  toks, slack, asserts,  \* chosen at the start, never changed
  pc,
  idx,        \* m_toks_index
  hist,       \* m_token_history_stack
  nest,       \* open calls of parse_direct_declarator below a "("
  lastId,     \* m_last_identifier_string_index
  lookups,    \* history: the calls of lexed_id, [at: token, str: index]
  attrs,      \* fd.declaration.attributes.size()
  types,      \* the entries added to type_data_table
  funcspecs,  \* fd.declaration.funcspecs
  diags       \* what the reporter was given, [id, at]

given == <<toks, slack, asserts>>
names == <<lastId, lookups>>
decl  == <<attrs, types, funcspecs>>
vars  == <<given, pc, idx, hist, nest, names, decl, diags>>

-----------------------------------------------------------------------------
(* The token stream and the primitives on the cursor.                      *)

Size  == Len(toks)
Limit == Size + Len(slack)

Token(i) == IF i < Size THEN toks[i + 1]
            ELSE IF i < Limit THEN slack[i - Size + 1] ELSE Unmapped
Current == Token(idx)

(* Both comparisons subtract unsigned numbers: past the end they hold.     *)
CanAdvanceToEnd(by) == idx > Size \/ by <= Size - idx        \* mutant: off by one
HasPeek(by)    == idx > Size \/ by <= Size - idx
CanAdvance(by) == idx > Size \/ by < Size - idx

(* A doubled token: peek_token() decides, and lets its caller read         *)
(* m_toks[size] when the cursor is on the last token.                      *)
Doubled(t) == Current = t /\ HasPeek(1) /\ Token(idx + 1) = t

(* The tokens find_first_of visits.  The walk stops at a wanted token, or  *)
(* when get_next_token reports the end, and then reads m_toks[size].       *)
WantedParens == {"l_paren", "l_curly"}                        \* mutant
Wanted   == {"l_paren", "l_curly", "semicolon"}
Stops(i) == \/ Token(i) \in Wanted \cup {Unmapped}
            \/ i = Size /\ idx < Size
Scanned  == {i \in idx..Limit : \A j \in idx..(i - 1) : ~Stops(j)}

UninitialisedType == [category |-> "none", modifier |-> "garbage",
                      storage |-> {}]                         \* mutant
NewType == [category |-> "none", modifier |-> "none", storage |-> {}]

MergeRulesForDouble == {<<"long", "double", "longdouble">>}     \* mutant
MergeRules == {<<"long", "double", "longdouble">>,
               <<"long", "longdouble", "longlongdouble">>,
               <<"long", "int", "long">>,
               <<"longlong", "int", "longlong">>}
Merge(old, new) ==
  IF \E r \in MergeRules : r[1] = old /\ r[2] = new
  THEN (CHOOSE r \in MergeRules : r[1] = old /\ r[2] = new)[3]
  ELSE new

-----------------------------------------------------------------------------
(* What a step reads, what it asserts, and how it can die.                 *)

AttributePcs  == {"attributes", "attribute_list", "attribute_name",
                  "attribute_scoped", "attribute_args", "attribute_close"}
DeclaratorPcs == {"declarator", "direct_declarator", "function_declarator",
                  "function_paren", "function_params", "identifier",
                  "declarator_parsed", "close_paren", "declarator_failed"}
HaltedPcs == {"done", "aborted", "fault"}
PCs == AttributePcs \cup DeclaratorPcs \cup HaltedPcs
         \cup {"external", "specifiers", "function_body", "function_failed",
               "declaration", "dispatch"}
Halted == pc \in HaltedPcs

Eats   == {"attribute_close", "close_paren"}
Silent == {"declarator_parsed", "declarator_failed", "function_failed"}
Peeked == [p \in PCs |-> CASE p = "attributes"     -> "l_square"
                           [] p = "attribute_list" -> "r_square"
                           [] p = "attribute_name" -> "colon"
                           [] OTHER                -> Unmapped]

Reads ==
  CASE pc \in Silent \cup HaltedPcs -> {}
    [] pc \in Eats                  -> {idx + 1} \ {Size}
    [] pc = "direct_declarator"     -> Scanned
    [] OTHER -> {idx} \cup {i \in {idx + 1} : Current = Peeked[pc] /\ HasPeek(1)}

ReadsMapped == \A i \in Reads : Token(i) # Unmapped

(* eat_token throws from bad_expected_access at the end of the stream, in  *)
(* a noexcept function; every other failed assertion needs asserts.        *)
EatsTheEnd == pc \in Eats /\ idx + 1 = Size

CursorAsserted ==
  /\ pc = "attributes" /\ Doubled("l_square") => CanAdvance(2)
  /\ pc = "attribute_list" /\ Current = "id" => CanAdvance(1)
  /\ pc = "attribute_name" /\ Doubled("colon") => CanAdvance(2)
  /\ pc = "attribute_name" /\ Current = "l_paren" => CanAdvance(1)
  /\ pc = "attribute_scoped" /\ Current = "id" => CanAdvance(1)
  /\ pc = "attribute_close" => Token(idx + 1) = "r_square"
  /\ pc = "close_paren" => Token(idx + 1) = "r_paren"
  /\ pc = "declarator_failed" /\ nest > 0 => idx > 0

SpecifierAsserted ==
  pc = "specifiers" => /\ Current \notin Unsupported
                       /\ Current \in Modifiers => types[2].modifier = "none"

Dies == \/ EatsTheEnd
        \/ asserts /\ ~(CursorAsserted /\ SpecifierAsserted)

ReadPastStorage == /\ ~ReadsMapped
                   /\ pc' = "fault"
                   /\ UNCHANGED <<given, idx, hist, nest, names, decl, diags>>

Abort == /\ ~Halted /\ ReadsMapped /\ Dies
         /\ pc' = "aborted"
         /\ UNCHANGED <<given, idx, hist, nest, names, decl, diags>>

Step(p) == pc = p /\ ReadsMapped /\ ~Dies

-----------------------------------------------------------------------------
(* Changes to the parser's state that several functions make.              *)

Goto(p)  == pc' = p
Move(by) == idx' = idx + by   \* get_next_token() or advance_token_index()
PushIndex == hist' = Append(hist, idx)
PopWithoutRestore == /\ hist' = SubSeq(hist, 1, Len(hist) - 1)
                     /\ UNCHANGED idx                         \* mutant
PopIndex  == /\ idx' = hist[Len(hist)]
             /\ hist' = SubSeq(hist, 1, Len(hist) - 1)
LookupWithoutIncrement ==
  lookups' = Append(lookups, [at |-> idx, str |-> lastId]) /\ UNCHANGED lastId \* mutant
Lookup == /\ lookups' = Append(lookups, [at |-> idx, str |-> lastId])
          /\ lastId' = lastId + 1
UngetToken == Move(-1)
Report(d) == diags' = Append(diags, [id |-> d, at |-> idx])

-----------------------------------------------------------------------------
(* The attributes in front of a declaration: [[ a, b::c, d(...) ]]         *)

(* parse_external_declaration up to its first call; an empty stream ends   *)
(* the translation unit.                                                   *)
ExternalDeclaration ==
  /\ Step("external")
  /\ \/ Size = 0 /\ Goto("done") /\ UNCHANGED <<hist, types>>
     \/ Size > 0 /\ Goto("attributes") /\ PushIndex /\ types' = <<NewType>>
  /\ UNCHANGED <<given, idx, nest, names, attrs, funcspecs, diags>>

AttributeSpecifiers ==
  /\ Step("attributes")
  /\ \/ Doubled("l_square") /\ Move(2) /\ Goto("attribute_list") /\ UNCHANGED types
     \/ /\ ~Doubled("l_square")
        /\ types' = Append(types, NewType)
        /\ Goto("specifiers") /\ UNCHANGED idx
  /\ UNCHANGED <<given, hist, nest, names, attrs, funcspecs, diags>>

(* One iteration of the loop.  A comma, a single "]" and a token that      *)
(* cannot begin an attribute leave everything as it is.                    *)
AttributeList ==
  /\ Step("attribute_list")
  /\ \/ Current = "r_square" /\ (HasPeek(1) => Doubled("r_square"))
        /\ Goto("attribute_close") /\ UNCHANGED idx
     \/ Current = "r_square" /\ HasPeek(1) /\ ~Doubled("r_square")
        /\ UNCHANGED <<pc, idx>>
     \/ Current = "id" /\ Move(1) /\ Goto("attribute_name")
     \/ Current \notin {"r_square", "id"} /\ UNCHANGED <<pc, idx>>
  /\ UNCHANGED <<given, hist, nest, names, decl, diags>>

(* parse_attribute after a name: "::", arguments, or the end.              *)
AttributeName ==
  /\ Step("attribute_name")
  /\ \/ Doubled("colon") /\ Move(2) /\ Goto("attribute_scoped") /\ UNCHANGED attrs
     \/ Current = "l_paren" /\ Move(1) /\ Goto("attribute_args") /\ UNCHANGED attrs
     \/ /\ ~Doubled("colon") /\ Current # "l_paren"
        /\ attrs' = attrs + 1
        /\ Goto("attribute_list") /\ UNCHANGED idx
  /\ UNCHANGED <<given, hist, nest, names, types, funcspecs, diags>>

AttributeRestarted ==                                          \* mutant
  /\ Step("attribute_scoped")
  /\ \/ Current = "id" /\ Move(1) /\ Goto("attribute_name")
     \/ Current # "id" /\ Goto("attribute_list") /\ Move(-3)
  /\ UNCHANGED <<given, hist, nest, names, decl, diags>>
(* An attribute that fails after "::" is dropped where the cursor is.      *)
AttributeScopedName ==
  /\ Step("attribute_scoped")
  /\ \/ Current = "id" /\ Move(1) /\ Goto("attribute_name")
     \/ Current # "id" /\ Goto("attribute_list") /\ UNCHANGED idx
  /\ UNCHANGED <<given, hist, nest, names, decl, diags>>

(* consume_balanced_token_sequence tests for an unclosed delimiter before  *)
(* it has recorded one, so it consumes nothing and returns the "(" it      *)
(* started with as unclosed.                                               *)
AttributeArguments ==
  /\ Step("attribute_args")
  /\ Report("unbalanced_token_sequence")
  /\ attrs' = attrs + 1
  /\ Goto("attribute_list")
  /\ UNCHANGED <<given, idx, hist, nest, names, types, funcspecs>>

(* eat_token moves to the second "]" and leaves the cursor on it.          *)
AttributeClose ==
  /\ Step("attribute_close")
  /\ Move(1) /\ Goto("attributes")
  /\ UNCHANGED <<given, hist, nest, names, decl, diags>>

-----------------------------------------------------------------------------
(* Declaration specifiers, in any order and number.                        *)

StorageClassSpecifier ==
  /\ Current \in StorageClasses
  /\ types' = [types EXCEPT ![2].storage = @ \cup {Current}]
  /\ UNCHANGED funcspecs

TypeSpecifier ==
  /\ \/ Current \in PlainCategories
        /\ types' = [types EXCEPT ![2].category = Current]
     \/ Current \in MergedCategories
        /\ types' = [types EXCEPT ![2].category = Merge(@, Current)]
     \/ Current \in Modifiers
        /\ types' = [types EXCEPT ![2].modifier = Current]
  /\ UNCHANGED funcspecs

FunctionSpecifier ==
  /\ Current \in FunctionSpecs
  /\ funcspecs' = funcspecs \cup {Current}
  /\ UNCHANGED types

DeclarationSpecifiers ==
  /\ Step("specifiers")
  /\ \/ /\ StorageClassSpecifier \/ TypeSpecifier \/ FunctionSpecifier
        /\ Move(1) /\ UNCHANGED pc
     \/ /\ Current \notin Specifiers
        /\ Goto("declarator") /\ UNCHANGED <<idx, types, funcspecs>>
  /\ UNCHANGED <<given, hist, nest, names, attrs, diags>>

-----------------------------------------------------------------------------
(* Declarators.                                                            *)

SkipNothing  == Current = "asterisk" /\ UNCHANGED idx          \* mutant
SkipAsterisk == Current = "asterisk" /\ Move(1)

(* parse_declarator's call of parse_pointer, one "*" at a time.            *)
Pointer ==
  /\ Step("declarator")
  /\ \/ SkipAsterisk /\ UNCHANGED pc
     \/ Current # "asterisk" /\ Goto("direct_declarator") /\ UNCHANGED idx
  /\ UNCHANGED <<given, hist, nest, names, decl, diags>>

(* find_first_of walks over m_toks_index itself, but restores it.  A "("   *)
(* before the next "{" or ";" means "probably a function declarator".      *)
FindFirstOf ==
  /\ Step("direct_declarator")
  /\ \/ (\E i \in Scanned : Token(i) = "l_paren")
        /\ PushIndex /\ Goto("function_declarator")
     \/ (\A i \in Scanned : Token(i) # "l_paren")
        /\ Goto("identifier") /\ UNCHANGED hist
  /\ UNCHANGED <<given, idx, nest, names, decl, diags>>

(* parse_identifier: the name of an id comes from the next lexed_id, and   *)
(* "int" passes as a name.                                                 *)
Identifier ==
  /\ Move(1)
  /\ \/ Current = "id" /\ Lookup
     \/ Current = "int" /\ UNCHANGED names
NoIdentifier == Current \notin {"id", "int"}

FunctionDeclarator ==
  /\ Step("function_declarator")
  /\ \/ Identifier /\ Goto("function_paren") /\ UNCHANGED hist
     \/ NoIdentifier /\ PopIndex /\ Goto("identifier") /\ UNCHANGED names
  /\ UNCHANGED <<given, nest, decl, diags>>

FunctionParen ==
  /\ Step("function_paren")
  /\ \/ Current = "l_paren" /\ Move(1) /\ Goto("function_params") /\ UNCHANGED hist
     \/ Current # "l_paren" /\ PopIndex /\ Goto("identifier")
  /\ UNCHANGED <<given, nest, names, decl, diags>>

(* parse_parameter_type_list is a stub that fails, and the function        *)
(* declarator with it: the cursor goes back, m_last_identifier_string_index *)
(* does not.                                                               *)
FunctionParameters ==
  /\ Step("function_params")
  /\ PopIndex /\ Goto("identifier")
  /\ UNCHANGED <<given, nest, names, decl, diags>>

DirectDeclarator ==
  /\ Step("identifier")
  /\ \/ Identifier /\ Goto("declarator_parsed") /\ UNCHANGED nest
     \/ /\ NoIdentifier /\ Current = "l_paren"
        /\ Move(1) /\ nest' = nest + 1 /\ Goto("declarator")
        /\ UNCHANGED names
     \/ /\ NoIdentifier /\ Current # "l_paren"
        /\ Goto("declarator_failed") /\ UNCHANGED <<idx, nest, names>>
  /\ UNCHANGED <<given, hist, decl, diags>>

(* The end of parse_declarator: it moves over one token more.              *)
DeclaratorParsed ==
  /\ Step("declarator_parsed")
  /\ Move(1)
  /\ \/ nest > 0 /\ Goto("close_paren")
     \/ nest = 0 /\ Goto("function_body")
  /\ UNCHANGED <<given, hist, nest, names, decl, diags>>

(* eat_token reads the token after the cursor; then parse_array_declarator *)
(* fails, so a parenthesised declarator never succeeds.                    *)
CloseParen ==
  /\ Step("close_paren")
  /\ Move(1) /\ nest' = nest - 1 /\ Goto("declarator_failed")
  /\ UNCHANGED <<given, hist, names, decl, diags>>

DeclaratorFailed ==
  /\ Step("declarator_failed")
  /\ \/ nest > 0 /\ UngetToken /\ nest' = nest - 1 /\ UNCHANGED pc
     \/ nest = 0 /\ Goto("function_failed") /\ UNCHANGED <<idx, nest>>
  /\ UNCHANGED <<given, hist, names, decl, diags>>

-----------------------------------------------------------------------------
(* The rest of parse_external_declaration.                                 *)

FunctionBody ==
  /\ Step("function_body")
  /\ Goto("function_failed")
  /\ UNCHANGED <<given, idx, hist, nest, names, decl, diags>>

FunctionDefinitionFailed ==
  /\ Step("function_failed")
  /\ PopIndex /\ Goto("declaration")
  /\ UNCHANGED <<given, nest, names, decl, diags>>

(* push_token_index, the stub parse_declaration, pop_token_index.          *)
Declaration ==
  /\ Step("declaration")
  /\ Goto("dispatch")
  /\ UNCHANGED <<given, idx, hist, nest, names, decl, diags>>

(* Every case of the switch reports and returns false, which also ends     *)
(* parse_translation_unit.                                                 *)
Dispatch ==
  /\ Step("dispatch")
  /\ \/ Current \in Keywords /\ Report("unimplemented_keyword")
     \/ Current \notin Keywords /\ Report("unrecognized_token")
  /\ Goto("done")
  /\ UNCHANGED <<given, idx, hist, nest, names, decl>>

-----------------------------------------------------------------------------
Init ==
  /\ toks \in TokenStreams /\ slack \in Slacks /\ asserts \in Builds
  /\ pc = "external" /\ idx = 0 /\ hist = <<>> /\ nest = 0
  /\ lastId = 0 /\ lookups = <<>>
  /\ attrs = 0 /\ types = <<>> /\ funcspecs = {}
  /\ diags = <<>>

Next ==
  \/ ExternalDeclaration \/ AttributeSpecifiers \/ AttributeList
  \/ AttributeName \/ AttributeScopedName \/ AttributeArguments
  \/ AttributeClose \/ DeclarationSpecifiers \/ Pointer \/ FindFirstOf
  \/ FunctionDeclarator \/ FunctionParen \/ FunctionParameters
  \/ DirectDeclarator \/ DeclaratorParsed \/ CloseParen \/ DeclaratorFailed
  \/ FunctionBody \/ FunctionDefinitionFailed \/ Declaration \/ Dispatch
  \/ ReadPastStorage \/ Abort

Spec == Init /\ [][Next]_vars

(* parse() runs to completion on its caller's thread.                      *)
FairSpec == Spec /\ WF_vars(Next)
-----------------------------------------------------------------------------
(* Properties.                                                             *)

TypeRecords == [category : {"none", "longdouble", "longlongdouble", "longlong"}
                             \cup PlainCategories \cup MergedCategories,
                modifier : {"none"} \cup Modifiers,
                storage  : SUBSET StorageClasses]
Diagnostics == {"unbalanced_token_sequence", "unimplemented_keyword",
                "unrecognized_token"}

(* The state of the parser has its types; one or two entries of the type   *)
(* table exist as soon as a declaration is attempted.                      *)
TypeOK ==
  /\ toks \in Seq(TokenIds) /\ slack \in Seq(TokenIds) /\ asserts \in BOOLEAN
  /\ pc \in PCs
  /\ idx \in Nat /\ hist \in Seq(Nat) /\ nest \in Nat
  /\ lastId \in Nat /\ lookups \in Seq([at : Nat, str : Nat])
  /\ attrs \in Nat
  /\ types \in Seq(TypeRecords) /\ Len(types) <= 2
  /\ funcspecs \in SUBSET FunctionSpecs
  /\ diags \in Seq([id : Diagnostics, at : Nat])

(* The two saved cursors of m_token_history_stack (parse.cpp:115-122) are   *)
(* popped by whoever pushed them: inside parse_function_declarator there   *)
(* are two, the second one on the name it started from, elsewhere one; and *)
(* when the function definition has failed the cursor is back on the first *)
(* token, however far the attempt had walked.                              *)
FunctionPcs == {"function_declarator", "function_paren", "function_params"}
HistoryLength ==
  IF pc \in {"external", "declaration", "dispatch"} THEN 0
  ELSE IF pc \in FunctionPcs THEN 2 ELSE 1
BacktrackingRestoresCursor ==
  /\ ~Halted => Len(hist) = HistoryLength
  /\ ~Halted /\ Len(hist) >= 1 => hist[1] = 0
  /\ pc = "function_declarator" => hist[2] = idx
  /\ pc = "function_paren" => hist[2] = idx - 1
  /\ pc = "function_params" => hist[2] = idx - 2
  /\ pc \in {"declaration", "dispatch", "done"} => idx = 0 /\ hist = <<>>

(* No function checks m_toks_index before current_token (parse.cpp:67), and *)
(* peek_token, find_first_of and the extra get_next_token of               *)
(* parse_declarator all look ahead.  A stream that ends in ";" and a       *)
(* newline keeps every read, in either build, inside the vector.           *)
EndsInSemicolonNewline == /\ Size >= 2
                          /\ Token(Size - 2) = "semicolon"
                          /\ Token(Size - 1) = "newline"
NoReadPastEnd == EndsInSemicolonNewline => \A i \in Reads : i < Size

(* The cursor leaves the stream at neither end.  With assertions, that of *)
(* the attribute parser stays on a token, whatever the stream, since       *)
(* advance_token_index and eat_token stop it; unget_token (parse.cpp:102)  *)
(* unwinds one token per open parenthesis, and never wraps below the first *)
(* token, in the build where nothing checks it either.                     *)
AttributeCursorInBounds == asserts /\ pc \in AttributePcs => idx < Size
UngetNeverUnderflows == pc \in DeclaratorPcs => nest <= idx
CursorInBounds == AttributeCursorInBounds /\ UngetNeverUnderflows

(* However many declarators are tried, only one identifier is ever looked  *)
(* up, at most twice, and each time under the next index of lexed_ids.     *)
OneNameLookedUp == /\ Len(lookups) <= 2
                   /\ \A k \in 1..Len(lookups) : /\ lookups[k].str = k - 1
                                                 /\ lookups[k].at = lookups[1].at
                   /\ lastId = Len(lookups)

(* parse_translation_unit handles at most one external declaration: a      *)
(* non-empty stream is always rejected, by exactly one diagnostic about    *)
(* its very first token, which is the last one reported; the diagnostics   *)
(* before it are one per parenthesised attribute.                          *)
RejectedAtFirstToken ==
  pc = "done" /\ Size > 0 =>
    /\ diags # <<>>
    /\ diags[Len(diags)] = [id |-> IF toks[1] \in Keywords
                                   THEN "unimplemented_keyword"
                                   ELSE "unrecognized_token",
                            at |-> 0]
    /\ \A k \in 1..(Len(diags) - 1) : diags[k].id = "unbalanced_token_sequence"
    /\ Len(diags) - 1 <= attrs

(* What a parse of tokens that end in ";" and a newline can die of: of a   *)
(* "(" that is not behind an identifier, since eat_token (parse.cpp:108)   *)
(* does not find its ")" or throws at the end; with assertions also of a   *)
(* second signed or unsigned (parse.cpp:428) and of an unsupported keyword *)
(* (parse.cpp:471).                                                        *)
Numbered(S) == {i \in 0..(Size - 1) : Token(i) \in S}
DeathsExplained ==
  /\ pc = "fault" => ~EndsInSemicolonNewline
  /\ pc = "aborted" /\ EndsInSemicolonNewline =>
       \/ \E i \in Numbered({"l_paren"}) : i - 1 \notin Numbered({"id"})
       \/ asserts /\ Numbered(Unsupported) # {}
       \/ asserts /\ \E i, j \in Numbered(Modifiers) : i # j

(* What merge_type_categories (parse.cpp:407-425) leaves of the category   *)
(* keywords read so far, said without it: trailing "int"s aside, the last  *)
(* one, where long swallows the "int"s after it and "long double" is one   *)
(* category only while nothing but "int" stands between the two words.     *)
CategoryWords == {i \in 0..(idx - 1) :
                    Token(i) \in PlainCategories \cup MergedCategories}
LastWord(S) == CHOOSE i \in S : \A j \in S : j <= i
WordBefore(i) == \* the last word before i that is not an "int"
  LET S == {j \in CategoryWords : j < i /\ Token(j) # "int"}
  IN IF S = {} THEN "none" ELSE Token(LastWord(S))
CategoryAfter(S) ==
  IF S = {} THEN "none"
  ELSE LET last == LastWord(S) IN
       CASE Token(last) = "int" /\ WordBefore(last) = "long" -> "long"
         [] Token(last) = "double" /\ WordBefore(last) = "long" -> "longdouble"
         [] OTHER -> Token(last)
MergedCategory ==
  pc = "specifiers" => types[2].category = CategoryAfter(CategoryWords)

(* parse() does what ParseOutcome promises its callers, in every order of  *)
(* attributes, declarators and failed attempts (parse.cpp:741-806).        *)
OutcomeState == CASE pc = "done"              -> IF Size = 0 THEN "empty" ELSE "rejected"
                  [] pc \in {"aborted", "fault"} -> "dead"
                  [] OTHER                    -> "running"
ReportedIds == [k \in DOMAIN diags |-> diags[k].id]
NamesAsked  == [k \in DOMAIN lookups |-> lookups[k].str]
Outcome == INSTANCE ParseOutcome WITH
             state <- OutcomeState, diags <- ReportedIds, lookups <- NamesAsked
ImplementsOutcome == Outcome!Spec

(* An upper bound of the steps a parse has left, which every step lowers:  *)
(* no attribute, specifier or declarator is tried twice from one token,    *)
(* but in parse_function_declarator, and what has failed stays failed      *)
(* (parse.cpp:308, 633, 671, 741).  An iteration of the attribute loop     *)
(* that changes nothing is no step here.                                   *)
Far == Limit + 3
TriedFrom == IF pc \in FunctionPcs THEN hist[2] ELSE idx
Tries == <<"identifier", "function_params", "function_paren",
           "function_declarator", "direct_declarator", "declarator">>
LeftToTry  == CHOOSE n \in 1..6 : Tries[n] = pc
LeftToSkip == CASE pc = "attribute_close" -> 1 [] pc = "attribute_list" -> 2 [] OTHER -> 3
Left ==
  CASE pc \in HaltedPcs -> 0
    [] pc = "dispatch" -> 1 [] pc = "declaration" -> 2 [] pc = "function_failed" -> 3
    [] pc \in {"function_body", "declarator_failed"} -> 4 + nest
    [] pc = "close_paren" -> 5 + nest
    [] pc = "declarator_parsed" -> 6 + nest
    [] pc = "specifiers" -> 9 * Far - idx
    [] pc \in AttributePcs -> 10 * Far + 3 * (Far - idx) + LeftToSkip
    [] pc = "external" -> 20 * Far
    [] OTHER -> Far + 6 * (Far - TriedFrom) + LeftToTry
EachStepGetsOn == [][Left' < Left /\ {Left, Left'} \subseteq Nat]_vars

(* Under a fair scheduler a parse ends, or it is stuck for ever in         *)
(* parse_attribute_list (parse.cpp:308) on one token that cannot begin an  *)
(* attribute; no other loop of the parser, and no nesting of declarators,  *)
(* runs for ever.                                                          *)
HangsOnlyInAttributeList ==
  <>Halted \/ <>[](pc = "attribute_list" /\ Current # "id")

-----------------------------------------------------------------------------
(* Statements of comments in parse.cpp.                                    *)

(* parse.cpp:53: the index "allows us to get a handle to the string        *)
(* representation of an id": the lexeme looked up for an identifier is     *)
(* the one lex() stored for that token.                                    *)
IdsBefore(i) == Cardinality({j \in 0..(i - 1) : Token(j) = "id"})
NamesMatchTokens == \A k \in 1..Len(lookups) :
                      lookups[k].at < Size => lookups[k].str = IdsBefore(lookups[k].at)

(* parse.cpp:312: after a comma "we COULD get another attribute; just loop *)
(* around": the loop gets past a comma.                                    *)
CommaSeparatesAttributes ==
  (pc = "attribute_list" /\ Current = "comma")
    ~> (pc # "attribute_list" \/ Current # "comma")
=============================================================================
