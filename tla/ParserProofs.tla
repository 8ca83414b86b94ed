---------------------------- MODULE ParserProofs ----------------------------
(***************************************************************************)
(* What holds of Parser for every set of token streams, whatever the       *)
(* storage past them contains, in either build.                            *)
(***************************************************************************)
EXTENDS Parser, MinTheorems, SequenceTheorems

LEMMA StepIsHere == ASSUME NEW p, Step(p) PROVE pc = p /\ ReadsMapped /\ ~Dies
BY DEF Step

-----------------------------------------------------------------------------
(* The control state: which function runs, how long the history stack is   *)
(* there and what it holds, and how deep the parentheses nest.             *)

Control ==
  /\ pc \in PCs /\ idx \in Nat /\ nest \in Nat /\ hist \in Seq(Nat)
  /\ ~Halted => Len(hist) = HistoryLength
  /\ ~Halted /\ Len(hist) >= 1 => hist[1] = 0
  /\ pc = "function_declarator" => hist[2] = idx
  /\ pc = "function_paren" => hist[2] = idx - 1
  /\ pc = "function_params" => hist[2] = idx - 2
  /\ pc \in {"external", "declaration", "dispatch", "done"}
       => idx = 0 /\ Len(hist) = 0
  /\ pc \in DeclaratorPcs => nest <= idx
  /\ pc \in FunctionPcs => nest <= hist[2]
  /\ pc = "close_paren" => nest > 0
  /\ pc \notin DeclaratorPcs \cup HaltedPcs => nest = 0

LEMMA Pushed ==
  ASSUME NEW s \in Seq(Nat), NEW k \in Nat
  PROVE  /\ Append(s, k) \in Seq(Nat)
         /\ Len(Append(s, k)) = Len(s) + 1
         /\ Append(s, k)[Len(s) + 1] = k
         /\ \A i \in 1..Len(s) : Append(s, k)[i] = s[i]
OBVIOUS

LEMMA Popped ==
  ASSUME NEW s \in Seq(Nat), Len(s) >= 1
  PROVE  /\ SubSeq(s, 1, Len(s) - 1) \in Seq(Nat)
         /\ Len(SubSeq(s, 1, Len(s) - 1)) = Len(s) - 1
         /\ s[Len(s)] \in Nat
         /\ \A i \in 1..(Len(s) - 1) : SubSeq(s, 1, Len(s) - 1)[i] = s[i]
<1> DEFINE n == Len(s) - 1
<1>1. n \in Nat /\ \A i \in 1..n : s[i] \in Nat
  OBVIOUS
<1>2. s[Len(s)] \in Nat
  OBVIOUS
<1> HIDE DEF n
<1>3. SubSeq(s, 1, n) \in Seq(Nat) /\ Len(SubSeq(s, 1, n)) = n
  BY <1>1, SubSeqProperties
<1>4. \A i \in 1..n : SubSeq(s, 1, n)[i] = s[i]
  BY <1>1
<1> QED BY <1>2, <1>3, <1>4 DEF n

LEMMA HistoryHere ==
  ASSUME Control, ~Halted
  PROVE  /\ hist \in Seq(Nat) /\ idx \in Nat /\ Len(hist) = HistoryLength
         /\ Len(hist) >= 1 => hist[1] = 0
BY DEF Control

(* parse_external_declaration saves the first token ...                    *)
LEMMA PushFirst ==
  ASSUME Control, pc = "external", PushIndex
  PROVE  hist' \in Seq(Nat) /\ Len(hist') = 1 /\ hist'[1] = 0
<1>1. idx = 0 /\ hist \in Seq(Nat) /\ Len(hist) = 0
  BY DEF Control
<1> QED BY <1>1, Pushed DEF PushIndex

(* ... and gets it back.                                                   *)
LEMMA PopFirst ==
  ASSUME Control, pc = "function_failed", PopIndex
  PROVE  hist' \in Seq(Nat) /\ Len(hist') = 0 /\ idx' = 0
<1>1. ~Halted /\ HistoryLength = 1
  BY DEF Halted, HaltedPcs, HistoryLength, FunctionPcs
<1>2. hist \in Seq(Nat) /\ Len(hist) = 1 /\ hist[1] = 0
  BY <1>1, HistoryHere
<1> QED BY <1>2, Popped DEF PopIndex

(* parse_function_declarator saves the token it starts from ...            *)
LEMMA PushName ==
  ASSUME Control, pc = "direct_declarator", PushIndex
  PROVE  hist' \in Seq(Nat) /\ Len(hist') = 2 /\ hist'[1] = 0 /\ hist'[2] = idx
<1>1. ~Halted /\ HistoryLength = 1
  BY DEF Halted, HaltedPcs, HistoryLength, FunctionPcs
<1>2. idx \in Nat /\ hist \in Seq(Nat) /\ Len(hist) = 1 /\ hist[1] = 0
  BY <1>1, HistoryHere
<1>3. hist' = Append(hist, idx)
  BY DEF PushIndex
<1>4. hist' \in Seq(Nat) /\ Len(hist') = 2 /\ hist'[2] = idx
  <2>1. /\ hist' \in Seq(Nat) /\ Len(hist') = Len(hist) + 1
        /\ hist'[Len(hist) + 1] = idx
    BY <1>2, <1>3, Pushed
  <2>2. Len(hist) + 1 = 2
    BY <1>2
  <2> QED BY <2>1, <2>2, Zenon
<1>5. hist'[1] = hist[1]
  BY <1>2, <1>3
<1> QED BY <1>2, <1>4, <1>5

LEMMA SecondSaved == ASSUME NEW s \in Seq(Nat), Len(s) = 2 PROVE s[2] \in Nat
<1>1. 2 \in 1..Len(s)
  OBVIOUS
<1> QED BY <1>1, ElementOfSeq

(* ... and gets it back.                                                   *)
LEMMA PopName ==
  ASSUME Control, pc \in FunctionPcs, PopIndex
  PROVE  /\ hist' \in Seq(Nat) /\ Len(hist') = 1 /\ hist'[1] = 0
         /\ idx' = hist[2] /\ idx' \in Nat /\ nest <= idx' /\ idx' <= idx
<1>1. ~Halted /\ HistoryLength = 2
  BY DEF Halted, HaltedPcs, HistoryLength, FunctionPcs
<1>2. hist \in Seq(Nat) /\ Len(hist) = 2 /\ hist[1] = 0
  <2>1. hist \in Seq(Nat) /\ Len(hist) = 2
    BY <1>1, HistoryHere
  <2>2. Len(hist) >= 1
    BY <2>1
  <2> QED BY <1>1, <2>1, <2>2, HistoryHere
<1>3. nest <= hist[2] /\ hist[2] <= idx
  BY DEF Control, FunctionPcs
<1>4. idx' = hist[2] /\ hist' = SubSeq(hist, 1, Len(hist) - 1)
  BY <1>2 DEF PopIndex
<1>5. hist[2] \in Nat
  BY <1>2, SecondSaved
<1>6. hist' \in Seq(Nat) /\ Len(hist') = 1 /\ hist'[1] = hist[1]
  BY <1>2, <1>4, Popped
<1> QED BY <1>2, <1>3, <1>4, <1>5, <1>6

(* What parse() starts from, on any tokens.                                *)
Start ==
  /\ toks \in Seq(TokenIds) /\ slack \in Seq(TokenIds) /\ asserts \in BOOLEAN
  /\ pc = "external" /\ idx = 0 /\ hist = <<>> /\ nest = 0
  /\ lastId = 0 /\ lookups = <<>>
  /\ attrs = 0 /\ types = <<>> /\ funcspecs = {} /\ diags = <<>>

LEMMA ControlInit == ASSUME Start PROVE Control
BY DEF Start, Control, Halted, HistoryLength, PCs, AttributePcs,
   DeclaratorPcs, HaltedPcs, FunctionPcs

LEMMA ControlStep == ASSUME Control, [Next]_vars PROVE Control'
<1> USE DEF Control, Halted, HistoryLength, PCs, AttributePcs,
           DeclaratorPcs, HaltedPcs, FunctionPcs
<1>1. CASE ExternalDeclaration
  BY <1>1, StepIsHere, PushFirst DEF ExternalDeclaration, Goto
<1>2. CASE AttributeSpecifiers
  BY <1>2, StepIsHere DEF AttributeSpecifiers, Goto, Move
<1>3. CASE AttributeList
  BY <1>3, StepIsHere DEF AttributeList, Goto, Move
<1>4. CASE AttributeName
  BY <1>4, StepIsHere DEF AttributeName, Goto, Move
<1>5. CASE AttributeScopedName
  BY <1>5, StepIsHere DEF AttributeScopedName, Goto, Move
<1>6. CASE AttributeArguments
  BY <1>6, StepIsHere DEF AttributeArguments, Goto
<1>7. CASE AttributeClose
  BY <1>7, StepIsHere DEF AttributeClose, Goto, Move
<1>8. CASE DeclarationSpecifiers
  BY <1>8, StepIsHere DEF DeclarationSpecifiers, Goto, Move
<1>9. CASE Pointer
  BY <1>9, StepIsHere DEF Pointer, Goto, SkipAsterisk, Move
<1>10. CASE FindFirstOf
  BY <1>10, StepIsHere, PushName DEF FindFirstOf, Goto
<1>11. CASE FunctionDeclarator
  BY <1>11, StepIsHere, PopName DEF FunctionDeclarator, Goto, Identifier, Move
<1>12. CASE FunctionParen
  BY <1>12, StepIsHere, PopName DEF FunctionParen, Goto, Move
<1>13. CASE FunctionParameters
  BY <1>13, StepIsHere, PopName DEF FunctionParameters, Goto
<1>14. CASE DirectDeclarator
  BY <1>14, StepIsHere DEF DirectDeclarator, Goto, Move, Identifier
<1>15. CASE DeclaratorParsed
  BY <1>15, StepIsHere DEF DeclaratorParsed, Goto, Move
<1>16. CASE CloseParen
  BY <1>16, StepIsHere DEF CloseParen, Goto, Move
<1>17. CASE DeclaratorFailed
  BY <1>17, StepIsHere DEF DeclaratorFailed, Goto, UngetToken, Move
<1>18. CASE FunctionBody
  BY <1>18, StepIsHere DEF FunctionBody, Goto
<1>19. CASE FunctionDefinitionFailed
  BY <1>19, StepIsHere, PopFirst DEF FunctionDefinitionFailed, Goto
<1>20. CASE Declaration
  BY <1>20, StepIsHere DEF Declaration, Goto
<1>21. CASE Dispatch
  BY <1>21, StepIsHere DEF Dispatch, Goto
<1>22. CASE ReadPastStorage
  BY <1>22 DEF ReadPastStorage, Reads, ReadsMapped
<1>23. CASE Abort
  BY <1>23 DEF Abort
<1>24. CASE UNCHANGED vars
  BY <1>24 DEF vars
<1> QED BY <1>1, <1>2, <1>3, <1>4, <1>5, <1>6, <1>7, <1>8, <1>9, <1>10, <1>11, <1>12, <1>13, <1>14, <1>15, <1>16, <1>17, <1>18, <1>19, <1>20, <1>21, <1>22, <1>23, <1>24 DEF Next

-----------------------------------------------------------------------------
(* The data: every variable has its type, and the declaration's two types  *)
(* exist from the moment the functions that use them can run.              *)

Data ==
  /\ toks \in Seq(TokenIds) /\ slack \in Seq(TokenIds) /\ asserts \in BOOLEAN
  /\ lastId \in Nat /\ lookups \in Seq([at : Nat, str : Nat])
  /\ attrs \in Nat
  /\ types \in Seq(TypeRecords)
  /\ funcspecs \in SUBSET FunctionSpecs
  /\ diags \in Seq([id : Diagnostics, at : Nat])

TypesAllocated ==
  /\ Len(types) <= 2
  /\ pc = "external" => Len(types) = 0
  /\ pc \in AttributePcs => Len(types) = 1
  /\ pc = "specifiers" => Len(types) = 2

LEMMA MergeIsCategory ==
  ASSUME NEW old, NEW new \in MergedCategories
  PROVE  Merge(old, new) \in {"longdouble", "longlongdouble", "longlong"} \cup MergedCategories
<1>1. CASE \E r \in MergeRules : r[1] = old /\ r[2] = new
  <2>1. PICK r \in MergeRules : Merge(old, new) = r[3]
    BY <1>1 DEF Merge
  <2> QED BY <2>1 DEF MergeRules, MergedCategories
<1>2. CASE ~\E r \in MergeRules : r[1] = old /\ r[2] = new
  BY <1>2 DEF Merge
<1> QED BY <1>1, <1>2

LEMMA Updated ==
  ASSUME NEW S, NEW s \in Seq(S), NEW i \in 1..Len(s), NEW e \in S
  PROVE  [s EXCEPT ![i] = e] \in Seq(S) /\ Len([s EXCEPT ![i] = e]) = Len(s)
OBVIOUS

LEMMA Appended ==
  ASSUME NEW S, NEW s \in Seq(S), NEW e \in S
  PROVE  Append(s, e) \in Seq(S) /\ Len(Append(s, e)) = Len(s) + 1
OBVIOUS

LEMMA NewTypeIsType == NewType \in TypeRecords
BY DEF NewType, TypeRecords

LEMMA FirstType == <<NewType>> \in Seq(TypeRecords) /\ Len(<<NewType>>) = 1
BY NewTypeIsType

LEMMA SecondType ==
  ASSUME types \in Seq(TypeRecords), Len(types) = 1, types' = Append(types, NewType)
  PROVE  types' \in Seq(TypeRecords) /\ Len(types') = 2
<1>1. types' \in Seq(TypeRecords) /\ Len(types') = Len(types) + 1
  BY NewTypeIsType, Appended
<1>2. Len(types) + 1 = 2
  OBVIOUS
<1> QED BY <1>1, <1>2, Zenon

LEMMA LookedUp ==
  ASSUME Data, idx \in Nat, Lookup
  PROVE  lookups' \in Seq([at : Nat, str : Nat]) /\ lastId' \in Nat
<1>1. [at |-> idx, str |-> lastId] \in [at : Nat, str : Nat]
  BY DEF Data
<1> QED BY <1>1, Appended DEF Data, Lookup

LEMMA Reported ==
  ASSUME Data, idx \in Nat, NEW d \in Diagnostics, Report(d)
  PROVE  /\ diags' \in Seq([id : Diagnostics, at : Nat])
         /\ Len(diags') = Len(diags) + 1
<1>1. [id |-> d, at |-> idx] \in [id : Diagnostics, at : Nat]
  OBVIOUS
<1> QED BY <1>1, Appended DEF Data, Report

(* A specifier keeps the second type record a type record.                 *)
LEMMA SpecifierTypes ==
  ASSUME types \in Seq(TypeRecords), Len(types) = 2,
         StorageClassSpecifier \/ TypeSpecifier \/ FunctionSpecifier
  PROVE  types' \in Seq(TypeRecords) /\ Len(types') = 2
<1> DEFINE Changed(r) == types' = [types EXCEPT ![2] = r]
<1>1. types[2] \in TypeRecords
  OBVIOUS
<1>2. ASSUME NEW r \in TypeRecords, Changed(r)
      PROVE  types' \in Seq(TypeRecords) /\ Len(types') = 2
  <2>1. 2 \in 1..Len(types)
    OBVIOUS
  <2> QED BY <1>2, <2>1, Updated
<1> HIDE DEF Changed
<1>3. CASE StorageClassSpecifier
  <2> DEFINE r == [types[2] EXCEPT !.storage = @ \cup {Current}]
  <2>1. r \in TypeRecords
    BY <1>1, <1>3 DEF StorageClassSpecifier, TypeRecords
  <2>2. Changed(r)
    BY <1>3 DEF StorageClassSpecifier, Changed
  <2> QED BY <1>2, <2>1, <2>2
<1>4. CASE TypeSpecifier /\ Current \in PlainCategories
  <2> DEFINE r == [types[2] EXCEPT !.category = Current]
  <2>1. r \in TypeRecords
    BY <1>1, <1>4 DEF TypeRecords
  <2>2. Changed(r)
    BY <1>4 DEF TypeSpecifier, Changed, PlainCategories, MergedCategories, Modifiers
  <2> QED BY <1>2, <2>1, <2>2
<1>5. CASE TypeSpecifier /\ Current \in MergedCategories
  <2> DEFINE r == [types[2] EXCEPT !.category = Merge(@, Current)]
  <2>1. r \in TypeRecords
    BY <1>1, <1>5, MergeIsCategory DEF TypeRecords
  <2>2. Changed(r)
    BY <1>5 DEF TypeSpecifier, Changed, PlainCategories, MergedCategories, Modifiers
  <2> QED BY <1>2, <2>1, <2>2
<1>6. CASE TypeSpecifier /\ Current \in Modifiers
  <2> DEFINE r == [types[2] EXCEPT !.modifier = Current]
  <2>1. r \in TypeRecords
    BY <1>1, <1>6 DEF TypeRecords
  <2>2. Changed(r)
    BY <1>6 DEF TypeSpecifier, Changed, PlainCategories, MergedCategories, Modifiers
  <2> QED BY <1>2, <2>1, <2>2
<1>7. CASE FunctionSpecifier
  BY <1>7 DEF FunctionSpecifier
<1> QED BY <1>3, <1>4, <1>5, <1>6, <1>7 DEF TypeSpecifier

LEMMA DataInit == ASSUME Start PROVE Data /\ TypesAllocated
BY DEF Start, Data, TypesAllocated, AttributePcs

LEMMA DataStep ==
  ASSUME Control, Data, TypesAllocated, [Next]_vars
  PROVE  Data' /\ TypesAllocated'
<1>0. idx \in Nat
  BY DEF Control
<1> USE DEF Data, TypesAllocated, AttributePcs, given, names, decl
<1>1. CASE ExternalDeclaration
  <2>1. CASE types' = <<NewType>> /\ pc' = "attributes"
    <3>1. types' \in Seq(TypeRecords) /\ Len(types') = 1
      BY <2>1, FirstType
    <3> QED BY <1>1, <2>1, <3>1 DEF ExternalDeclaration
  <2>2. CASE types' = types /\ pc' = "done"
    BY <1>1, <2>2 DEF ExternalDeclaration
  <2> QED BY <1>1, <2>1, <2>2 DEF ExternalDeclaration, Goto
<1>2. CASE AttributeSpecifiers
  <2>0. Len(types) = 1
    BY <1>2, StepIsHere DEF AttributeSpecifiers
  <2>1. CASE types' = Append(types, NewType) /\ pc' = "specifiers"
    <3>1. types' \in Seq(TypeRecords) /\ Len(types') = 2
      BY <2>0, <2>1, SecondType
    <3> QED BY <1>2, <2>1, <3>1 DEF AttributeSpecifiers
  <2>2. CASE types' = types /\ pc' = "attribute_list"
    BY <1>2, <2>0, <2>2 DEF AttributeSpecifiers
  <2> QED BY <1>2, <2>1, <2>2 DEF AttributeSpecifiers, Goto
<1>3. CASE AttributeList
  BY <1>3, StepIsHere DEF AttributeList, Goto
<1>4. CASE AttributeName
  BY <1>4, StepIsHere DEF AttributeName, Goto
<1>5. CASE AttributeScopedName
  BY <1>5, StepIsHere DEF AttributeScopedName, Goto
<1>6. CASE AttributeArguments
  BY <1>6, StepIsHere, <1>0, Reported DEF AttributeArguments, Goto, Diagnostics
<1>7. CASE AttributeClose
  BY <1>7, StepIsHere DEF AttributeClose, Goto
<1>8. CASE DeclarationSpecifiers
  BY <1>8, StepIsHere, SpecifierTypes DEF DeclarationSpecifiers, Goto, StorageClassSpecifier, TypeSpecifier, FunctionSpecifier
<1>9. CASE Pointer
  BY <1>9, StepIsHere DEF Pointer, Goto
<1>10. CASE FindFirstOf
  BY <1>10, StepIsHere DEF FindFirstOf, Goto
<1>11. CASE FunctionDeclarator
  BY <1>11, StepIsHere, <1>0, LookedUp DEF FunctionDeclarator, Goto, Identifier
<1>12. CASE FunctionParen
  BY <1>12, StepIsHere DEF FunctionParen, Goto
<1>13. CASE FunctionParameters
  BY <1>13, StepIsHere DEF FunctionParameters, Goto
<1>14. CASE DirectDeclarator
  BY <1>14, StepIsHere, <1>0, LookedUp DEF DirectDeclarator, Goto, Identifier
<1>15. CASE DeclaratorParsed
  BY <1>15, StepIsHere DEF DeclaratorParsed, Goto
<1>16. CASE CloseParen
  BY <1>16, StepIsHere DEF CloseParen, Goto
<1>17. CASE DeclaratorFailed
  BY <1>17, StepIsHere DEF DeclaratorFailed, Goto
<1>18. CASE FunctionBody
  BY <1>18, StepIsHere DEF FunctionBody, Goto
<1>19. CASE FunctionDefinitionFailed
  BY <1>19, StepIsHere DEF FunctionDefinitionFailed, Goto
<1>20. CASE Declaration
  BY <1>20, StepIsHere DEF Declaration, Goto
<1>21. CASE Dispatch
  BY <1>21, StepIsHere, <1>0, Reported DEF Dispatch, Goto, Diagnostics
<1>22. CASE ReadPastStorage
  BY <1>22 DEF ReadPastStorage, HaltedPcs
<1>23. CASE Abort
  BY <1>23 DEF Abort
<1>24. CASE UNCHANGED vars
  BY <1>24 DEF vars
<1> QED BY <1>1, <1>2, <1>3, <1>4, <1>5, <1>6, <1>7, <1>8, <1>9, <1>10, <1>11, <1>12, <1>13, <1>14, <1>15, <1>16, <1>17, <1>18, <1>19, <1>20, <1>21, <1>22, <1>23, <1>24 DEF Next

-----------------------------------------------------------------------------
(* Reads stay inside a stream that ends in ";" and a newline.  No function *)
(* steps over the ";": it is none of the tokens they consume, it stops     *)
(* find_first_of, and the one blind step, at the end of parse_declarator,  *)
(* starts from it at the latest.                                           *)

BeforeSemicolon ==
  {"external", "attributes", "attribute_list", "attribute_name",
   "attribute_scoped", "attribute_args", "specifiers", "declarator",
   "direct_declarator", "function_declarator", "function_paren",
   "function_params", "identifier", "declarator_parsed", "declaration",
   "dispatch"}
CursorBound ==
  EndsInSemicolonNewline =>
    /\ pc \in BeforeSemicolon => idx <= Size - 2
    /\ pc = "attribute_close" => idx <= Size - 3
    /\ pc \in {"close_paren", "declarator_failed", "function_body"} => idx <= Size - 1

LEMMA GivenFixed == ASSUME [Next]_vars
                    PROVE  toks' = toks /\ slack' = slack /\ asserts' = asserts
BY DEF Next, vars, given, ExternalDeclaration, AttributeSpecifiers, AttributeList,
   AttributeName, AttributeScopedName, AttributeArguments, AttributeClose,
   DeclarationSpecifiers, Pointer, FindFirstOf, FunctionDeclarator, FunctionParen,
   FunctionParameters, DirectDeclarator, DeclaratorParsed, CloseParen,
   DeclaratorFailed, FunctionBody, FunctionDefinitionFailed, Declaration, Dispatch,
   ReadPastStorage, Abort

LEMMA SameStream ==
  ASSUME [Next]_vars
  PROVE  Size' = Size /\ (EndsInSemicolonNewline' <=> EndsInSemicolonNewline)
BY GivenFixed DEF Size, EndsInSemicolonNewline, Token, Limit

LEMMA SizeIsNat == ASSUME Data PROVE Size \in Nat
BY DEF Data, Size

LEMMA NotOnSemicolon ==
  ASSUME Control, Data, EndsInSemicolonNewline, idx <= Size - 2, Current # "semicolon"
  PROVE  idx <= Size - 3
<1>1. idx # Size - 2
  BY DEF Current, EndsInSemicolonNewline
<1> QED BY <1>1, SizeIsNat DEF Control

LEMMA DoubledBefore ==
  ASSUME Control, Data, EndsInSemicolonNewline, idx <= Size - 2,
         NEW t \in {"l_square", "r_square", "colon"}, Doubled(t)
  PROVE  idx <= Size - 4
<1>1. idx <= Size - 3
  BY NotOnSemicolon DEF Doubled
<1>2. idx + 1 # Size - 2
  BY DEF Doubled, EndsInSemicolonNewline
<1> QED BY <1>1, <1>2, SizeIsNat DEF Control

LEMMA CursorBoundInit == ASSUME Start PROVE CursorBound
<1>1. Size \in Nat
  BY DataInit, SizeIsNat
<1> QED BY <1>1 DEF Start, CursorBound, BeforeSemicolon, EndsInSemicolonNewline

LEMMA CursorBoundStep ==
  ASSUME Control, Data, CursorBound, [Next]_vars
  PROVE  CursorBound'
<1> USE DEF CursorBound, BeforeSemicolon
<1> SUFFICES ASSUME EndsInSemicolonNewline PROVE CursorBound'
  BY SameStream
<1>0. Size' = Size /\ Size \in Nat /\ idx \in Nat /\ Control' /\ Size >= 2
  BY SameStream, SizeIsNat, ControlStep DEF Control, EndsInSemicolonNewline
<1>1. CASE ExternalDeclaration
  BY <1>1, <1>0, StepIsHere DEF ExternalDeclaration, Goto
<1>2. CASE AttributeSpecifiers
  BY <1>2, <1>0, StepIsHere, DoubledBefore DEF AttributeSpecifiers, Goto, Move
<1>3. CASE AttributeList
  BY <1>3, <1>0, StepIsHere, NotOnSemicolon, DoubledBefore DEF AttributeList, Goto, Move
<1>4. CASE AttributeName
  BY <1>4, <1>0, StepIsHere, NotOnSemicolon, DoubledBefore DEF AttributeName, Goto, Move
<1>5. CASE AttributeScopedName
  BY <1>5, <1>0, StepIsHere, NotOnSemicolon DEF AttributeScopedName, Goto, Move
<1>6. CASE AttributeArguments
  BY <1>6, <1>0, StepIsHere DEF AttributeArguments, Goto
<1>7. CASE AttributeClose
  BY <1>7, <1>0, StepIsHere DEF AttributeClose, Goto, Move
<1>8. CASE DeclarationSpecifiers
  BY <1>8, <1>0, StepIsHere, NotOnSemicolon DEF DeclarationSpecifiers, Goto, Move, StorageClassSpecifier, TypeSpecifier, FunctionSpecifier, StorageClasses, PlainCategories, MergedCategories, Modifiers, FunctionSpecs
<1>9. CASE Pointer
  BY <1>9, <1>0, StepIsHere, NotOnSemicolon DEF Pointer, Goto, SkipAsterisk, Move
<1>10. CASE FindFirstOf
  BY <1>10, <1>0, StepIsHere DEF FindFirstOf, Goto
<1>11. CASE FunctionDeclarator
  BY <1>11, <1>0, StepIsHere, NotOnSemicolon, PopName DEF FunctionDeclarator, Goto, Identifier, Move, FunctionPcs
<1>12. CASE FunctionParen
  BY <1>12, <1>0, StepIsHere, NotOnSemicolon, PopName DEF FunctionParen, Goto, Move, FunctionPcs
<1>13. CASE FunctionParameters
  BY <1>13, <1>0, StepIsHere, PopName DEF FunctionParameters, Goto, FunctionPcs
<1>14. CASE DirectDeclarator
  BY <1>14, <1>0, StepIsHere, NotOnSemicolon DEF DirectDeclarator, Goto, Move, Identifier
<1>15. CASE DeclaratorParsed
  BY <1>15, <1>0, StepIsHere DEF DeclaratorParsed, Goto, Move
<1>16. CASE CloseParen
  BY <1>16, <1>0, StepIsHere DEF CloseParen, Goto, Move, Dies, EatsTheEnd, Eats
<1>17. CASE DeclaratorFailed
  BY <1>17, <1>0, StepIsHere DEF DeclaratorFailed, Goto, UngetToken, Move
<1>18. CASE FunctionBody
  BY <1>18, <1>0, StepIsHere DEF FunctionBody, Goto
<1>19. CASE FunctionDefinitionFailed
  BY <1>19, <1>0, StepIsHere, PopFirst DEF FunctionDefinitionFailed, Goto
<1>20. CASE Declaration
  BY <1>20, <1>0, StepIsHere DEF Declaration, Goto
<1>21. CASE Dispatch
  BY <1>21, <1>0, StepIsHere DEF Dispatch, Goto
<1>22. CASE ReadPastStorage
  BY <1>22, <1>0 DEF ReadPastStorage
<1>23. CASE Abort
  BY <1>23, <1>0 DEF Abort
<1>24. CASE UNCHANGED vars
  BY <1>24, <1>0 DEF vars
<1> QED BY <1>1, <1>2, <1>3, <1>4, <1>5, <1>6, <1>7, <1>8, <1>9, <1>10, <1>11, <1>12, <1>13, <1>14, <1>15, <1>16, <1>17, <1>18, <1>19, <1>20, <1>21, <1>22, <1>23, <1>24 DEF Next

LEMMA ScanStaysInside ==
  ASSUME Data, Control, EndsInSemicolonNewline, idx <= Size - 2, NEW i \in Scanned
  PROVE  i < Size
<1>1. Stops(Size - 2)
  BY DEF Stops, Wanted, EndsInSemicolonNewline
<1>2. Size \in Nat /\ Size >= 2 /\ idx \in Nat /\ i \in Int
  BY SizeIsNat DEF Control, EndsInSemicolonNewline, Scanned, Limit
<1>3. SUFFICES ASSUME i >= Size PROVE FALSE
  BY <1>2
<1>4. Size - 2 \in idx..(i - 1)
  BY <1>2, <1>3
<1> QED BY <1>1, <1>4 DEF Scanned

LEMMA ReadsStayInside == ASSUME Control, Data, CursorBound PROVE NoReadPastEnd
<1> SUFFICES ASSUME EndsInSemicolonNewline, NEW i \in Reads PROVE i < Size
  BY DEF NoReadPastEnd
<1>1. Size \in Nat /\ idx \in Nat /\ pc \in PCs
  BY SizeIsNat DEF Control
<1>2. CASE pc \in Silent \cup HaltedPcs
  BY <1>2 DEF Reads, Silent, HaltedPcs, Eats
<1>3. CASE pc \in Eats
  BY <1>1, <1>3 DEF Reads, Eats, CursorBound, Silent, HaltedPcs
<1>4. CASE pc = "direct_declarator"
  BY <1>4, ScanStaysInside DEF Reads, Eats, Silent, HaltedPcs, CursorBound, BeforeSemicolon
<1>5. CASE pc \notin Silent \cup HaltedPcs \cup Eats \cup {"direct_declarator"}
  <2>0. Reads = {idx} \cup {j \in {idx + 1} : Current = Peeked[pc] /\ HasPeek(1)}
    BY <1>5 DEF Reads
  <2>1. i = idx \/ (i = idx + 1 /\ Current = Peeked[pc])
    BY <2>0
  <2>2. idx < Size
    BY <1>1, <1>5, SizeIsNat DEF PCs, AttributePcs, DeclaratorPcs, HaltedPcs, Silent, Eats,
       CursorBound, BeforeSemicolon
  <2>3. ASSUME Current = Peeked[pc] PROVE idx + 1 < Size
    <3>1. Current \in TokenIds
      BY <1>1, <2>2 DEF Current, Token, Data, Size
    <3>2. Current # Unmapped
      BY <3>1 DEF TokenIds, Keywords, OtherTokens, Specifiers, StorageClasses,
         PlainCategories, MergedCategories, Modifiers, FunctionSpecs, Unsupported,
         OtherKeywords, Unmapped
    <3>3. /\ pc \in {"attributes", "attribute_list", "attribute_name"}
          /\ Current # "semicolon"
      BY <1>1, <2>3, <3>2 DEF Peeked
    <3> QED BY <1>1, <3>3, NotOnSemicolon DEF CursorBound, BeforeSemicolon
  <2> QED BY <2>1, <2>2, <2>3
<1> QED BY <1>2, <1>3, <1>4, <1>5

-----------------------------------------------------------------------------
(* The names: a first lookup can only come from parse_function_declarator, *)
(* on the token parse_direct_declarator started from; when that attempt    *)
(* fails the second lookup is for the same token, and it succeeds.         *)

NoNameYet == AttributePcs \cup {"external", "specifiers", "declarator",
                                "direct_declarator", "function_declarator"}
TriedAt(k) == Len(lookups) = 1 => lookups[1].at = k /\ Token(k) = "id"

Names ==
  /\ lastId = Len(lookups) /\ Len(lookups) <= 2
  /\ Len(lookups) >= 1 => lookups[1].str = 0
  /\ Len(lookups) = 2 => lookups[2].str = 1 /\ lookups[2].at = lookups[1].at
  /\ pc \in NoNameYet => Len(lookups) = 0
  /\ pc \in {"function_paren", "function_params"} => Len(lookups) <= 1 /\ TriedAt(hist[2])
  /\ pc = "identifier" => Len(lookups) <= 1 /\ TriedAt(idx)

LEMMA NamesInit == ASSUME Start PROVE Names
BY DEF Start, Names, NoNameYet, AttributePcs, TriedAt

(* A lookup appends one entry, for the current token.                      *)
LEMMA LookupAppends ==
  ASSUME Data, Control, Lookup, NEW n \in Nat, Len(lookups) = n
  PROVE  /\ Len(lookups') = n + 1 /\ lastId' = lastId + 1
         /\ lookups'[n + 1].at = idx /\ lookups'[n + 1].str = lastId
         /\ \A k \in 1..n : lookups'[k] = lookups[k]
<1> DEFINE e == [at |-> idx, str |-> lastId]
           R == [at : Nat, str : Nat]
<1>1. e \in R /\ lookups \in Seq(R)
  BY DEF Data, Control
<1>2. e.at = idx /\ e.str = lastId
  OBVIOUS
<1>3. lookups' = Append(lookups, e) /\ lastId' = lastId + 1
  BY DEF Lookup
<1> HIDE DEF e, R
<1>4. Len(lookups') = n + 1 /\ lookups'[n + 1] = e
      /\ \A k \in 1..n : lookups'[k] = lookups[k]
  BY <1>1, <1>3, AppendProperties
<1> QED BY <1>2, <1>3, <1>4

LEMMA FirstLookup ==
  ASSUME Data, Control, Names, Lookup, Len(lookups) = 0
  PROVE  /\ Len(lookups') = 1 /\ lastId' = 1
         /\ lookups'[1].at = idx /\ lookups'[1].str = 0
<1>1. lastId = 0 /\ 0 \in Nat
  BY DEF Names
<1>2. Len(lookups') = 0 + 1 /\ lookups'[0 + 1].at = idx /\ lookups'[0 + 1].str = lastId
      /\ lastId' = lastId + 1
  BY <1>1, LookupAppends
<1>3. 0 + 1 = 1
  OBVIOUS
<1> QED BY <1>1, <1>2, <1>3

LEMMA SecondLookup ==
  ASSUME Data, Control, Names, Lookup, Len(lookups) = 1, lookups[1].at = idx
  PROVE  /\ Len(lookups') = 2 /\ lastId' = 2
         /\ lookups'[1].str = 0 /\ lookups'[2].str = 1
         /\ lookups'[2].at = lookups'[1].at
<1>1. lastId = 1 /\ 1 \in Nat /\ lookups[1].str = 0
  BY DEF Names
<1>2. /\ Len(lookups') = 1 + 1 /\ lookups'[1 + 1].at = idx /\ lookups'[1 + 1].str = lastId
      /\ lastId' = lastId + 1 /\ \A k \in 1..1 : lookups'[k] = lookups[k]
  BY <1>1, LookupAppends
<1>3. lookups'[1] = lookups[1]
  BY <1>2
<1>4. 1 + 1 = 2
  OBVIOUS
<1> QED BY <1>1, <1>2, <1>3, <1>4

LEMMA NamesStep ==
  ASSUME Data, Control, Names, [Next]_vars
  PROVE  Names'
<1>0. toks' = toks /\ slack' = slack
  BY GivenFixed
<1>1. CASE ExternalDeclaration
  BY <1>1, <1>0, StepIsHere DEF ExternalDeclaration, Goto, Names, NoNameYet, AttributePcs, names
<1>2. CASE AttributeSpecifiers
  BY <1>2, <1>0, StepIsHere DEF AttributeSpecifiers, Goto, Names, NoNameYet, AttributePcs, names
<1>3. CASE AttributeList
  BY <1>3, <1>0, StepIsHere DEF AttributeList, Goto, Names, NoNameYet, AttributePcs, names
<1>4. CASE AttributeName
  BY <1>4, <1>0, StepIsHere DEF AttributeName, Goto, Names, NoNameYet, AttributePcs, names
<1>5. CASE AttributeScopedName
  BY <1>5, <1>0, StepIsHere DEF AttributeScopedName, Goto, Names, NoNameYet, AttributePcs, names
<1>6. CASE AttributeArguments
  BY <1>6, <1>0, StepIsHere DEF AttributeArguments, Goto, Names, NoNameYet, AttributePcs, names
<1>7. CASE AttributeClose
  BY <1>7, <1>0, StepIsHere DEF AttributeClose, Goto, Names, NoNameYet, AttributePcs, names
<1>8. CASE DeclarationSpecifiers
  BY <1>8, <1>0, StepIsHere DEF DeclarationSpecifiers, Goto, Names, NoNameYet, AttributePcs, names
<1>9. CASE Pointer
  BY <1>9, <1>0, StepIsHere DEF Pointer, Goto, Names, NoNameYet, AttributePcs, names
<1>10. CASE FindFirstOf
  BY <1>10, <1>0, StepIsHere DEF FindFirstOf, Goto, Names, NoNameYet, AttributePcs, names, TriedAt
<1>11. CASE FunctionDeclarator
  <2>1. pc = "function_declarator" /\ hist[2] = idx /\ Len(lookups) = 0
    BY <1>11, StepIsHere DEF FunctionDeclarator, Control, Names, NoNameYet
  <2>2. CASE Current = "id" /\ Lookup /\ pc' = "function_paren" /\ hist' = hist
    <3>1. /\ Len(lookups') = 1 /\ lastId' = 1
          /\ lookups'[1].at = hist'[2] /\ lookups'[1].str = 0
      BY <2>1, <2>2, FirstLookup
    <3>2. Token(idx) = "id"
      BY <2>2 DEF Current
    <3>3. Token(hist[2])' = "id"
      BY <1>0, <2>1, <2>2, <3>2 DEF Token, Size, Limit
    <3> QED BY <2>2, <3>1, <3>3 DEF Names, NoNameYet, AttributePcs, TriedAt
  <2>3. CASE UNCHANGED names /\ pc' \in {"function_paren", "identifier"}
    BY <1>11, <2>1, <2>3, PopName DEF FunctionDeclarator, Names, NoNameYet, AttributePcs, TriedAt, names
  <2> QED BY <1>11, <2>2, <2>3 DEF FunctionDeclarator, Identifier, Goto
<1>12. CASE FunctionParen
  BY <1>12, <1>0, StepIsHere, PopName DEF FunctionParen, Goto, Names, NoNameYet, AttributePcs, names, FunctionPcs, Move, TriedAt, Token, Size, Limit
<1>13. CASE FunctionParameters
  BY <1>13, <1>0, StepIsHere, PopName DEF FunctionParameters, Goto, Names, NoNameYet, AttributePcs, names, FunctionPcs, TriedAt, Token, Size, Limit
<1>14. CASE DirectDeclarator
  <2>1. pc = "identifier"
    BY <1>14, StepIsHere DEF DirectDeclarator
  <2>2. CASE Lookup /\ pc' = "declarator_parsed"
    <3>1. CASE Len(lookups) = 0
      <4>1. /\ Len(lookups') = 1 /\ lastId' = 1 /\ lookups'[1].str = 0
        BY <2>2, <3>1, FirstLookup
      <4> QED BY <2>2, <4>1 DEF Names, NoNameYet, AttributePcs
    <3>2. CASE Len(lookups) = 1
      <4>1. lookups[1].at = idx
        BY <2>1, <3>2 DEF Names, TriedAt
      <4>2. /\ Len(lookups') = 2 /\ lastId' = 2
            /\ lookups'[1].str = 0 /\ lookups'[2].str = 1
            /\ lookups'[2].at = lookups'[1].at
        BY <2>2, <3>2, <4>1, SecondLookup
      <4> QED BY <2>2, <4>2 DEF Names, NoNameYet, AttributePcs
    <3>3. Len(lookups) = 0 \/ Len(lookups) = 1
      BY <2>1 DEF Data, Names
    <3> QED BY <3>1, <3>2, <3>3
  <2>3. CASE UNCHANGED names /\ pc' = "declarator" /\ Current = "l_paren"
    <3>1. Len(lookups) # 1
      BY <2>1, <2>3 DEF Current, Names, TriedAt
    <3>2. Len(lookups) = 0
      BY <2>1, <3>1 DEF Data, Names
    <3> QED BY <2>3, <3>2 DEF Names, NoNameYet, AttributePcs, names
  <2>4. CASE UNCHANGED names /\ pc' \in {"declarator_parsed", "declarator_failed"}
    BY <2>1, <2>4 DEF Names, NoNameYet, AttributePcs, names
  <2> QED BY <1>14, <2>2, <2>3, <2>4 DEF DirectDeclarator, Identifier, NoIdentifier, Goto
<1>15. CASE DeclaratorParsed
  BY <1>15, <1>0, StepIsHere DEF DeclaratorParsed, Goto, Names, NoNameYet, AttributePcs, names
<1>16. CASE CloseParen
  BY <1>16, <1>0, StepIsHere DEF CloseParen, Goto, Names, NoNameYet, AttributePcs, names
<1>17. CASE DeclaratorFailed
  BY <1>17, <1>0, StepIsHere DEF DeclaratorFailed, Goto, Names, NoNameYet, AttributePcs, names
<1>18. CASE FunctionBody
  BY <1>18, <1>0, StepIsHere DEF FunctionBody, Goto, Names, NoNameYet, AttributePcs, names
<1>19. CASE FunctionDefinitionFailed
  BY <1>19, <1>0, StepIsHere DEF FunctionDefinitionFailed, Goto, Names, NoNameYet, AttributePcs, names
<1>20. CASE Declaration
  BY <1>20, <1>0, StepIsHere DEF Declaration, Goto, Names, NoNameYet, AttributePcs, names
<1>21. CASE Dispatch
  BY <1>21, <1>0, StepIsHere DEF Dispatch, Goto, Names, NoNameYet, AttributePcs, names
<1>22. CASE ReadPastStorage
  BY <1>22 DEF ReadPastStorage, Names, NoNameYet, AttributePcs, names
<1>23. CASE Abort
  BY <1>23 DEF Abort, Names, NoNameYet, AttributePcs, names
<1>24. CASE UNCHANGED vars
  BY <1>24, <1>0 DEF vars, Names, NoNameYet, AttributePcs, names, TriedAt, Token, Size, Limit
<1> QED BY <1>1, <1>2, <1>3, <1>4, <1>5, <1>6, <1>7, <1>8, <1>9, <1>10, <1>11, <1>12, <1>13, <1>14, <1>15, <1>16, <1>17, <1>18, <1>19, <1>20, <1>21, <1>22, <1>23, <1>24 DEF Next

-----------------------------------------------------------------------------
(* The verdict: until the dispatch on the first token, only parenthesised  *)
(* attributes have been reported, each with an attribute of its own.       *)

OnlyAttributesReported(n) ==
  /\ n <= attrs
  /\ \A k \in 1..n : diags[k].id = "unbalanced_token_sequence"
Verdict ==
  /\ pc # "done" => OnlyAttributesReported(Len(diags))
  /\ RejectedAtFirstToken

LEMMA VerdictInit == ASSUME Start PROVE Verdict
BY DEF Start, Verdict, OnlyAttributesReported, RejectedAtFirstToken

(* A report appends one entry, about the current token.                    *)
LEMMA ReportAppends ==
  ASSUME Data, idx \in Nat, NEW d \in Diagnostics, Report(d), NEW n \in Nat, Len(diags) = n
  PROVE  /\ Len(diags') = n + 1
         /\ diags'[n + 1] = [id |-> d, at |-> idx]
         /\ \A k \in 1..n : diags'[k] = diags[k]
<1> DEFINE e == [id |-> d, at |-> idx]
           R == [id : Diagnostics, at : Nat]
<1>1. e \in R /\ diags \in Seq(R) /\ diags' = Append(diags, e)
  BY DEF Data, Report
<1> HIDE DEF R
<1>2. Len(diags') = n + 1 /\ diags'[n + 1] = e /\ \A k \in 1..n : diags'[k] = diags[k]
  <2> HIDE DEF e
  <2> QED BY <1>1, AppendProperties
<1> QED BY <1>2

LEMMA VerdictStep ==
  ASSUME Control, Data, Verdict, [Next]_vars
  PROVE  Verdict'
<1>0. /\ toks' = toks /\ Size' = Size /\ idx \in Nat /\ attrs \in Nat
      /\ Len(diags) \in Nat
  BY GivenFixed, SameStream DEF Control, Data
<1>1. CASE UNCHANGED diags /\ attrs' \in {attrs, attrs + 1} /\ pc # "done" /\ pc' # "done"
  BY <1>0, <1>1 DEF Verdict, OnlyAttributesReported, RejectedAtFirstToken
<1>2. CASE ExternalDeclaration
  <2>1. UNCHANGED <<diags, attrs>> /\ pc = "external" /\ (pc' = "done" => Size = 0)
    BY <1>2, StepIsHere DEF ExternalDeclaration, Goto
  <2> QED BY <1>0, <2>1 DEF Verdict, OnlyAttributesReported, RejectedAtFirstToken
<1>3. CASE AttributeArguments
  <2> DEFINE n == Len(diags)
  <2>1. /\ pc = "attribute_args" /\ attrs' = attrs + 1 /\ pc' = "attribute_list"
        /\ Report("unbalanced_token_sequence")
    BY <1>3, StepIsHere DEF AttributeArguments, Goto
  <2>2. /\ Len(diags') = n + 1 /\ \A k \in 1..n : diags'[k] = diags[k]
        /\ diags'[n + 1] = [id |-> "unbalanced_token_sequence", at |-> idx]
    BY <1>0, <2>1, ReportAppends DEF Diagnostics
  <2>3. OnlyAttributesReported(n)
    BY <2>1 DEF Verdict
  <2> HIDE DEF n
  <2>4. n \in Nat
    BY <1>0 DEF n
  <2>5. n + 1 <= attrs'
    BY <1>0, <2>1, <2>3, <2>4 DEF OnlyAttributesReported
  <2>6. ASSUME NEW k \in 1..(n + 1)
        PROVE  diags'[k].id = "unbalanced_token_sequence"
    <3>1. CASE k = n + 1
      BY <2>2, <3>1
    <3>2. CASE k \in 1..n
      BY <2>2, <2>3, <3>2 DEF OnlyAttributesReported
    <3> QED BY <2>4, <3>1, <3>2
  <2> QED BY <2>1, <2>2, <2>5, <2>6 DEF Verdict, OnlyAttributesReported, RejectedAtFirstToken
<1>4. CASE Dispatch
  <2> DEFINE n == Len(diags)
             d == IF Current \in Keywords THEN "unimplemented_keyword"
                  ELSE "unrecognized_token"
  <2>1. pc = "dispatch" /\ idx = 0 /\ attrs' = attrs /\ pc' = "done" /\ Report(d)
    BY <1>4, StepIsHere DEF Dispatch, Goto, Control, decl
  <2>2. d \in Diagnostics
    BY DEF Diagnostics
  <2>3. OnlyAttributesReported(n)
    BY <2>1 DEF Verdict
  <2>4. Size > 0 => Current = toks[1]
    BY <2>1 DEF Current, Token
  <2> HIDE DEF n, d
  <2>5. n \in Nat /\ n = Len(diags)
    BY <1>0 DEF n
  <2>6. /\ Len(diags') = n + 1 /\ diags'[n + 1] = [id |-> d, at |-> 0]
        /\ \A k \in 1..n : diags'[k] = diags[k]
    BY <1>0, <2>1, <2>2, <2>5, ReportAppends
  <2>7. SUFFICES ASSUME Size > 0 PROVE RejectedAtFirstToken'
    BY <1>0, <2>1 DEF Verdict, RejectedAtFirstToken
  <2>8. diags'[Len(diags')] = [id |-> IF toks'[1] \in Keywords
                                      THEN "unimplemented_keyword"
                                      ELSE "unrecognized_token", at |-> 0]
    BY <1>0, <2>4, <2>6, <2>7 DEF d
  <2>9. Len(diags') - 1 = n
    BY <2>5, <2>6
  <2>10. \A k \in 1..n : diags'[k].id = "unbalanced_token_sequence"
    BY <2>3, <2>6 DEF OnlyAttributesReported
  <2>11. n <= attrs' /\ diags' # <<>>
    BY <2>1, <2>3, <2>5, <2>6 DEF OnlyAttributesReported
  <2> QED BY <2>8, <2>9, <2>10, <2>11 DEF RejectedAtFirstToken
<1>5. CASE UNCHANGED vars
  BY <1>0, <1>5 DEF vars, given, names, decl, Verdict, OnlyAttributesReported,
     RejectedAtFirstToken
<1>6. CASE ~(ExternalDeclaration \/ AttributeArguments \/ Dispatch \/ UNCHANGED vars)
  <2>1. UNCHANGED diags /\ attrs' \in {attrs, attrs + 1} /\ pc # "done" /\ pc' # "done"
    <3>1. CASE ReadPastStorage
      BY <3>1 DEF ReadPastStorage, ReadsMapped, Reads, HaltedPcs, Silent, Eats, decl
    <3>2. CASE Abort
      BY <3>2 DEF Abort, Halted, HaltedPcs, decl
    <3>3. CASE AttributeSpecifiers \/ AttributeList \/ AttributeName
               \/ AttributeScopedName \/ AttributeClose
      BY <3>3, StepIsHere DEF decl, Goto, AttributeSpecifiers, AttributeList,
         AttributeName, AttributeScopedName, AttributeClose
    <3>4. CASE DeclarationSpecifiers \/ Pointer \/ FindFirstOf
               \/ FunctionDeclarator \/ FunctionParen \/ FunctionParameters
      BY <3>4, StepIsHere DEF decl, Goto, DeclarationSpecifiers, Pointer, FindFirstOf,
         FunctionDeclarator, FunctionParen, FunctionParameters
    <3>5. CASE \/ DirectDeclarator \/ DeclaratorParsed \/ CloseParen
               \/ DeclaratorFailed \/ FunctionBody \/ FunctionDefinitionFailed
               \/ Declaration
      BY <3>5, StepIsHere DEF decl, Goto, DirectDeclarator, DeclaratorParsed,
         CloseParen, DeclaratorFailed, FunctionBody, FunctionDefinitionFailed,
         Declaration
    <3> QED BY <1>6, <3>1, <3>2, <3>3, <3>4, <3>5 DEF Next
  <2> QED BY <1>1, <2>1
<1> QED BY <1>2, <1>3, <1>4, <1>5, <1>6

-----------------------------------------------------------------------------
(* With assertions, an attribute never takes the cursor to the end.        *)

LEMMA AttributeStep ==
  ASSUME Control, Data, AttributeCursorInBounds, [Next]_vars
  PROVE  AttributeCursorInBounds'
<1>0. asserts' = asserts /\ Size' = Size /\ Size \in Nat /\ idx \in Nat
  BY GivenFixed, SameStream, SizeIsNat DEF Control
<1> SUFFICES ASSUME asserts, pc' \in AttributePcs PROVE idx' < Size
  BY <1>0 DEF AttributeCursorInBounds
<1>1. CASE ExternalDeclaration
  BY <1>0, <1>1, StepIsHere DEF ExternalDeclaration, Goto, Control, AttributePcs
<1>2. CASE AttributeSpecifiers
  BY <1>0, <1>2, StepIsHere DEF AttributeSpecifiers, Goto, Move, AttributePcs, Dies,
     CursorAsserted, CanAdvance, AttributeCursorInBounds
<1>3. CASE AttributeList
  BY <1>0, <1>3, StepIsHere DEF AttributeList, Goto, Move, AttributePcs, Dies,
     CursorAsserted, CanAdvance, AttributeCursorInBounds
<1>4. CASE AttributeName
  BY <1>0, <1>4, StepIsHere DEF AttributeName, Goto, Move, AttributePcs, Dies,
     CursorAsserted, CanAdvance, AttributeCursorInBounds
<1>5. CASE AttributeScopedName
  BY <1>0, <1>5, StepIsHere DEF AttributeScopedName, Goto, Move, AttributePcs, Dies,
     CursorAsserted, CanAdvance, AttributeCursorInBounds
<1>6. CASE AttributeArguments
  BY <1>0, <1>6, StepIsHere DEF AttributeArguments, AttributePcs, AttributeCursorInBounds
<1>7. CASE AttributeClose
  BY <1>0, <1>7, StepIsHere DEF AttributeClose, Move, AttributePcs, Dies, EatsTheEnd,
     Eats, AttributeCursorInBounds
<1>8. CASE UNCHANGED vars
  BY <1>0, <1>8 DEF vars, AttributeCursorInBounds
<1>9. CASE ~(\/ ExternalDeclaration \/ AttributeSpecifiers \/ AttributeList
             \/ AttributeName \/ AttributeScopedName \/ AttributeArguments
             \/ AttributeClose \/ UNCHANGED vars)
  <2>1. pc' \notin AttributePcs
    BY <1>9, StepIsHere DEF AttributePcs, Next, Goto, DeclarationSpecifiers,
       Pointer, FindFirstOf, FunctionDeclarator, FunctionParen, FunctionParameters,
       DirectDeclarator, DeclaratorParsed, CloseParen, DeclaratorFailed,
       FunctionBody, FunctionDefinitionFailed, Declaration, Dispatch,
       ReadPastStorage, Abort
  <2> QED BY <2>1
<1> QED BY <1>1, <1>2, <1>3, <1>4, <1>5, <1>6, <1>7, <1>8, <1>9

-----------------------------------------------------------------------------
(* The inductive invariant, and what follows from it.                      *)

IInv == /\ Control /\ Data /\ TypesAllocated /\ CursorBound /\ Names /\ Verdict
        /\ AttributeCursorInBounds

LEMMA StartInvariant == Start => IInv
BY ControlInit, DataInit, CursorBoundInit, NamesInit, VerdictInit
   DEF IInv, Start, AttributeCursorInBounds, AttributePcs

LEMMA InitInvariant == Init => IInv
BY StartInvariant, StreamsAssumption DEF Init, Start

LEMMA StepInvariant == IInv /\ [Next]_vars => IInv'
BY ControlStep, DataStep, CursorBoundStep, NamesStep, VerdictStep, AttributeStep DEF IInv

LEMMA Invariance == Spec => []IInv
BY InitInvariant, StepInvariant, PTL DEF Spec

(* Every variable keeps its type, whatever is parsed and whatever garbage  *)
(* is read past the end of it.                                             *)
THEOREM TypeCorrect == Spec => []TypeOK
<1>1. IInv => TypeOK
  BY DEF IInv, Control, Data, TypesAllocated, TypeOK
<1> QED BY <1>1, Invariance, PTL

LEMMA BacktrackingIs == IInv => BacktrackingRestoresCursor
<1>1. ASSUME hist \in Seq(Nat), Len(hist) = 0 PROVE hist = <<>>
  BY <1>1
<1> QED BY <1>1 DEF IInv, Control, BacktrackingRestoresCursor

(* The history stack is balanced, and a failed function definition gives   *)
(* the first token back.                                                   *)
THEOREM Backtracking == Spec => []BacktrackingRestoresCursor
BY BacktrackingIs, Invariance, PTL

(* A stream that ends in ";" and a newline is never read past its end, in  *)
(* either build.                                                           *)
THEOREM ReadsInBounds == Spec => []NoReadPastEnd
<1>1. IInv => NoReadPastEnd
  BY ReadsStayInside DEF IInv
<1> QED BY <1>1, Invariance, PTL

LEMMA OneNameIs == IInv => OneNameLookedUp
<1>1. ASSUME Names, Data PROVE OneNameLookedUp
  <2>1. Len(lookups) = 0 \/ Len(lookups) = 1 \/ Len(lookups) = 2
    <3>1. Len(lookups) \in Nat /\ Len(lookups) <= 2
      BY <1>1 DEF Names, Data
    <3>2. \A n \in Nat : n <= 2 => n = 0 \/ n = 1 \/ n = 2
      OBVIOUS
    <3> QED BY <3>1, <3>2, Zenon
  <2>2. ASSUME NEW k \in 1..Len(lookups)
        PROVE  lookups[k].str = k - 1 /\ lookups[k].at = lookups[1].at
    <3>1. k = 1 \/ (k = 2 /\ Len(lookups) = 2)
      <4>1. CASE Len(lookups) = 0
        BY <2>2, <4>1
      <4>2. CASE Len(lookups) = 1
        BY <2>2, <4>2
      <4>3. CASE Len(lookups) = 2
        BY <2>2, <4>3
      <4> QED BY <2>1, <4>1, <4>2, <4>3
    <3> QED BY <1>1, <2>1, <3>1 DEF Names
  <2> QED BY <1>1, <2>2 DEF OneNameLookedUp, Names
<1> QED BY <1>1 DEF IInv

(* At most one identifier is looked up, at most twice, under the indexes 0 *)
(* and 1.                                                                  *)
THEOREM OneName == Spec => []OneNameLookedUp
BY OneNameIs, Invariance, PTL

(* A parse that ends has rejected its stream, at the first token.          *)
THEOREM Rejection == Spec => []RejectedAtFirstToken
<1>1. IInv => RejectedAtFirstToken
  BY DEF IInv, Verdict
<1> QED BY <1>1, Invariance, PTL

(* The cursor stays on the stream: whatever the tokens, unget_token never  *)
(* wraps m_toks_index around, however deep declarators nest, and the       *)
(* assertions of advance_token_index and eat_token are enough to keep the  *)
(* attribute parser on a token (parse.cpp:67, 102, 108).                   *)
LEMMA CursorIs == IInv => CursorInBounds
BY DEF IInv, Control, UngetNeverUnderflows, CursorInBounds

THEOREM CursorIsInBounds == Spec => []CursorInBounds
BY CursorIs, Invariance, PTL

-----------------------------------------------------------------------------
(* The category that is merged one specifier at a time is the one all the  *)
(* words read so far have together.                                        *)

NotInt(S)  == {j \in S : Token(j) # "int"}
LastNotInt == IF NotInt(CategoryWords) = {} THEN "none"
              ELSE Token(LastWord(NotInt(CategoryWords)))

WordsState ==
  /\ pc \in {"external"} \cup AttributePcs => CategoryWords = {}
  /\ pc = "attribute_close" => Current = "r_square"
  /\ MergedCategory

LEMMA LastWordIs ==
  ASSUME NEW n \in Nat, NEW S \in SUBSET (0..(n - 1)), NEW m \in S, \A j \in S : j <= m
  PROVE  LastWord(S) = m
<1>1. ASSUME NEW i \in S, \A j \in S : j <= i PROVE i = m
  BY <1>1
<1> QED BY <1>1 DEF LastWord

LEMMA LastWordExists ==
  ASSUME NEW n \in Nat, NEW S \in SUBSET (0..(n - 1)), S # {}
  PROVE  LastWord(S) \in S /\ \A j \in S : j <= LastWord(S)
<1> DEFINE T == {n - j : j \in S}
<1>1. T \in SUBSET Nat /\ T # {}
  <2>1. \A j \in S : n - j \in Nat
    OBVIOUS
  <2> QED BY <2>1
<1>2. PICK k \in T : \A j \in T : k <= j
  <2> HIDE DEF T
  <2> QED BY <1>1, MinIsLeast
<1>3. PICK m \in S : k = n - m
  BY <1>2
<1>4. \A j \in S : j <= m
  BY <1>2, <1>3
<1>5. LastWord(S) = m
  BY <1>4, LastWordIs
<1> QED BY <1>4, <1>5

(* The "int"s at the end of the words do not hide a long before them.      *)
LEMMA LongSwallowsInts ==
  ASSUME idx \in Nat
  PROVE  CategoryAfter(CategoryWords) = "long" <=> LastNotInt = "long"
<1> DEFINE W == CategoryWords
           N == NotInt(W)
           last == LastWord(W)
<1>1. W \in SUBSET (0..(idx - 1)) /\ N \in SUBSET (0..(idx - 1)) /\ N \subseteq W
  BY DEF CategoryWords, NotInt
<1>2. CASE W = {}
  BY <1>1, <1>2 DEF CategoryAfter, LastNotInt, NotInt
<1>3. CASE W # {}
  <2>1. last \in W /\ \A j \in W : j <= last
    BY <1>1, <1>3, LastWordExists
  <2>2. CASE Token(last) # "int"
    <3>1. last \in N /\ \A j \in N : j <= last
      BY <1>1, <2>1, <2>2 DEF NotInt
    <3>2. LastWord(N) = last
      BY <1>1, <3>1, LastWordIs
    <3>3. LastNotInt = Token(last)
      BY <3>1, <3>2 DEF LastNotInt
    <3> QED BY <1>3, <2>2, <3>3 DEF CategoryAfter
  <2>3. CASE Token(last) = "int"
    <3>1. {j \in W : j < last /\ Token(j) # "int"} = N
      <4>1. ASSUME NEW j \in N PROVE j < last
        <5>1. j # last /\ j <= last
          BY <1>1, <2>1, <2>3, <4>1 DEF NotInt
        <5>2. j \in Int /\ last \in Int
          <6>1. W \subseteq Int
            BY <1>1
          <6> HIDE DEF last, W, N
          <6> QED BY <1>1, <2>1, <4>1, <6>1
        <5> HIDE DEF last, W, N
        <5> QED BY <5>1, <5>2
      <4> QED BY <4>1 DEF NotInt
    <3>2. WordBefore(last) = LastNotInt
      BY <3>1 DEF WordBefore, LastNotInt
    <3> QED BY <1>3, <2>3, <3>2 DEF CategoryAfter
  <2> QED BY <2>2, <2>3
<1> QED BY <1>2, <1>3

Categories == PlainCategories \cup MergedCategories

(* One more token read: the words end in it, if it is one.                 *)
LEMMA NextWord ==
  ASSUME NEW n \in Nat, idx = n, idx' = n + 1, toks' = toks, slack' = slack
  PROVE  /\ Token(n) \in Categories =>
              CategoryAfter(CategoryWords)' =
                CASE Token(n) = "int" /\ LastNotInt = "long" -> "long"
                  [] Token(n) = "double" /\ LastNotInt = "long" -> "longdouble"
                  [] OTHER -> Token(n)
         /\ Token(n) \notin Categories =>
              CategoryAfter(CategoryWords)' = CategoryAfter(CategoryWords)
<1> DEFINE W == CategoryWords
<1>0. \A i : Token(i)' = Token(i)
  BY DEF Token, Size, Limit
<1>1. W \in SUBSET (0..(n - 1))
  BY DEF CategoryWords
<1>2. W' = {i \in 0..n : Token(i) \in Categories}
  BY <1>0 DEF CategoryWords, Categories
<1>3. CASE Token(n) \in Categories
  <2>1. W' = W \cup {n}
    BY <1>2, <1>3 DEF CategoryWords, Categories
  <2>2. LastWord(W') = n
    <3>1. W' \in SUBSET (0..((n + 1) - 1)) /\ n \in W' /\ \A j \in W' : j <= n
      BY <1>1, <2>1
    <3> HIDE DEF W
    <3> QED BY <3>1, LastWordIs
  <2>3. {j \in W' : j < n /\ Token(j) # "int"} = NotInt(W)
    <3>1. \A j \in W : j < n
      BY <1>1
    <3> HIDE DEF W
    <3> QED BY <2>1, <3>1 DEF NotInt
  <2>4. CategoryAfter(W)' = CASE Token(n) = "int" /\ WordBefore(n)' = "long" -> "long"
                              [] Token(n) = "double" /\ WordBefore(n)' = "long" -> "longdouble"
                              [] OTHER -> Token(n)
    <3>1. W' # {}
      BY <2>1
    <3> QED BY <1>0, <2>2, <3>1 DEF CategoryAfter
  <2>5. WordBefore(n)' = LastNotInt
    BY <1>0, <2>3 DEF WordBefore, LastNotInt
  <2> QED BY <1>3, <2>4, <2>5
<1>4. CASE Token(n) \notin Categories
  <2>1. W' = W
    BY <1>2, <1>4 DEF CategoryWords, Categories
  <2> QED BY <1>0, <2>1, <1>4 DEF CategoryAfter, WordBefore
<1> QED BY <1>3, <1>4

(* merge_type_categories, one rule at a time.                              *)
LEMMA MergeOne ==
  ASSUME NEW old
  PROVE  /\ old = "long" => Merge(old, "int") = "long"
         /\ old \notin {"long", "longlong"} => Merge(old, "int") = "int"
         /\ Merge(old, "long") = "long" /\ Merge(old, "float") = "float"
         /\ Merge(old, "double") = IF old = "long" THEN "longdouble" ELSE "double"
<1>1. ASSUME NEW new, NEW r \in MergeRules, r[1] = old, r[2] = new
      PROVE  Merge(old, new) = r[3]
  <2>1. \A s \in MergeRules : s[1] = r[1] /\ s[2] = r[2] => s = r
    BY DEF MergeRules
  <2>2. (CHOOSE s \in MergeRules : s[1] = old /\ s[2] = new) = r
    BY <1>1, <2>1
  <2> QED BY <1>1, <2>2 DEF Merge
<1>2. ASSUME NEW new, \A r \in MergeRules : ~(r[1] = old /\ r[2] = new)
      PROVE  Merge(old, new) = new
  BY <1>2 DEF Merge
<1>3. Merge(old, "long") = "long" /\ Merge(old, "float") = "float"
  <2>1. \A r \in MergeRules : r[2] \notin {"long", "float"}
    BY DEF MergeRules
  <2> QED BY <1>2, <2>1
<1>4. Merge(old, "double") = IF old = "long" THEN "longdouble" ELSE "double"
  <2>1. <<"long", "double", "longdouble">> \in MergeRules
    BY DEF MergeRules
  <2>2. \A r \in MergeRules : r[2] = "double" => r[1] = "long"
    BY DEF MergeRules
  <2>3. old = "long" => Merge(old, "double") = "longdouble"
    BY <1>1, <2>1
  <2>4. old # "long" => Merge(old, "double") = "double"
    BY <1>2, <2>2
  <2> QED BY <2>3, <2>4
<1>5. old \notin {"long", "longlong"} => Merge(old, "int") = "int"
  <2>1. \A r \in MergeRules : r[2] = "int" => r[1] \in {"long", "longlong"}
    BY DEF MergeRules
  <2> QED BY <1>2, <2>1
<1>6. old = "long" => Merge(old, "int") = "long"
  <2>1. <<"long", "int", "long">> \in MergeRules
    BY DEF MergeRules
  <2> QED BY <1>1, <2>1
<1> QED BY <1>3, <1>4, <1>5, <1>6

LEMMA NeverLongLong ==
  ASSUME idx \in Nat
  PROVE  CategoryAfter(CategoryWords) # "longlong"
<1>1. CASE CategoryWords = {}
  BY <1>1 DEF CategoryAfter
<1>2. CASE CategoryWords # {}
  <2>1. CategoryWords \in SUBSET (0..(idx - 1))
    BY DEF CategoryWords
  <2>2. LastWord(CategoryWords) \in CategoryWords
    BY <1>2, <2>1, LastWordExists
  <2>3. Token(LastWord(CategoryWords)) \in Categories
    BY <2>2 DEF CategoryWords, Categories
  <2>4. Token(LastWord(CategoryWords)) # "longlong"
    BY <2>3 DEF Categories, PlainCategories, MergedCategories
  <2> QED BY <1>2, <2>4 DEF CategoryAfter
<1> QED BY <1>1, <1>2

LEMMA SecondHere ==
  ASSUME NEW S, NEW s \in Seq(S), Len(s) = 2
  PROVE  s[2] \in S /\ 2 \in DOMAIN s
OBVIOUS

LEMMA SecondAppended ==
  ASSUME NEW S, NEW s \in Seq(S), Len(s) = 1, NEW e \in S
  PROVE  Append(s, e)[2] = e
<1>1. Append(s, e)[Len(s) + 1] = e
  BY AppendProperties
<1>2. Len(s) + 1 = 2
  OBVIOUS
<1> QED BY <1>1, <1>2, Zenon

(* A category keyword changes the category as it changes CategoryAfter.    *)
LEMMA WordMerged ==
  ASSUME types \in Seq(TypeRecords), Len(types) = 2, NEW n \in Nat, idx = n, idx' = n + 1,
         toks' = toks, slack' = slack,
         StorageClassSpecifier \/ TypeSpecifier \/ FunctionSpecifier,
         types[2].category = CategoryAfter(CategoryWords)
  PROVE  types'[2].category = CategoryAfter(CategoryWords)'
<1> DEFINE old == types[2].category
<1>0. /\ types[2] \in TypeRecords /\ 2 \in DOMAIN types /\ Current = Token(n)
      /\ old = "long" <=> LastNotInt = "long"
      /\ old # "longlong"
  <2>1. types[2] \in TypeRecords /\ 2 \in DOMAIN types
    BY SecondHere
  <2>2. old = "long" <=> LastNotInt = "long"
    BY LongSwallowsInts
  <2>3. old # "longlong"
    BY NeverLongLong
  <2> QED BY <2>1, <2>2, <2>3 DEF Current
<1>1. CASE Current \notin Categories
  <2>1. types'[2].category = old
    <3>1. CASE StorageClassSpecifier
      BY <1>0, <3>1 DEF StorageClassSpecifier, TypeRecords
    <3>2. CASE TypeSpecifier
      BY <1>0, <1>1, <3>2 DEF TypeSpecifier, Categories, TypeRecords
    <3>3. CASE FunctionSpecifier
      BY <3>3 DEF FunctionSpecifier
    <3> QED BY <3>1, <3>2, <3>3
  <2> QED BY <1>0, <1>1, <2>1, NextWord
<1>2. CASE Current \in Categories
  <2>0. TypeSpecifier
    BY <1>2 DEF StorageClassSpecifier, FunctionSpecifier, StorageClasses, FunctionSpecs,
                Categories, PlainCategories, MergedCategories
  <2>1. CASE Current \in PlainCategories
    <3>1. types'[2].category = Current /\ Current \notin {"int", "double"}
      BY <1>0, <2>0, <2>1
         DEF TypeSpecifier, PlainCategories, MergedCategories, Modifiers, TypeRecords
    <3> QED BY <1>0, <1>2, <3>1, NextWord
  <2>2. CASE Current \in MergedCategories
    <3>1. types'[2].category = Merge(old, Current)
      BY <1>0, <2>0, <2>2
         DEF TypeSpecifier, PlainCategories, MergedCategories, Modifiers, TypeRecords
    <3>2. Current \in {"int", "long", "float", "double"}
      BY <2>2 DEF MergedCategories
    <3>3. Merge(old, Current) =
            CASE Current = "int" /\ LastNotInt = "long" -> "long"
              [] Current = "double" /\ LastNotInt = "long" -> "longdouble"
              [] OTHER -> Current
      BY <1>0, <3>2, MergeOne
    <3> QED BY <1>0, <1>2, <3>1, <3>3, NextWord
  <2> QED BY <1>2, <2>1, <2>2 DEF Categories
<1> QED BY <1>1, <1>2

(* What the attribute parser steps over is no category keyword.            *)
LEMMA NoWord ==
  ASSUME NEW n \in Nat, NEW k \in {0, 1, 2}, idx = n, idx' = n + k,
         toks' = toks, slack' = slack, CategoryWords = {},
         k > 0 => Token(n) \notin Categories, k > 1 => Token(n + 1) \notin Categories
  PROVE  CategoryWords' = {}
<1>1. \A i : Token(i)' = Token(i)
  BY DEF Token, Size, Limit
<1>2. CategoryWords' = {i \in 0..(n + k - 1) : Token(i) \in Categories}
  BY <1>1 DEF CategoryWords, Categories
<1>3. \A i \in 0..(n - 1) : Token(i) \notin Categories
  BY DEF CategoryWords, Categories
<1>4. \A i \in 0..(n + k - 1) : i \in 0..(n - 1) \/ (i = n /\ k > 0) \/ (i = n + 1 /\ k > 1)
  OBVIOUS
<1> QED BY <1>2, <1>3, <1>4

LEMMA WordsStep ==
  ASSUME IInv, WordsState, [Next]_vars
  PROVE  WordsState'
<1>0. idx \in Nat /\ toks' = toks /\ slack' = slack
  BY GivenFixed DEF IInv, Control
<1>1. PICK n \in Nat : idx = n
  BY <1>0
<1>2. {"l_square", "r_square", "id", "colon", "l_paren"} \cap Categories = {}
  BY DEF Categories, PlainCategories, MergedCategories
<1>3. ASSUME NEW k \in {0, 1, 2}, idx' = n + k, CategoryWords = {},
             k > 0 => Token(n) \notin Categories, k > 1 => Token(n + 1) \notin Categories
      PROVE  CategoryWords' = {}
  BY <1>0, <1>1, <1>3, NoWord
<1>4. idx' = n => Current' = Current
  BY <1>0, <1>1 DEF Current, Token, Size, Limit
<1> USE DEF WordsState, AttributePcs, MergedCategory, Goto
<1>5. CASE ExternalDeclaration
  <2>1. idx' = n /\ CategoryWords = {} /\ pc' \in {"attributes", "done"}
    BY <1>1, <1>5, StepIsHere DEF ExternalDeclaration
  <2> QED BY <1>3, <2>1
<1>6. CASE AttributeSpecifiers
  <2>1. CategoryWords = {} /\ Len(types) = 1 /\ types \in Seq(TypeRecords)
    BY <1>6, StepIsHere DEF AttributeSpecifiers, IInv, TypesAllocated, Data
  <2>2. CASE Doubled("l_square") /\ idx' = n + 2 /\ pc' = "attribute_list"
    <3>1. Token(n) = "l_square" /\ Token(n + 1) = "l_square"
      BY <1>1, <2>2 DEF Doubled, Current
    <3>2. CategoryWords' = {}
      BY <1>2, <1>3, <2>1, <2>2, <3>1
    <3> QED BY <2>2, <3>2
  <2>3. CASE idx' = n /\ types' = Append(types, NewType) /\ pc' = "specifiers"
    <3>1. CategoryWords' = {}
      BY <1>3, <2>1, <2>3
    <3>2. types'[2] = NewType
      <4>1. types' = Append(types, NewType) /\ NewType \in TypeRecords
        BY <2>3, NewTypeIsType
      <4> QED BY <2>1, <4>1, SecondAppended
    <3>3. types'[2].category = "none"
      BY <3>2 DEF NewType
    <3>4. CategoryAfter(CategoryWords)' = "none"
      BY <3>1 DEF CategoryAfter
    <3> QED BY <2>3, <3>3, <3>4
  <2> QED BY <1>1, <1>6, <2>2, <2>3 DEF AttributeSpecifiers, Move
<1>7. CASE AttributeList
  <2>1. CategoryWords = {} /\ pc = "attribute_list"
    BY <1>7, StepIsHere DEF AttributeList
  <2>2. CASE Current = "id" /\ idx' = n + 1 /\ pc' = "attribute_name"
    <3>1. Token(n) \notin Categories
      BY <1>1, <1>2, <2>2 DEF Current
    <3>2. CategoryWords' = {}
      BY <1>3, <2>1, <2>2, <3>1
    <3> QED BY <2>2, <3>2
  <2>3. CASE idx' = n /\ (pc' = "attribute_list" \/ (pc' = "attribute_close" /\ Current = "r_square"))
    BY <1>3, <1>4, <2>1, <2>3
  <2> QED BY <1>1, <1>7, <2>1, <2>2, <2>3 DEF AttributeList, Move
<1>8. CASE AttributeName
  <2>1. CategoryWords = {}
    BY <1>8, StepIsHere DEF AttributeName
  <2>2. CASE Doubled("colon") /\ idx' = n + 2 /\ pc' = "attribute_scoped"
    <3>1. Token(n) = "colon" /\ Token(n + 1) = "colon"
      BY <1>1, <2>2 DEF Doubled, Current
    <3>2. CategoryWords' = {}
      BY <1>2, <1>3, <2>1, <2>2, <3>1
    <3> QED BY <2>2, <3>2
  <2>3. CASE Current = "l_paren" /\ idx' = n + 1 /\ pc' = "attribute_args"
    <3>1. Token(n) \notin Categories
      BY <1>1, <1>2, <2>3 DEF Current
    <3>2. CategoryWords' = {}
      BY <1>3, <2>1, <2>3, <3>1
    <3> QED BY <2>3, <3>2
  <2>4. CASE idx' = n /\ pc' = "attribute_list"
    BY <1>3, <2>1, <2>4
  <2> QED BY <1>1, <1>8, <2>2, <2>3, <2>4 DEF AttributeName, Move
<1>9. CASE AttributeScopedName
  <2>1. CategoryWords = {}
    BY <1>9, StepIsHere DEF AttributeScopedName
  <2>2. CASE Current = "id" /\ idx' = n + 1 /\ pc' = "attribute_name"
    <3>1. Token(n) \notin Categories
      BY <1>1, <1>2, <2>2 DEF Current
    <3>2. CategoryWords' = {}
      BY <1>3, <2>1, <2>2, <3>1
    <3> QED BY <2>2, <3>2
  <2>3. CASE idx' = n /\ pc' = "attribute_list"
    BY <1>3, <2>1, <2>3
  <2> QED BY <1>1, <1>9, <2>2, <2>3 DEF AttributeScopedName, Move
<1>10. CASE AttributeArguments
  <2>1. CategoryWords = {} /\ idx' = n /\ pc' = "attribute_list"
    BY <1>1, <1>10, StepIsHere DEF AttributeArguments
  <2> QED BY <1>3, <2>1
<1>11. CASE AttributeClose
  <2>1. CategoryWords = {} /\ idx' = n + 1 /\ pc' = "attributes" /\ Current = "r_square"
    BY <1>1, <1>11, StepIsHere DEF AttributeClose, Move
  <2>2. Token(n) \notin Categories
    BY <1>1, <1>2, <2>1 DEF Current
  <2>3. CategoryWords' = {}
    BY <1>3, <2>1, <2>2
  <2> QED BY <2>1, <2>3
<1>12. CASE DeclarationSpecifiers
  <2>1. /\ types[2].category = CategoryAfter(CategoryWords)
        /\ types \in Seq(TypeRecords) /\ Len(types) = 2
    BY <1>12, StepIsHere DEF DeclarationSpecifiers, IInv, TypesAllocated, Data
  <2>2. CASE StorageClassSpecifier \/ TypeSpecifier \/ FunctionSpecifier
    <3>1. CASE idx' = n + 1 /\ pc' = pc
      <4>1. types'[2].category = CategoryAfter(CategoryWords)'
        BY <1>0, <1>1, <2>1, <2>2, <3>1, WordMerged
      <4>2. pc' = "specifiers"
        BY <1>12, <3>1, StepIsHere DEF DeclarationSpecifiers
      <4> QED BY <4>1, <4>2
    <3>2. CASE pc' = "declarator"
      BY <3>2
    <3> QED BY <1>1, <1>12, <3>1, <3>2 DEF DeclarationSpecifiers, Move
  <2>3. CASE pc' = "declarator"
    BY <2>3
  <2> QED BY <1>12, <2>2, <2>3 DEF DeclarationSpecifiers
<1>13. CASE UNCHANGED vars
  <2>1. toks' = toks /\ slack' = slack /\ idx' = idx
    BY <1>13 DEF vars, given
  <2>2. ASSUME NEW i PROVE Token(i)' = Token(i)
    BY <2>1, Zenon DEF Token, Size, Limit
  <2>3. CategoryWords' = CategoryWords
    BY <2>1, <2>2, Zenon DEF CategoryWords
  <2>4. ASSUME NEW i PROVE WordBefore(i)' = WordBefore(i)
    BY <2>2, <2>3, Zenon DEF WordBefore
  <2>5. CategoryAfter(CategoryWords)' = CategoryAfter(CategoryWords)
    BY <2>2, <2>3, <2>4, Zenon DEF CategoryAfter
  <2> QED BY <1>1, <1>4, <1>13, <2>3, <2>5 DEF vars, decl
<1>14. CASE pc' \notin {"external", "specifiers"} \cup AttributePcs
  BY <1>14
<1>15. \/ ExternalDeclaration \/ AttributeSpecifiers \/ AttributeList \/ AttributeName
       \/ AttributeScopedName \/ AttributeArguments \/ AttributeClose
       \/ DeclarationSpecifiers \/ UNCHANGED vars
       \/ pc' \notin {"external", "specifiers"} \cup AttributePcs
  <2>1. ASSUME \/ Pointer \/ FindFirstOf \/ FunctionDeclarator \/ FunctionParen
               \/ FunctionParameters \/ DirectDeclarator \/ DeclaratorParsed
               \/ CloseParen \/ DeclaratorFailed \/ FunctionBody
               \/ FunctionDefinitionFailed \/ Declaration \/ Dispatch
               \/ ReadPastStorage \/ Abort
        PROVE  pc' \notin {"external", "specifiers"} \cup AttributePcs
    BY <2>1, StepIsHere
       DEF Pointer, FindFirstOf, FunctionDeclarator, FunctionParen, FunctionParameters,
           DirectDeclarator, DeclaratorParsed, CloseParen, DeclaratorFailed, FunctionBody,
           FunctionDefinitionFailed, Declaration, Dispatch, ReadPastStorage, Abort
  <2> QED BY <2>1 DEF Next
<1> QED
  BY <1>5, <1>6, <1>7, <1>8, <1>9, <1>10, <1>11, <1>12, <1>13, <1>14, <1>15

(* The merged category is the one the words read so far have together,     *)
(* whatever stands in front of the specifiers.                             *)
THEOREM CategoriesMerge == Spec => []MergedCategory
<1>1. Init => WordsState
  BY DEF Init, WordsState, CategoryWords, MergedCategory
<1>2. IInv /\ WordsState /\ [Next]_vars => WordsState'
  BY WordsStep
<1>3. WordsState => MergedCategory
  BY DEF WordsState
<1> QED BY <1>1, <1>2, <1>3, Invariance, PTL DEF Spec

-----------------------------------------------------------------------------
(* What a parse dies of.  A "(" opens a level only where a declarator is   *)
(* tried, and there no identifier stands in front of the cursor; a stream  *)
(* that ends in ";" and a newline has two tokens behind every other one,   *)
(* so that the attribute parser's assertions hold.                         *)

StrayParen == \E i \in Numbered({"l_paren"}) : i - 1 \notin Numbered({"id"})
TryingPcs  == FunctionPcs \cup {"attributes", "specifiers", "declarator",
                                "direct_declarator", "identifier"}
DeathState ==
  EndsInSemicolonNewline =>
    /\ pc \in TryingPcs => TriedFrom - 1 \notin Numbered({"id"})
    /\ pc = "attribute_close" => Doubled("r_square")
    /\ nest > 0 => StrayParen
    /\ pc \in AttributePcs \ {"attributes"} => Numbered({"l_square"}) # {}
    /\ pc = "specifiers" /\ types[2].modifier # "none"
         => \E i \in 0..(idx - 1) : Token(i) \in Modifiers
    /\ DeathsExplained

LEMMA SameTokens ==
  ASSUME toks' = toks, slack' = slack
  PROVE  /\ \A i : Token(i)' = Token(i)
         /\ Numbered({"id"})' = Numbered({"id"})
         /\ StrayParen' = StrayParen
<1>1. \A i : Token(i)' = Token(i)
  BY DEF Token, Size, Limit
<1>2. Size' = Size
  BY DEF Size
<1>3. /\ Numbered({"id"})' = Numbered({"id"})
      /\ Numbered({"l_paren"})' = Numbered({"l_paren"})
  BY <1>1, <1>2 DEF Numbered
<1> QED BY <1>1, <1>3 DEF StrayParen

LEMMA DeathInit == ASSUME Start PROVE DeathState
BY DEF Start, DeathState, TryingPcs, FunctionPcs, AttributePcs, DeathsExplained

(* Nothing unmapped is read.                                               *)
LEMMA OnlyTokensRead ==
  ASSUME IInv, EndsInSemicolonNewline
  PROVE  ReadsMapped
<1> SUFFICES ASSUME NEW i \in Reads PROVE Token(i) # Unmapped
  BY DEF ReadsMapped
<1>1. i < Size
  BY ReadsStayInside DEF IInv, NoReadPastEnd
<1>2. Size \in Nat /\ idx \in Nat /\ toks \in Seq(TokenIds) /\ Limit \in Nat
  BY SizeIsNat DEF IInv, Control, Data, Limit
<1>3. i \in Nat
  BY <1>2 DEF Reads, Scanned
<1>4. Token(i) \in TokenIds
  BY <1>1, <1>2, <1>3 DEF Token, Size
<1> QED BY <1>4 DEF TokenIds, Keywords, OtherTokens, Specifiers, StorageClasses,
     PlainCategories, MergedCategories, Modifiers, FunctionSpecs, Unsupported,
     OtherKeywords, Unmapped

(* A token that is read is one of the stream.                              *)
LEMMA CurrentNumbered ==
  ASSUME IInv, EndsInSemicolonNewline, pc \in BeforeSemicolon
  PROVE  idx \in 0..(Size - 1) /\ \A S : Current \in S => idx \in Numbered(S)
<1>1. idx \in Nat /\ Size \in Nat /\ idx <= Size - 2
  BY SizeIsNat DEF IInv, Control, CursorBound
<1> QED BY <1>1 DEF Numbered, Current

LEMMA AttributeAsserted ==
  ASSUME IInv, DeathState, EndsInSemicolonNewline, pc \in AttributePcs
  PROVE  CursorAsserted /\ ~EatsTheEnd
<1>1. idx \in Nat /\ Size \in Nat
  BY SizeIsNat DEF IInv, Control
<1>2. CASE pc = "attribute_close"
  <2>1. idx <= Size - 3 /\ Doubled("r_square")
    BY <1>2 DEF IInv, CursorBound, DeathState
  <2> QED BY <1>1, <1>2, <2>1 DEF CursorAsserted, EatsTheEnd, Doubled
<1>3. CASE pc # "attribute_close"
  <2>1. idx <= Size - 2
    BY <1>3 DEF IInv, CursorBound, BeforeSemicolon, AttributePcs
  <2>2. Current # "semicolon" => idx <= Size - 3
    BY <2>1, NotOnSemicolon DEF IInv
  <2>3. \A t \in {"l_square", "r_square", "colon"} : Doubled(t) => idx <= Size - 4
    BY <2>1, DoubledBefore DEF IInv
  <2> QED BY <1>1, <1>3, <2>2, <2>3 DEF CursorAsserted, EatsTheEnd, Eats, CanAdvance,
       AttributePcs
<1> QED BY <1>2, <1>3

LEMMA DeathIsExplained ==
  ASSUME IInv, DeathState, EndsInSemicolonNewline, ~Halted, Dies
  PROVE  \/ StrayParen
         \/ asserts /\ Numbered(Unsupported) # {}
         \/ asserts /\ \E i, j \in Numbered(Modifiers) : i # j
<1>0. idx \in Nat /\ Size \in Nat
  BY SizeIsNat DEF IInv, Control
<1>1. CASE EatsTheEnd
  <2>1. pc = "close_paren"
    BY <1>1, AttributeAsserted DEF EatsTheEnd, Eats, AttributePcs
  <2> QED BY <2>1 DEF IInv, Control, DeathState
<1>2. CASE asserts /\ ~CursorAsserted
  <2>1. pc \notin AttributePcs
    BY <1>2, AttributeAsserted
  <2>2. pc \in {"close_paren", "declarator_failed"} /\ nest > 0
    BY <1>2, <2>1 DEF CursorAsserted, AttributePcs, IInv, Control
  <2> QED BY <2>2 DEF DeathState
<1>3. CASE asserts /\ ~SpecifierAsserted
  <2>1. pc = "specifiers"
    BY <1>3 DEF SpecifierAsserted
  <2>2. idx \in 0..(Size - 1) /\ \A S : Current \in S => idx \in Numbered(S)
    BY <2>1, CurrentNumbered DEF BeforeSemicolon
  <2>3. CASE Current \in Unsupported
    BY <1>3, <2>2, <2>3
  <2>4. CASE Current \in Modifiers /\ types[2].modifier # "none"
    <3>1. PICK i \in 0..(idx - 1) : Token(i) \in Modifiers
      BY <2>1, <2>4 DEF DeathState
    <3>2. i \in Numbered(Modifiers) /\ i # idx
      BY <1>0, <2>2, <3>1 DEF Numbered
    <3> QED BY <1>3, <2>2, <2>4, <3>2
  <2> QED BY <1>3, <2>1, <2>3, <2>4 DEF SpecifierAsserted
<1> QED BY <1>1, <1>2, <1>3 DEF Dies

LEMMA DeathStep ==
  ASSUME IInv, DeathState, [Next]_vars
  PROVE  DeathState'
<1> SUFFICES ASSUME EndsInSemicolonNewline PROVE DeathState'
  BY SameStream DEF DeathState
<1>0. /\ toks' = toks /\ slack' = slack /\ asserts' = asserts /\ Size' = Size
      /\ idx \in Nat /\ nest \in Nat /\ Size \in Nat /\ EndsInSemicolonNewline'
  BY GivenFixed, SameStream, SizeIsNat DEF IInv, Control
<1>1. /\ \A i : Token(i)' = Token(i)
      /\ Numbered({"id"})' = Numbered({"id"})
      /\ StrayParen' = StrayParen
  BY <1>0, SameTokens
<1>2. /\ Numbered(Unsupported)' = Numbered(Unsupported)
      /\ Numbered(Modifiers)' = Numbered(Modifiers)
      /\ Numbered({"l_square"})' = Numbered({"l_square"})
  BY <1>0, <1>1 DEF Numbered
<1>3. ASSUME Token(idx) # "id", idx' = idx + 1
      PROVE  idx' - 1 \notin Numbered({"id"})'
  <2>1. idx' - 1 = idx
    BY <1>0, <1>3
  <2> QED BY <1>1, <1>3, <2>1 DEF Numbered
<1>4. ASSUME pc' \notin {"fault", "aborted"} PROVE DeathsExplained'
  BY <1>4 DEF DeathsExplained
<1> USE <1>2 DEF DeathState, TryingPcs, FunctionPcs, AttributePcs, TriedFrom, Goto
<1>5. CASE ExternalDeclaration
  BY <1>0, <1>1, <1>4, <1>5, StepIsHere DEF ExternalDeclaration, IInv, Control, Numbered
<1>6. CASE AttributeSpecifiers
  <2>1. pc = "attributes" /\ Len(types) = 1 /\ types \in Seq(TypeRecords) /\ nest' = nest
    BY <1>6, StepIsHere DEF AttributeSpecifiers, IInv, TypesAllocated, Data, AttributePcs
  <2>2. CASE pc' = "attribute_list" /\ Current = "l_square"
    <3>1. Numbered({"l_square"}) # {}
      BY <2>1, <2>2, CurrentNumbered DEF BeforeSemicolon
    <3> QED BY <1>1, <1>4, <2>1, <2>2, <3>1
  <2>3. CASE pc' = "specifiers" /\ idx' = idx /\ types' = Append(types, NewType)
    <3>1. types'[2] = NewType
      BY <2>1, <2>3, NewTypeIsType, SecondAppended
    <3> QED BY <1>1, <1>4, <2>1, <2>3, <3>1 DEF NewType
  <2> QED BY <1>6, <2>2, <2>3 DEF AttributeSpecifiers, Doubled
<1>7. CASE AttributeList
  <2>1. pc = "attribute_list" /\ pc' \in {"attribute_list", "attribute_close", "attribute_name"}
        /\ nest' = nest
    BY <1>7, StepIsHere DEF AttributeList
  <2>2. ASSUME pc' = "attribute_close" PROVE Doubled("r_square")'
    <3>1. Current = "r_square" /\ (HasPeek(1) => Doubled("r_square")) /\ idx' = idx
      BY <1>7, <2>1, <2>2 DEF AttributeList
    <3>2. idx <= Size - 3
      BY <2>1, <3>1, NotOnSemicolon DEF IInv, CursorBound, BeforeSemicolon
    <3>3. Doubled("r_square")
      BY <1>0, <3>1, <3>2 DEF HasPeek
    <3> QED BY <1>0, <1>1, <3>1, <3>3 DEF Doubled, Current, HasPeek
  <2> QED BY <1>1, <1>4, <2>1, <2>2
<1>8. CASE AttributeName
  BY <1>1, <1>4, <1>8, StepIsHere DEF AttributeName
<1>9. CASE AttributeScopedName
  BY <1>1, <1>4, <1>9, StepIsHere DEF AttributeScopedName
<1>10. CASE AttributeArguments
  BY <1>1, <1>4, <1>10, StepIsHere DEF AttributeArguments
<1>11. CASE AttributeClose
  <2>1. pc = "attribute_close" /\ idx' = idx + 1 /\ pc' = "attributes" /\ nest' = nest
    BY <1>11, StepIsHere DEF AttributeClose, Move
  <2>2. Token(idx) # "id"
    BY <2>1 DEF Doubled, Current
  <2> QED BY <1>1, <1>3, <1>4, <2>1, <2>2
<1>12. CASE DeclarationSpecifiers
  <2>1. /\ pc = "specifiers" /\ nest' = nest /\ types \in Seq(TypeRecords) /\ Len(types) = 2
        /\ pc' \in {"specifiers", "declarator"}
    BY <1>12, StepIsHere DEF DeclarationSpecifiers, IInv, TypesAllocated, Data
  <2>2. CASE pc' = "declarator"
    BY <1>1, <1>4, <1>12, <2>1, <2>2 DEF DeclarationSpecifiers
  <2>3. CASE pc' = "specifiers"
    <3>1. idx' = idx + 1 /\ (StorageClassSpecifier \/ TypeSpecifier \/ FunctionSpecifier)
      BY <1>12, <2>1, <2>3 DEF DeclarationSpecifiers, Move
    <3>2. Token(idx) # "id"
      BY <3>1 DEF Current, StorageClassSpecifier, TypeSpecifier, FunctionSpecifier,
         StorageClasses, PlainCategories, MergedCategories, Modifiers, FunctionSpecs
    <3>3. ASSUME types'[2].modifier # "none"
          PROVE  \E i \in 0..(idx' - 1) : Token(i)' \in Modifiers
      <4>1. CASE Current \in Modifiers
        BY <1>0, <1>1, <3>1, <4>1 DEF Current
      <4>2. CASE Current \notin Modifiers
        <5>1. types'[2].modifier = types[2].modifier
          <6>1. types[2] \in TypeRecords /\ 2 \in DOMAIN types
            BY <2>1, SecondHere
          <6> QED BY <3>1, <4>2, <6>1 DEF StorageClassSpecifier, TypeSpecifier,
               FunctionSpecifier, TypeRecords
        <5>2. PICK i \in 0..(idx - 1) : Token(i) \in Modifiers
          BY <2>1, <3>3, <5>1
        <5> QED BY <1>0, <1>1, <3>1, <5>2
      <4> QED BY <4>1, <4>2
    <3> QED BY <1>1, <1>3, <1>4, <2>1, <2>3, <3>1, <3>2, <3>3
  <2> QED BY <2>1, <2>2, <2>3
<1>13. CASE Pointer
  <2>1. pc = "declarator" /\ nest' = nest
    BY <1>13, StepIsHere DEF Pointer
  <2>2. CASE idx' = idx + 1 /\ Current = "asterisk" /\ pc' = pc
    BY <1>1, <1>3, <1>4, <2>1, <2>2 DEF Current
  <2>3. CASE idx' = idx /\ pc' = "direct_declarator"
    BY <1>1, <1>4, <2>1, <2>3
  <2> QED BY <1>13, <2>2, <2>3 DEF Pointer, SkipAsterisk, Move
<1>14. CASE FindFirstOf
  BY <1>1, <1>4, <1>14, StepIsHere, PushName DEF FindFirstOf, IInv
<1>15. CASE FunctionDeclarator
  BY <1>1, <1>4, <1>15, StepIsHere, PopName DEF FunctionDeclarator, IInv
<1>16. CASE FunctionParen
  BY <1>1, <1>4, <1>16, StepIsHere, PopName DEF FunctionParen, IInv
<1>17. CASE FunctionParameters
  BY <1>1, <1>4, <1>17, StepIsHere, PopName DEF FunctionParameters, IInv
<1>18. CASE DirectDeclarator
  <2>1. pc = "identifier"
    BY <1>18, StepIsHere DEF DirectDeclarator
  <2>2. CASE Current = "l_paren" /\ idx' = idx + 1 /\ pc' = "declarator"
    <3>1. idx \in Numbered({"l_paren"}) /\ idx - 1 \notin Numbered({"id"})
      BY <2>1, <2>2, CurrentNumbered DEF BeforeSemicolon
    <3>2. StrayParen
      BY <3>1 DEF StrayParen
    <3> QED BY <1>1, <1>3, <1>4, <2>2, <3>2 DEF Current
  <2>3. CASE nest' = nest /\ pc' \in {"declarator_parsed", "declarator_failed"}
    BY <1>1, <1>4, <2>1, <2>3
  <2> QED BY <1>18, <2>2, <2>3 DEF DirectDeclarator, Move
<1>19. CASE DeclaratorParsed
  BY <1>1, <1>4, <1>19, StepIsHere DEF DeclaratorParsed
<1>20. CASE CloseParen
  BY <1>0, <1>1, <1>4, <1>20, StepIsHere DEF CloseParen
<1>21. CASE DeclaratorFailed
  BY <1>0, <1>1, <1>4, <1>21, StepIsHere DEF DeclaratorFailed
<1>22. CASE FunctionBody
  BY <1>1, <1>4, <1>22, StepIsHere DEF FunctionBody
<1>23. CASE FunctionDefinitionFailed
  BY <1>1, <1>4, <1>23, StepIsHere DEF FunctionDefinitionFailed
<1>24. CASE Declaration
  BY <1>1, <1>4, <1>24, StepIsHere DEF Declaration
<1>25. CASE Dispatch
  BY <1>1, <1>4, <1>25, StepIsHere DEF Dispatch
<1>26. CASE ReadPastStorage
  BY <1>26, OnlyTokensRead DEF ReadPastStorage
<1>27. CASE Abort
  <2>1. pc' = "aborted" /\ nest' = nest
    BY <1>27 DEF Abort
  <2>2. \/ StrayParen
        \/ asserts /\ Numbered(Unsupported) # {}
        \/ asserts /\ \E i, j \in Numbered(Modifiers) : i # j
    BY <1>27, DeathIsExplained DEF Abort
  <2>3. DeathsExplained'
    BY <1>0, <1>1, <1>2, <2>1, <2>2 DEF DeathsExplained, StrayParen
  <2> QED BY <1>1, <2>1, <2>3
<1>28. CASE UNCHANGED vars
  <2>1. DeathsExplained'
    BY <1>0, <1>1, <1>2, <1>28 DEF vars, DeathsExplained, StrayParen
  <2>2. Doubled("r_square")' = Doubled("r_square")
    BY <1>0, <1>1, <1>28 DEF vars, Doubled, Current, HasPeek
  <2> QED BY <1>1, <1>28, <2>1, <2>2 DEF vars, decl
<1> QED BY <1>5, <1>6, <1>7, <1>8, <1>9, <1>10, <1>11, <1>12, <1>13, <1>14, <1>15, <1>16, <1>17, <1>18, <1>19, <1>20, <1>21, <1>22, <1>23, <1>24, <1>25, <1>26, <1>27, <1>28 DEF Next

(* Nothing stops a parse of ordinary tokens.                               *)
LEMMA OrdinaryTokensSurvive ==
  ASSUME DeathState, EndsInSemicolonNewline, ~StrayParen,
         Numbered(Unsupported \cup Modifiers \cup {"l_square"}) = {}
  PROVE  pc \notin {"aborted", "fault", "attribute_list"}
<1>1. \A S \in {Unsupported, Modifiers, {"l_square"}} : Numbered(S) = {}
  BY DEF Numbered
<1> QED BY <1>1 DEF DeathState, DeathsExplained, StrayParen, AttributePcs

(* A parse of tokens that end in ";" and a newline reads no unmapped       *)
(* storage, and aborts only on a "(" that opens a level of declarators or, *)
(* with assertions, on a keyword that is not supported or a second         *)
(* modifier.                                                               *)
THEOREM DeathsAreExplained == Spec => []DeathsExplained
<1>1. Init => DeathState
  BY DeathInit, StreamsAssumption DEF Init, Start
<1>2. IInv /\ DeathState /\ [Next]_vars => DeathState'
  BY DeathStep
<1>3. DeathState => DeathsExplained
  BY DEF DeathState, DeathsExplained
<1> QED BY <1>1, <1>2, <1>3, Invariance, PTL DEF Spec

-----------------------------------------------------------------------------
(* The refinement: each step of the parser is a step of ParseOutcome, or   *)
(* leaves what the caller can see as it is.                                *)

LEMMA IdsOfAppended ==
  ASSUME NEW R, NEW s \in Seq(R), NEW e \in R
  PROVE  [k \in DOMAIN Append(s, e) |-> Append(s, e)[k].id]
           = Append([k \in DOMAIN s |-> s[k].id], e.id)
OBVIOUS

LEMMA IndicesOfAppended ==
  ASSUME NEW R, NEW s \in Seq(R), NEW e \in R
  PROVE  [k \in DOMAIN Append(s, e) |-> Append(s, e)[k].str]
           = Append([k \in DOMAIN s |-> s[k].str], e.str)
OBVIOUS

(* A step that dies was running.                                           *)
LEMMA DyingState ==
  ASSUME ReadPastStorage \/ Abort
  PROVE  ~Halted /\ pc' \in {"aborted", "fault"} /\ UNCHANGED <<diags, names>>
<1>1. ReadPastStorage => ~Halted
  <2>1. pc \in HaltedPcs => Reads = {}
    <3>1. SUFFICES ASSUME pc \in HaltedPcs PROVE Reads = {}
      OBVIOUS
    <3>2. /\ pc \in Silent \cup HaltedPcs /\ pc \notin Eats
          /\ pc # "direct_declarator"
      BY <3>1 DEF Silent, HaltedPcs, Eats
    <3> HIDE DEF Silent, HaltedPcs, Eats
    <3>3. QED
      BY <3>2 DEF Reads
  <2> QED BY <2>1 DEF ReadPastStorage, ReadsMapped, Halted
<1> QED BY <1>1 DEF ReadPastStorage, Abort

(* Nothing comes back to parse_external_declaration.                       *)
Fresh == /\ pc = "external" => diags = <<>>
         /\ ~Halted /\ pc # "external" => Size # 0

LEMMA FreshStep ==
  ASSUME Fresh, Control, Data, [Next]_vars
  PROVE  Fresh'
<1>0. Size' = Size /\ Size \in Nat
  BY GivenFixed, SameStream, SizeIsNat
<1>1. CASE UNCHANGED vars
  BY <1>0, <1>1 DEF vars, Fresh, Halted
<1>2. CASE ~UNCHANGED vars
  <2>1. /\ pc' # "external"
        /\ ExternalDeclaration \/ pc # "external" \/ pc' \in HaltedPcs
        /\ ~Halted
    <3> USE <1>2, StepIsHere DEF Goto, Halted, HaltedPcs
    <3>1. CASE \/ ExternalDeclaration \/ AttributeSpecifiers \/ AttributeList
               \/ AttributeName \/ AttributeScopedName \/ AttributeArguments
               \/ AttributeClose \/ DeclarationSpecifiers
      BY <3>1 DEF ExternalDeclaration, AttributeSpecifiers, AttributeList,
         AttributeName, AttributeScopedName, AttributeArguments, AttributeClose,
         DeclarationSpecifiers
    <3>2. CASE \/ Pointer \/ FindFirstOf \/ FunctionDeclarator \/ FunctionParen
               \/ FunctionParameters \/ DirectDeclarator \/ DeclaratorParsed
      BY <3>2 DEF Pointer, FindFirstOf, FunctionDeclarator, FunctionParen,
         FunctionParameters, DirectDeclarator, DeclaratorParsed
    <3>3. CASE \/ CloseParen \/ DeclaratorFailed \/ FunctionBody
               \/ FunctionDefinitionFailed \/ Declaration \/ Dispatch
      BY <3>3 DEF CloseParen, DeclaratorFailed, FunctionBody,
         FunctionDefinitionFailed, Declaration, Dispatch
    <3>4. CASE ReadPastStorage \/ Abort
      BY <3>4, DyingState
    <3> QED BY <3>1, <3>2, <3>3, <3>4 DEF Next
  <2>2. CASE pc # "external" \/ pc' \in HaltedPcs
    BY <1>0, <2>1, <2>2 DEF Fresh, Halted
  <2>3. CASE ExternalDeclaration
    BY <1>0, <2>1, <2>3 DEF ExternalDeclaration, Goto, Fresh, Halted, HaltedPcs
  <2> QED BY <2>1, <2>2, <2>3
<1> QED BY <1>1, <1>2

LEMMA FreshInvariance == Spec => []Fresh
<1>1. Init => Fresh
  BY DEF Init, Fresh, Halted, HaltedPcs
<1>2. IInv /\ Fresh /\ [Next]_vars => Fresh'
  BY FreshStep DEF IInv
<1> QED BY <1>1, <1>2, Invariance, PTL DEF Spec

LEMMA RunningState == ~Halted => OutcomeState = "running"
BY DEF Halted, HaltedPcs, OutcomeState

(* Most steps change nothing that can be seen.                             *)
LEMMA InvisibleStep ==
  ASSUME ~Halted, ~Halted', UNCHANGED <<toks, diags, lookups>>
  PROVE  UNCHANGED Outcome!vars
<1>1. OutcomeState = "running" /\ OutcomeState' = "running"
  BY RunningState DEF Halted, HaltedPcs, OutcomeState
<1> QED BY <1>1 DEF Outcome!vars, ReportedIds, NamesAsked

LEMMA LookupVisible ==
  ASSUME Data, Control, Names, Lookup, ~Halted, ~Halted', UNCHANGED <<toks, diags>>,
         Len(lookups) <= 1
  PROVE  Outcome!LookUp
<1> DEFINE e == [at |-> idx, str |-> lastId]
           R == [at : Nat, str : Nat]
<1>1. e \in R /\ lookups \in Seq(R) /\ lookups' = Append(lookups, e)
  BY DEF Data, Control, Lookup
<1>2. Len(NamesAsked) = Len(lookups) /\ lastId = Len(lookups)
  BY <1>1 DEF NamesAsked, Names
<1>3. NamesAsked' = Append(NamesAsked, lastId)
  <2>1. e.str = lastId
    OBVIOUS
  <2> HIDE DEF e, R
  <2> QED BY <1>1, <2>1, IndicesOfAppended DEF NamesAsked
<1>4. OutcomeState = "running" /\ OutcomeState' = "running"
  BY RunningState DEF Halted, HaltedPcs, OutcomeState
<1>5. Len(NamesAsked) < 2 /\ NamesAsked' = Append(NamesAsked, Len(NamesAsked))
  BY <1>1, <1>2, <1>3
<1> QED BY <1>4, <1>5 DEF Outcome!LookUp, ReportedIds

LEMMA ReportVisible ==
  ASSUME Data, idx \in Nat, NEW d \in Diagnostics, Report(d)
  PROVE  ReportedIds' = Append(ReportedIds, d)
<1> DEFINE e == [id |-> d, at |-> idx]
           R == [id : Diagnostics, at : Nat]
<1>1. e \in R /\ diags \in Seq(R) /\ diags' = Append(diags, e) /\ e.id = d
  BY DEF Data, Report
<1> HIDE DEF e, R
<1> QED BY <1>1, IdsOfAppended DEF ReportedIds

LEMMA OutcomeStep ==
  ASSUME IInv, Fresh, [Next]_vars
  PROVE  [Outcome!Next]_(Outcome!vars)
<1>0. /\ toks' = toks /\ Size' = Size /\ idx \in Nat
      /\ Control /\ Data /\ Names /\ Verdict
  BY GivenFixed, SameStream DEF Control, IInv
<1>1. CASE ExternalDeclaration
  <2>1. pc = "external" /\ ~Halted /\ UNCHANGED <<diags, lookups>>
    BY <1>1, StepIsHere DEF ExternalDeclaration, Halted, HaltedPcs, names
  <2>2. CASE pc' = "attributes"
    BY <1>0, <2>1, <2>2, InvisibleStep DEF Halted, HaltedPcs
  <2>3. CASE Size = 0 /\ pc' = "done"
    <3>1. OutcomeState = "running" /\ OutcomeState' = "empty"
      BY <1>0, <2>1, <2>3, RunningState DEF OutcomeState
    <3>2. diags = <<>> /\ Len(lookups) = 0 /\ lookups \in Seq([at : Nat, str : Nat])
      BY <1>0, <2>1 DEF Fresh, Names, NoNameYet, Data
    <3>3. toks = <<>> /\ ReportedIds = <<>> /\ NamesAsked = <<>>
      <4>1. lookups = <<>>
        BY <3>2
      <4>2. toks = <<>>
        BY <1>0, <2>3 DEF Data, Size
      <4> QED BY <3>2, <4>1, <4>2 DEF ReportedIds, NamesAsked
    <3>4. ReportedIds' = ReportedIds /\ NamesAsked' = NamesAsked
      BY <2>1 DEF ReportedIds, NamesAsked
    <3> QED BY <1>0, <3>1, <3>3, <3>4 DEF Outcome!Next, Outcome!NothingToParse
  <2> QED BY <1>1, <2>2, <2>3 DEF ExternalDeclaration, Goto
<1>2. CASE AttributeArguments
  <2>1. /\ pc = "attribute_args" /\ pc' = "attribute_list" /\ lookups' = lookups
        /\ Report("unbalanced_token_sequence")
    BY <1>2, StepIsHere DEF AttributeArguments, Goto, names
  <2>2. ReportedIds' = Append(ReportedIds, "unbalanced_token_sequence")
    BY <1>0, <2>1, ReportVisible DEF Diagnostics
  <2>3. lookups \in Seq([at : Nat, str : Nat]) /\ Len(lookups) = 0
    BY <1>0, <2>1 DEF Names, NoNameYet, AttributePcs, Data
  <2>4. NamesAsked = <<>> /\ NamesAsked' = NamesAsked
    <3>1. lookups = <<>>
      BY <2>3
    <3> QED BY <2>1, <3>1 DEF NamesAsked
  <2>5. OutcomeState = "running" /\ OutcomeState' = "running"
    BY <2>1 DEF OutcomeState
  <2> QED BY <1>0, <2>2, <2>4, <2>5 DEF Outcome!Next, Outcome!Complain
<1>3. CASE FunctionDeclarator \/ DirectDeclarator
  <2>1. /\ pc \in {"function_declarator", "identifier"} /\ ~Halted /\ ~Halted'
        /\ diags' = diags
    BY <1>3, StepIsHere DEF FunctionDeclarator, DirectDeclarator, Goto, Halted, HaltedPcs
  <2>2. CASE lookups' = lookups
    BY <1>0, <2>1, <2>2, InvisibleStep
  <2>3. CASE Lookup
    <3>1. Len(lookups) <= 1
      BY <1>0, <2>1 DEF Names, NoNameYet
    <3> QED BY <1>0, <2>1, <2>3, <3>1, LookupVisible DEF Outcome!Next
  <2> QED BY <1>3, <2>2, <2>3 DEF FunctionDeclarator, DirectDeclarator, Identifier, names
<1>4. CASE Dispatch
  <2> DEFINE d == IF Current \in Keywords THEN "unimplemented_keyword"
                  ELSE "unrecognized_token"
  <2>1. pc = "dispatch" /\ idx = 0 /\ pc' = "done" /\ Report(d) /\ lookups' = lookups
    BY <1>0, <1>4, StepIsHere DEF Dispatch, Goto, Control, names
  <2>2. d \in Diagnostics
    BY DEF Diagnostics
  <2>3. ReportedIds' = Append(ReportedIds, d)
    <3> HIDE DEF d
    <3> QED BY <1>0, <2>1, <2>2, ReportVisible
  <2>4. NamesAsked' = NamesAsked
    BY <2>1 DEF NamesAsked
  <2>5. Size # 0 => Outcome!Verdict = d
    BY <1>0, <2>1 DEF Current, Token, Outcome!Verdict, Data, Size
  <2>6. Size # 0
    BY <2>1 DEF Fresh, Halted, HaltedPcs
  <2>7. toks # <<>>
    BY <2>6 DEF Size
  <2>8. OutcomeState = "running" /\ OutcomeState' = "rejected"
    BY <1>0, <2>1, <2>6 DEF OutcomeState
  <2> QED BY <1>0, <2>3, <2>4, <2>5, <2>6, <2>7, <2>8 DEF Outcome!Next, Outcome!Reject
<1>5. CASE ReadPastStorage \/ Abort
  <2>1. /\ ~Halted /\ pc' \in {"aborted", "fault"}
        /\ UNCHANGED <<diags, lookups>>
    BY <1>5, DyingState DEF names
  <2>2. OutcomeState = "running" /\ OutcomeState' = "dead"
    BY <2>1, RunningState DEF OutcomeState
  <2> QED BY <1>0, <2>1, <2>2 DEF Outcome!Next, Outcome!Die, ReportedIds, NamesAsked
<1>6. CASE UNCHANGED vars
  BY <1>0, <1>6 DEF vars, names, Outcome!vars, OutcomeState, ReportedIds, NamesAsked
<1>7. CASE ~(\/ ExternalDeclaration \/ AttributeArguments \/ FunctionDeclarator
             \/ DirectDeclarator \/ Dispatch \/ ReadPastStorage \/ Abort
             \/ UNCHANGED vars)
  <2>1. ~Halted /\ ~Halted' /\ UNCHANGED <<diags, lookups>>
    <3>1. CASE AttributeSpecifiers \/ AttributeList \/ AttributeName
               \/ AttributeScopedName \/ AttributeClose \/ DeclarationSpecifiers
               \/ Pointer \/ FindFirstOf
      BY <3>1, StepIsHere DEF Goto, names, Halted, HaltedPcs, AttributeSpecifiers,
         AttributeList, AttributeName, AttributeScopedName, AttributeClose,
         DeclarationSpecifiers, Pointer, FindFirstOf
    <3>2. CASE \/ FunctionParen \/ FunctionParameters \/ DeclaratorParsed
               \/ CloseParen \/ DeclaratorFailed \/ FunctionBody
               \/ FunctionDefinitionFailed \/ Declaration
      BY <3>2, StepIsHere DEF Goto, names, Halted, HaltedPcs, FunctionParen,
         FunctionParameters, DeclaratorParsed, CloseParen, DeclaratorFailed,
         FunctionBody, FunctionDefinitionFailed, Declaration
    <3> QED BY <1>7, <3>1, <3>2 DEF Next
  <2> QED BY <1>0, <2>1, InvisibleStep
<1> QED BY <1>1, <1>2, <1>3, <1>4, <1>5, <1>6, <1>7

(* parse() keeps the promise its callers rely on, for every token stream.  *)
THEOREM OutcomeImplemented == Spec => ImplementsOutcome
<1>1. Init => Outcome!Init
  BY DEF Init, Outcome!Init, OutcomeState, ReportedIds, NamesAsked
<1>2. IInv /\ Fresh /\ [Next]_vars => [Outcome!Next]_(Outcome!vars)
  BY OutcomeStep
<1> QED BY <1>1, <1>2, Invariance, FreshInvariance, PTL
    DEF Spec, ImplementsOutcome, Outcome!Spec

(* A name is only looked up for a token id, in one of two functions.       *)
LEMMA OnlyIdsLookedUp ==
  ASSUME Next
  PROVE  \/ UNCHANGED lookups
         \/ Current = "id" /\ pc' \in {"function_paren", "declarator_parsed"}
<1>1. CASE \/ ExternalDeclaration \/ AttributeSpecifiers \/ AttributeList
           \/ AttributeName \/ AttributeScopedName \/ AttributeArguments
           \/ AttributeClose \/ DeclarationSpecifiers
  BY <1>1 DEF ExternalDeclaration, AttributeSpecifiers, AttributeList,
     AttributeName, AttributeScopedName, AttributeArguments, AttributeClose,
     DeclarationSpecifiers, names
<1>2. CASE \/ Pointer \/ FindFirstOf \/ FunctionParen
           \/ FunctionParameters \/ DeclaratorParsed
  BY <1>2 DEF Pointer, FindFirstOf, FunctionParen, FunctionParameters, DeclaratorParsed, names
<1>3. CASE FunctionDeclarator \/ DirectDeclarator
  BY <1>3 DEF FunctionDeclarator, DirectDeclarator, Identifier, Goto, names
<1>4. CASE \/ CloseParen \/ DeclaratorFailed \/ FunctionBody
           \/ FunctionDefinitionFailed \/ Declaration \/ Dispatch
           \/ ReadPastStorage \/ Abort
  BY <1>4 DEF CloseParen, DeclaratorFailed, FunctionBody,
     FunctionDefinitionFailed, Declaration, Dispatch, ReadPastStorage, Abort, names
<1> QED BY <1>1, <1>2, <1>3, <1>4 DEF Next

-----------------------------------------------------------------------------
(* How many steps a parse can have left.  The cursor moves only from a     *)
(* token it has read; until a declarator has been parsed or has failed it  *)
(* stays within the storage that can be read.                              *)

TryPcs == {"declarator", "direct_declarator", "identifier"} \cup FunctionPcs
Reached == pc \in AttributePcs \cup TryPcs \cup {"specifiers"} => idx <= Limit

LEMMA LimitIsNat == ASSUME Data PROVE Size \in Nat /\ Limit \in Nat /\ Size <= Limit
<1>1. Size \in Nat /\ Len(slack) \in Nat
  BY SizeIsNat, LenProperties DEF Data
<1> QED BY <1>1 DEF Limit

LEMMA OnToken ==
  ASSUME Control, Data, Current # Unmapped
  PROVE  idx + 1 <= Limit
<1>1. idx \in Nat /\ Size \in Nat /\ Limit \in Nat /\ Size <= Limit
  BY LimitIsNat DEF Control
<1>2. idx < Size \/ idx < Limit
  BY DEF Current, Token
<1> QED BY <1>1, <1>2

LEMMA OnTwoTokens ==
  ASSUME Control, Data, NEW t, t # Unmapped, Doubled(t)
  PROVE  idx + 2 <= Limit
<1>1. idx \in Nat /\ Size \in Nat /\ Limit \in Nat /\ Size <= Limit
  BY LimitIsNat DEF Control
<1>2. Token(idx + 1) # Unmapped
  BY DEF Doubled
<1>3. idx + 1 < Size \/ idx + 1 < Limit
  BY <1>2 DEF Token
<1> QED BY <1>1, <1>3

LEMMA ReachedStart == Start => Reached
<1>1. Start => Limit \in Nat
  BY DataInit, LimitIsNat
<1> QED BY <1>1 DEF Start, Reached

LEMMA SameLimit == ASSUME [Next]_vars PROVE Limit' = Limit
BY GivenFixed DEF Limit, Size

(* What each function has left, and what is left above and below it.       *)
LeftHere ==
  /\ Halted => Left = 0
  /\ pc = "dispatch" => Left = 1
  /\ pc = "declaration" => Left = 2
  /\ pc = "function_failed" => Left = 3
  /\ pc \in {"function_body", "declarator_failed"} => Left = 4 + nest
  /\ pc = "close_paren" => Left = 5 + nest
  /\ pc = "declarator_parsed" => Left = 6 + nest
  /\ pc = "identifier" => Left = Far + 6 * (Far - idx) + 1
  /\ pc = "function_params" => Left = Far + 6 * (Far - hist[2]) + 2
  /\ pc = "function_paren" => Left = Far + 6 * (Far - hist[2]) + 3
  /\ pc = "function_declarator" => Left = Far + 6 * (Far - hist[2]) + 4
  /\ pc = "direct_declarator" => Left = Far + 6 * (Far - idx) + 5
  /\ pc = "declarator" => Left = Far + 6 * (Far - idx) + 6
  /\ pc = "specifiers" => Left = 9 * Far - idx
  /\ pc = "attribute_close" => Left = 10 * Far + 3 * (Far - idx) + 1
  /\ pc = "attribute_list" => Left = 10 * Far + 3 * (Far - idx) + 2
  /\ pc \in {"attributes", "attribute_name", "attribute_scoped", "attribute_args"}
       => Left = 10 * Far + 3 * (Far - idx) + 3
  /\ pc = "external" => Left = 20 * Far

LEMMA LeftIs == LeftHere
<1>1. /\ pc = "identifier" => LeftToTry = 1
      /\ pc = "function_params" => LeftToTry = 2
      /\ pc = "function_paren" => LeftToTry = 3
      /\ pc = "function_declarator" => LeftToTry = 4
      /\ pc = "direct_declarator" => LeftToTry = 5
      /\ pc = "declarator" => LeftToTry = 6
  <2>1. /\ Tries[1] = "identifier" /\ Tries[2] = "function_params" /\ Tries[3] = "function_paren"
        /\ Tries[4] = "function_declarator" /\ Tries[5] = "direct_declarator"
        /\ Tries[6] = "declarator"
    BY DEF Tries
  <2>2. 1..6 = {1, 2, 3, 4, 5, 6}
    OBVIOUS
  <2> QED BY <2>1, <2>2 DEF LeftToTry
<1>2. /\ Halted <=> pc \in {"done", "aborted", "fault"}
      /\ pc \in FunctionPcs <=> pc \in {"function_declarator", "function_paren", "function_params"}
      /\ pc \in AttributePcs <=> pc \in {"attributes", "attribute_list", "attribute_name",
                                         "attribute_scoped", "attribute_args", "attribute_close"}
  BY DEF Halted, HaltedPcs, FunctionPcs, AttributePcs
<1>3. CASE Halted
  BY <1>2, <1>3 DEF LeftHere, Left, HaltedPcs
<1>4. CASE pc \in {"dispatch", "declaration", "function_failed", "function_body",
                   "declarator_failed", "close_paren", "declarator_parsed", "specifiers",
                   "external"}
  BY <1>2, <1>4 DEF LeftHere, Left, HaltedPcs, AttributePcs
<1>5. CASE pc \in AttributePcs
  BY <1>2, <1>5 DEF LeftHere, Left, HaltedPcs, AttributePcs, LeftToSkip
<1>6. CASE pc \in {"identifier", "direct_declarator", "declarator"} \cup FunctionPcs
  <2>1. Left = Far + 6 * (Far - TriedFrom) + LeftToTry
    BY <1>2, <1>6 DEF Left, HaltedPcs, AttributePcs
  <2> QED BY <1>1, <1>2, <1>6, <2>1 DEF LeftHere, TriedFrom
<1>7. ASSUME pc \notin {"done", "aborted", "fault", "dispatch", "declaration",
                         "function_failed", "function_body", "declarator_failed",
                         "close_paren", "declarator_parsed", "specifiers", "external",
                         "identifier", "direct_declarator", "declarator"},
             pc \notin AttributePcs, pc \notin FunctionPcs
      PROVE  LeftHere
  BY <1>2, <1>7 DEF LeftHere
<1> QED BY <1>2, <1>3, <1>4, <1>5, <1>6, <1>7 DEF LeftHere

LEMMA LeftIsNext == LeftHere'
BY LeftIs, PTL

LEMMA ReachedStep ==
  ASSUME Control, Data, Reached, [Next]_vars
  PROVE  Reached'
<1> USE DEF Reached, TryPcs, AttributePcs, FunctionPcs, Unmapped
<1>0. /\ Limit' = Limit /\ Limit \in Nat /\ idx \in Nat
      /\ Current # "unmapped" => idx + 1 <= Limit
      /\ \A t \in {"l_square", "r_square", "colon"} : Doubled(t) => idx + 2 <= Limit
  BY SameLimit, LimitIsNat, OnToken, OnTwoTokens DEF Control
<1>1. CASE ExternalDeclaration \/ AttributeArguments \/ FindFirstOf
  BY <1>1, <1>0, StepIsHere DEF ExternalDeclaration, AttributeArguments, FindFirstOf, Control
<1>2. CASE AttributeSpecifiers
  BY <1>2, <1>0, StepIsHere DEF AttributeSpecifiers, Goto, Move
<1>3. CASE AttributeList \/ AttributeName \/ AttributeScopedName
  BY <1>3, <1>0, StepIsHere DEF AttributeList, AttributeName, AttributeScopedName, Goto, Move
<1>4. CASE AttributeClose
  <2>1. pc = "attribute_close" /\ ReadsMapped /\ ~EatsTheEnd /\ idx' = idx + 1
    BY <1>4, StepIsHere DEF AttributeClose, Dies, Move
  <2>2. idx + 1 # Size
    BY <2>1 DEF EatsTheEnd, Eats
  <2>3. idx + 1 \in Reads
    BY <2>1, <2>2 DEF Reads, Silent, HaltedPcs, Eats
  <2>4. Token(idx + 1) # "unmapped"
    BY <2>1, <2>3 DEF ReadsMapped
  <2>5. idx + 1 < Size \/ idx + 1 < Limit
    BY <2>4 DEF Token
  <2> QED BY <1>0, <2>1, <2>5, LimitIsNat
<1>5. CASE DeclarationSpecifiers
  <2>1. Current \in Specifiers => Current # "unmapped"
    BY DEF Specifiers, StorageClasses, PlainCategories, MergedCategories, Modifiers,
       FunctionSpecs, Unsupported
  <2>2. idx' = idx \/ (idx' = idx + 1 /\ Current \in Specifiers)
    BY <1>5 DEF DeclarationSpecifiers, Move, StorageClassSpecifier, TypeSpecifier,
       FunctionSpecifier, Specifiers
  <2> QED BY <1>5, <1>0, <2>1, <2>2, StepIsHere DEF DeclarationSpecifiers
<1>6. CASE Pointer
  BY <1>6, <1>0, StepIsHere DEF Pointer, SkipAsterisk, Goto, Move
<1>7. CASE FunctionDeclarator \/ FunctionParen \/ FunctionParameters
  <2>1. CASE PopIndex
    BY <1>7, <1>0, <2>1, StepIsHere, PopName
       DEF FunctionDeclarator, FunctionParen, FunctionParameters
  <2>2. CASE ~PopIndex
    BY <1>7, <1>0, <2>2, StepIsHere
       DEF FunctionDeclarator, FunctionParen, FunctionParameters, Identifier, Goto, Move
  <2> QED BY <2>1, <2>2
<1>8. CASE DirectDeclarator
  BY <1>8, <1>0, StepIsHere DEF DirectDeclarator, Identifier, Goto, Move
<1>9. CASE \/ DeclaratorParsed \/ CloseParen \/ DeclaratorFailed \/ FunctionBody
           \/ FunctionDefinitionFailed \/ Declaration \/ Dispatch \/ ReadPastStorage \/ Abort
  BY <1>9, StepIsHere DEF DeclaratorParsed, CloseParen, DeclaratorFailed, FunctionBody,
     FunctionDefinitionFailed, Declaration, Dispatch, ReadPastStorage, Abort, Goto
<1>10. CASE UNCHANGED vars
  BY <1>0, <1>10 DEF vars
<1> QED BY <1>1, <1>2, <1>3, <1>4, <1>5, <1>6, <1>7, <1>8, <1>9, <1>10 DEF Next

(* Where it is tried from, a declarator is within reach.                   *)
LEMMA TriedWithinReach ==
  ASSUME Control, Data, Reached
  PROVE  /\ Far \in Nat /\ Limit \in Nat /\ Far = Limit + 3 /\ idx \in Nat /\ nest \in Nat
         /\ pc \in FunctionPcs => hist[2] \in Nat /\ hist[2] <= idx /\ idx <= Limit
<1>1. Far \in Nat /\ Limit \in Nat /\ Far = Limit + 3 /\ idx \in Nat /\ nest \in Nat
  BY LimitIsNat DEF Far, Control
<1>2. ASSUME pc \in FunctionPcs PROVE hist[2] \in Nat /\ hist[2] <= idx /\ idx <= Limit
  <2>1. ~Halted /\ HistoryLength = 2
    BY <1>2 DEF Halted, HaltedPcs, HistoryLength, FunctionPcs
  <2>2. hist \in Seq(Nat) /\ Len(hist) = 2
    BY <2>1, HistoryHere
  <2>3. hist[2] \in Nat
    BY <2>2, SecondSaved
  <2> QED BY <1>1, <1>2, <2>3 DEF Control, FunctionPcs, Reached, TryPcs
<1> QED BY <1>1, <1>2

LEMMA LeftIsNat ==
  Control /\ Data /\ Reached => Left \in Nat /\ (~Halted => Left > 0)
<1>1. SUFFICES ASSUME Control, Data, Reached
               PROVE  Left \in Nat /\ (~Halted => Left > 0)
  OBVIOUS
<1>2. LeftHere
  BY LeftIs
<1>3. /\ Far \in Nat /\ Limit \in Nat /\ Far = Limit + 3 /\ idx \in Nat /\ nest \in Nat
      /\ pc \in FunctionPcs => hist[2] \in Nat /\ hist[2] <= idx /\ idx <= Limit
  BY <1>1, TriedWithinReach
<1>4. CASE Halted
  BY <1>2, <1>4 DEF LeftHere
<1>5. CASE pc \in {"dispatch", "declaration", "function_failed", "function_body",
                   "declarator_failed", "close_paren", "declarator_parsed", "external"}
  BY <1>2, <1>3, <1>5 DEF LeftHere
<1>6. CASE pc \in AttributePcs \cup {"specifiers", "identifier", "direct_declarator", "declarator"}
  <2>1. idx <= Limit
    BY <1>1, <1>6 DEF Reached, TryPcs
  <2> QED BY <1>2, <1>3, <1>6, <2>1 DEF LeftHere, AttributePcs
<1>7. CASE pc \in FunctionPcs
  BY <1>2, <1>3, <1>7 DEF LeftHere, FunctionPcs
<1> QED BY <1>1, <1>4, <1>5, <1>6, <1>7
        DEF Control, PCs, AttributePcs, DeclaratorPcs, HaltedPcs, FunctionPcs, Halted

LEMMA LeftIsNatNext ==
  (Control /\ Data /\ Reached)' => (Left \in Nat /\ (~Halted => Left > 0))'
BY LeftIsNat, PTL

LEMMA StepLowers ==
  ASSUME Control, Data, TypesAllocated, Reached, Next, vars' # vars
  PROVE  Left' < Left
<1>0. /\ Far \in Nat /\ Limit \in Nat /\ Far = Limit + 3 /\ idx \in Nat /\ nest \in Nat
      /\ pc \in FunctionPcs => hist[2] \in Nat /\ hist[2] <= idx /\ idx <= Limit
      /\ Far' = Far /\ LeftHere /\ LeftHere'
      /\ Current # "unmapped" => idx + 1 <= Limit
      /\ \A t \in {"l_square", "r_square", "colon"} : Doubled(t) => idx + 2 <= Limit
  BY TriedWithinReach, SameLimit, LeftIs, LeftIsNext, OnToken, OnTwoTokens DEF Far, Unmapped
<1>a. pc \in AttributePcs \cup TryPcs \cup {"specifiers"} => idx <= Limit
  BY DEF Reached
<1> USE DEF LeftHere, TryPcs, FunctionPcs, AttributePcs
<1>1. CASE ExternalDeclaration
  <2>1. pc = "external" /\ idx' = idx /\ pc' \in {"done", "attributes"}
    BY <1>1, StepIsHere DEF ExternalDeclaration, Goto
  <2>2. idx = 0
    BY <2>1 DEF Control
  <2> QED BY <1>0, <2>1, <2>2 DEF Halted, HaltedPcs
<1>2. CASE AttributeSpecifiers
  BY <1>2, <1>0, <1>a, StepIsHere DEF AttributeSpecifiers, Goto, Move
<1>3. CASE AttributeList
  BY <1>3, <1>0, <1>a, StepIsHere DEF AttributeList, Goto, Move, vars
<1>4. CASE AttributeName
  BY <1>4, <1>0, <1>a, StepIsHere DEF AttributeName, Goto, Move
<1>5. CASE AttributeScopedName
  BY <1>5, <1>0, <1>a, StepIsHere DEF AttributeScopedName, Goto, Move
<1>6. CASE AttributeArguments
  BY <1>6, <1>0, <1>a, StepIsHere DEF AttributeArguments, Goto
<1>7. CASE AttributeClose
  BY <1>7, <1>0, <1>a, StepIsHere DEF AttributeClose, Goto, Move
<1>8. CASE DeclarationSpecifiers
  <2>1. \/ pc' = pc /\ idx' = idx + 1
        \/ pc' = "declarator" /\ idx' = idx
    BY <1>8 DEF DeclarationSpecifiers, Goto, Move
  <2>2. pc = "specifiers" /\ ReadsMapped
    BY <1>8, StepIsHere DEF DeclarationSpecifiers
  <2>3. Current # "unmapped"
    <3>1. idx \in Reads
      BY <2>2 DEF Reads, Silent, Eats, HaltedPcs
    <3> QED BY <2>2, <3>1 DEF ReadsMapped, Current, Unmapped
  <2> QED BY <1>0, <1>a, <2>1, <2>2, <2>3
<1>9. CASE Pointer
  BY <1>9, <1>0, <1>a, StepIsHere DEF Pointer, SkipAsterisk, Goto, Move
<1>10. CASE FindFirstOf
  <2>1. CASE pc' = "identifier"
    BY <1>10, <1>0, <1>a, <2>1, StepIsHere DEF FindFirstOf
  <2>2. CASE PushIndex /\ pc' = "function_declarator"
    <3>1. pc = "direct_declarator" /\ hist'[2] = idx
      BY <1>10, <2>2, StepIsHere, PushName DEF FindFirstOf
    <3> QED BY <1>0, <1>a, <2>2, <3>1
  <2> QED BY <1>10, <2>1, <2>2 DEF FindFirstOf, Goto
<1>11. CASE FunctionDeclarator \/ FunctionParen \/ FunctionParameters
  <2>1. CASE PopIndex /\ pc' = "identifier"
    <3>1. pc \in FunctionPcs
      BY <1>11, StepIsHere DEF FunctionDeclarator, FunctionParen, FunctionParameters
    <3>2. idx' = hist[2]
      BY <2>1, <3>1, PopName
    <3> QED BY <1>0, <1>a, <2>1, <3>1, <3>2
  <2>2. CASE \/ pc = "function_declarator" /\ pc' = "function_paren" /\ idx' = idx + 1
             \/ pc = "function_paren" /\ pc' = "function_params" /\ idx' = idx + 1
    <3>1. hist' = hist
      BY <1>11, <2>2 DEF FunctionDeclarator, FunctionParen, FunctionParameters, Goto
    <3> QED BY <1>0, <1>a, <2>2, <3>1
  <2>3. CASE FunctionDeclarator
    BY <2>1, <2>2, <2>3, StepIsHere DEF FunctionDeclarator, Identifier, Goto, Move
  <2>4. CASE FunctionParen
    BY <2>1, <2>2, <2>4, StepIsHere DEF FunctionParen, Goto, Move
  <2>5. CASE FunctionParameters
    BY <2>1, <2>5 DEF FunctionParameters, Goto
  <2> QED BY <1>11, <2>3, <2>4, <2>5
<1>12. CASE DirectDeclarator
  <2>1. pc = "identifier" /\ nest <= idx
    BY <1>12, StepIsHere DEF DirectDeclarator, Control, DeclaratorPcs
  <2> QED BY <1>12, <1>0, <1>a, <2>1 DEF DirectDeclarator, Identifier, Goto, Move
<1>13. CASE DeclaratorParsed \/ CloseParen
  BY <1>13, <1>0, StepIsHere DEF DeclaratorParsed, CloseParen, Goto
<1>14. CASE DeclaratorFailed
  BY <1>14, <1>0, StepIsHere DEF DeclaratorFailed, Goto
<1>15. CASE FunctionBody \/ FunctionDefinitionFailed \/ Declaration \/ Dispatch
  BY <1>15, <1>0, StepIsHere DEF FunctionBody, FunctionDefinitionFailed, Declaration, Dispatch,
     Goto, Halted, HaltedPcs
<1>16. CASE ReadPastStorage \/ Abort
  <2>1. CASE ReadPastStorage
    <3>1. Halted => Reads = {}
      BY DEF Reads, Halted, HaltedPcs, Silent, Eats
    <3> QED BY <1>0, <2>1, <3>1, LeftIsNat DEF ReadPastStorage, ReadsMapped, Halted, HaltedPcs
  <2>2. CASE Abort
    BY <1>0, <2>2, LeftIsNat DEF Abort, Halted, HaltedPcs
  <2> QED BY <1>16, <2>1, <2>2
<1> QED BY <1>1, <1>2, <1>3, <1>4, <1>5, <1>6, <1>7, <1>8, <1>9, <1>10, <1>11, <1>12, <1>13,
           <1>14, <1>15, <1>16 DEF Next

(* On every token stream each step of parse() lowers the number of steps   *)
(* it can have left, however its attributes and declarators fail: all that *)
(* can keep it from ending is an iteration of the attribute loop that      *)
(* changes nothing (parse.cpp:308).                                        *)
THEOREM ParsingTerminates == Spec => EachStepGetsOn
<1>1. Init => IInv /\ Reached
  BY InitInvariant, ReachedStart, StreamsAssumption DEF Init, Start
<1>2. IInv /\ Reached /\ [Next]_vars => IInv' /\ Reached'
  BY StepInvariant, ReachedStep DEF IInv
<1>3. IInv /\ Reached /\ IInv' /\ Reached' /\ [Next]_vars
        => [Left' < Left /\ {Left, Left'} \subseteq Nat]_vars
  BY StepLowers, LeftIsNat, LeftIsNatNext DEF IInv
<1> QED BY <1>1, <1>2, <1>3, PTL DEF Spec, EachStepGetsOn

-----------------------------------------------------------------------------
(* All of it, of any call of parse() that starts as Start says.            *)

CallState == IInv /\ WordsState /\ DeathState /\ Reached

LEMMA CallStart == Start => CallState
<1>1. SUFFICES ASSUME Start PROVE CallState
  OBVIOUS
<1>2. WordsState
  BY <1>1 DEF Start, WordsState, CategoryWords, MergedCategory
<1> QED BY <1>1, <1>2, StartInvariant, DeathInit, ReachedStart DEF CallState

LEMMA CallStep == CallState /\ [Next]_vars => CallState'
BY StepInvariant, WordsStep, DeathStep, ReachedStep DEF CallState, IInv

LEMMA CallLeft == CallState => Left \in Nat
BY LeftIsNat DEF CallState, IInv

LEMMA CallLowers == CallState /\ Next => [Left' < Left]_vars
BY StepLowers DEF CallState, IInv

LEMMA CallPromises ==
  ASSUME CallState
  PROVE  /\ BacktrackingRestoresCursor /\ NoReadPastEnd /\ CursorInBounds
         /\ OneNameLookedUp /\ RejectedAtFirstToken
         /\ MergedCategory /\ DeathsExplained
<1>1. BacktrackingRestoresCursor /\ OneNameLookedUp
  BY BacktrackingIs, OneNameIs DEF CallState
<1>2. NoReadPastEnd
  BY ReadsStayInside DEF CallState, IInv
<1>3. CursorInBounds
  BY CursorIs DEF CallState
<1>4. RejectedAtFirstToken
  BY DEF CallState, IInv, Verdict
<1>5. MergedCategory /\ DeathsExplained
  BY DEF CallState, WordsState, DeathState, DeathsExplained
<1> QED BY <1>1, <1>2, <1>3, <1>4, <1>5
=============================================================================
