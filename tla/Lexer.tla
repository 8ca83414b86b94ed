-------------------------------- MODULE Lexer --------------------------------
(***************************************************************************)
(* lex() of fe/lex/lex.cpp on one source file.  A step is one pass through *)
(* the switch, one pass through the identifier code behind it, or both     *)
(* ends of the loop; an inner loop that reads to the end of a lexeme is    *)
(* part of the step.  A loop that can never end leads to pc = "hung".      *)
(*                                                                         *)
(* Characters are their own names, but for "nl", "tab", "quote" and "ff",  *)
(* the byte 0xFF.  fgetc's result goes through char c: where char is       *)
(* signed, 0xFF becomes EOF; where it is unsigned, EOF becomes 0xFF.       *)
(***************************************************************************)
EXTENDS Integers, Sequences, FiniteSetsExt

CONSTANTS
  Texts,     \* the source files, sequences of characters
  Keywords,  \* the spellings of the keyword tokens
  Builds,    \* TRUE when ZTD_ASSERT_MESSAGE aborts
  CharSigns  \* TRUE where char is signed

CharTokens == {"(", ")", "{", "}", "[", "]", ";", "*", ":", ",", "=", "+",
               "-", "&", "%"}
Digits     == {"0", "1"}
Suffixes   == {"f", "d"}
Alpha      == {"f", "d", "o", "x", "_"}   \* isalpha(c) or c == '_'
Alnum      == Alpha \cup Digits
Blanks     == {" ", "tab"}
Ignored    == {"#", "!", "ff"}            \* no case of the switch
Chars == CharTokens \cup Alnum \cup Blanks \cup Ignored
           \cup {"nl", "quote", "/", "."}

ASSUME TextsAssumption == /\ Texts \subseteq Seq(Chars)
                          /\ Keywords \subseteq Seq(Alnum)
                          /\ Builds \subseteq BOOLEAN
                          /\ CharSigns \subseteq BOOLEAN

VARIABLES
  text, asserts, signed,   \* chosen at the start, never changed
  pc,
  c,               \* the current character
  next,            \* where fgetc will read
  loc,             \* [line, col]: lineno and column
  toks,            \* the token_vector; from and to are history: the
                   \* characters the token was made of
  ids, nums, strs  \* the lexed_* vectors

given   == <<text, asserts, signed>>
lexemes == <<ids, nums, strs>>
vars    == <<given, pc, c, next, loc, toks, lexemes>>

NoByte     == IF signed THEN "eof" ELSE "ff"
Char(i)    == IF i \in DOMAIN text /\ text[i] # "ff" THEN text[i] ELSE NoByte
PastEnd    == next - 1 > Len(text)  \* c is what fgetc returns at the end
Halted     == pc \in {"done", "aborted", "hung"}
Goto(p)    == pc' = p

-----------------------------------------------------------------------------
(* The lambda getc: lineno and column after reading up to position q.      *)
CountedColumnsOnly(q) == [loc EXCEPT !.col = @ + q - next + 1]    \* mutant
Counted(q) ==
  LET newlines == {i \in next..q : Char(i) = "nl"}
  IN IF newlines = {} THEN [loc EXCEPT !.col = @ + q - next + 1]
     ELSE [line |-> loc.line + Cardinality(newlines),
           col  |-> Cardinality({i \in next..q : \A j \in newlines : j < i})]

ReadTo(q) == /\ c' = Char(q) /\ next' = q + 1
             /\ loc' = Counted(q)
ReadToKept(q) == ReadTo(q)                                           \* mutant
(* What ungetc gives back is read again, but for EOF, which it refuses.    *)
Ungot(q) == IF Char(q) = "eof" THEN q + 1 ELSE q
(* getc up to q, then ungetc: the character comes again, and counts again. *)
ReadToUnget(q) == /\ c' = Char(q) /\ next' = Ungot(q)
                  /\ loc' = Counted(q)

Token(t, l, from, to) == [id |-> t, line |-> l.line, col |-> l.col,
                          from |-> from, to |-> to]
Push(t, to) == toks' = Append(toks, Token(t, loc, next - 1, to))

Case(S) == pc = "switch" /\ c \in S
EndCase == Goto("identifier")

-----------------------------------------------------------------------------
(* The cases of the switch.                                                *)

Blank == /\ Case(Blanks \cup Ignored \cup Alpha) /\ ~PastEnd
         /\ EndCase
         /\ UNCHANGED <<given, c, next, loc, toks, lexemes>>

CharToken == /\ Case(CharTokens)
             /\ Push(c, next - 1) /\ EndCase
             /\ UNCHANGED <<given, c, next, loc, lexemes>>

Newline == /\ Case({"nl"})
           /\ Push("newline", next - 1) /\ EndCase
           /\ UNCHANGED <<given, c, next, loc, lexemes>>

(* A line comment takes its newline with it.                               *)
LineCommentEndsLate == {i \in (next + 2)..Len(text) : text[i] = "nl"}  \* mutant
LineCommentEnds     == {i \in (next + 1)..Len(text) : text[i] = "nl"}
LineComment ==
  /\ Case({"/"}) /\ Char(next) = "/"
  /\ \/ /\ LineCommentEnds # {}
        /\ LET q == Min(LineCommentEnds)
           IN Push("line_comment", q) /\ ReadTo(q)
        /\ EndCase
     \/ /\ LineCommentEnds = {}
        /\ Goto("hung") /\ UNCHANGED <<c, next, loc, toks>>
  /\ UNCHANGED <<given, lexemes>>

(* getc() == '*' && getc() == '/': the second getc consumes what follows a *)
(* star, a star as well, so that a "/" ends the comment only behind an odd *)
(* number of stars.  Every other character is compared with EOF.           *)
OpensRun(i) == i = next + 1 \/ Char(i - 1) # "*"
BlockCommentEndsAnyStar ==                                           \* mutant
  {q \in (next + 2)..Len(text) : text[q] = "/" /\ Char(q - 1) = "*"}
BlockCommentEnds ==
  {q \in (next + 2)..Len(text) :
     /\ text[q] = "/"
     /\ \E i \in (next + 1)..(q - 1) :
          OpensRun(i) /\ (q - i) % 2 = 1 /\ \A j \in i..(q - 1) : Char(j) = "*"}
EndsSeen == {i \in (next + 1)..(Len(text) + 1) : Char(i) = "eof"}
AbortsBefore(q) == asserts /\ \E i \in EndsSeen : i < q
BlockComment ==
  /\ Case({"/"}) /\ Char(next) = "*"
  /\ \/ /\ BlockCommentEnds # {} /\ ~AbortsBefore(Min(BlockCommentEnds))
        /\ LET q == Min(BlockCommentEnds)
           IN Push("block_comment", q) /\ ReadTo(q)
        /\ EndCase
     \/ /\ BlockCommentEnds # {} => AbortsBefore(Min(BlockCommentEnds))
        /\ Goto(IF asserts /\ EndsSeen # {} THEN "aborted" ELSE "hung")
        /\ UNCHANGED <<c, next, loc, toks>>
  /\ UNCHANGED <<given, lexemes>>

(* A slash that opens no comment falls through into the case of the        *)
(* char-like tokens: the character behind it becomes a token id, whatever  *)
(* it is.  EOF is -1, and so is tok_id.                                    *)
RawTokenUnmapped(ch) == ch                                           \* mutant
RawToken(ch) == IF ch = "eof" THEN "id" ELSE ch
Slash ==
  /\ Case({"/"}) /\ Char(next) \notin {"/", "*"}
  /\ ReadTo(next)
  /\ toks' = toks \o << Token("forward_slash", loc, next - 1, next - 1),
                        Token(RawToken(c'), loc', next, next) >>
  /\ EndCase
  /\ UNCHANGED <<given, lexemes>>

StringEnds == {i \in next..Len(text) : text[i] = "quote"}
StringLiteral ==
  /\ Case({"quote"})
  /\ \/ /\ StringEnds # {}
        /\ LET q == Min(StringEnds)
           IN /\ Push("str_literal", q) /\ ReadTo(q)
              /\ strs' = Append(strs, SubSeq(text, next, q - 1))
        /\ EndCase
     \/ /\ StringEnds = {}
        /\ Push("str_literal", Len(text)) /\ Goto("hung")
        /\ UNCHANGED <<c, next, loc, strs>>
  /\ UNCHANGED <<given, ids, nums>>

NumberEnd == Min({i \in next..(Len(text) + 1) : Char(i) \notin Digits \cup {"."}})
NumberLiteral ==
  /\ Case(Digits \cup {"."})
  /\ LET q == NumberEnd IN
     \/ /\ Char(q) \in Suffixes
        /\ Push("num_literal", q) /\ ReadTo(q)
        /\ nums' = Append(nums, SubSeq(text, next - 1, q))
     \/ /\ Char(q) \notin Suffixes
        /\ Push("num_literal", q - 1) /\ ReadToUnget(q)
        /\ nums' = Append(nums, SubSeq(text, next - 1, q - 1))
  /\ EndCase
  /\ UNCHANGED <<given, ids, strs>>

-----------------------------------------------------------------------------
(* Behind the switch: the identifier code looks at c again, whatever the   *)
(* case has left in it; then getc() ends the iteration.                    *)

IdentifierEnd == Min({i \in next..(Len(text) + 1) : Char(i) \notin Alnum})
ReadAfterStays(q) == c' = Char(q) /\ next' = q /\ UNCHANGED loc      \* mutant
ReadAfterColumnOnly(q) == /\ c' = Char(q) /\ next' = q + 1            \* mutant
                          /\ loc' = [loc EXCEPT !.col = IF Char(q) = "nl" THEN 0
                                                        ELSE @ + 1]
ReadAfter(q) == /\ c' = Char(q) /\ next' = q + 1
                /\ loc' = [line |-> loc.line + (IF Char(q) = "nl" THEN 1 ELSE 0),
                           col  |-> IF Char(q) = "nl" THEN 0 ELSE loc.col + 1]

SpellingFromNext(q) == SubSeq(text, next, q - 1)                     \* mutant
Spelling(q) == <<c>> \o SubSeq(text, next, q - 1)

StoreAlways(s) == ids' = Append(ids, s)                              \* mutant
StoreId(s) == \/ s \notin Keywords /\ ids' = Append(ids, s)
              \/ s \in Keywords /\ UNCHANGED ids

(* The characters of an identifier behind its first one are read with      *)
(* fgetc, which counts no column.                                          *)
Identifier ==
  /\ pc = "identifier" /\ c \in Alpha
  /\ LET q == IdentifierEnd
         s == Spelling(q)
     IN /\ Push(IF s \in Keywords THEN "keyword" ELSE "id", q - 1)
        /\ StoreId(s)
        /\ ReadAfter(Ungot(q))
  /\ Goto("switch")
  /\ UNCHANGED <<given, nums, strs>>

NoIdentifier ==
  /\ pc = "identifier" /\ c \notin Alpha
  /\ ReadAfter(next)
  /\ Goto("switch")
  /\ UNCHANGED <<given, toks, lexemes>>

EndOfFile ==
  /\ Case({"eof"}) /\ Goto("done")
  /\ UNCHANGED <<given, c, next, loc, toks, lexemes>>

(* Where char is unsigned, c is never EOF: the loop reads past the end for *)
(* ever.                                                                   *)
EndUnseen ==
  /\ Case({"ff"}) /\ PastEnd /\ Goto("hung")
  /\ UNCHANGED <<given, c, next, loc, toks, lexemes>>

-----------------------------------------------------------------------------
(* The first character is read with fgetc, which counts nothing.           *)
Init ==
  /\ text \in Texts /\ asserts \in Builds /\ signed \in CharSigns
  /\ pc = "switch"
  /\ c = Char(1) /\ next = 2 /\ loc = [line |-> 0, col |-> 0]
  /\ toks = <<>> /\ ids = <<>> /\ nums = <<>> /\ strs = <<>>

Next ==
  \/ Blank \/ CharToken \/ Newline \/ LineComment \/ BlockComment \/ Slash
  \/ StringLiteral \/ NumberLiteral \/ Identifier \/ NoIdentifier \/ EndOfFile
  \/ EndUnseen

Spec == Init /\ [][Next]_vars

(* lex() runs to completion on its caller's thread.                        *)
FairSpec == Spec /\ WF_vars(Next)
-----------------------------------------------------------------------------
(* Properties.                                                             *)

KeywordOrLexeme == {"id", "keyword", "num_literal", "str_literal"}
TokenIds == Chars \cup KeywordOrLexeme
              \cup {"newline", "line_comment", "block_comment", "forward_slash"}

(* The state of the lexer has its types.                                   *)
TypeOK ==
  /\ text \in Seq(Chars) /\ asserts \in BOOLEAN /\ signed \in BOOLEAN
  /\ pc \in {"switch", "identifier", "done", "aborted", "hung"}
  /\ c \in Chars \cup {"eof"}
  /\ next \in Nat \ {0}
  /\ loc \in [line : Nat, col : Nat]
  /\ toks \in Seq([id : TokenIds, line : Nat, col : Nat, from : Nat, to : Nat])
  /\ ids \in Seq(Seq(Alnum)) /\ nums \in Seq(Seq(Digits \cup Suffixes \cup {"."}))
  /\ strs \in Seq(Seq(Chars))

Written(k)  == SubSeq(text, k.from, k.to)
Named(k)    == k.id = "id" /\ Char(k.from) # "eof"
Number(k)   == k.id = "num_literal"
String(k)   == k.id = "str_literal"
IdTokens     == {k \in DOMAIN toks : Named(toks[k])}
NumberTokens == {k \in DOMAIN toks : Number(toks[k])}
StringTokens == {k \in DOMAIN toks : String(toks[k])}
Rank(S, k)  == Cardinality({j \in S : j <= k})

(* Readers of the lexed_* vectors (dump_tokens_into, the parser) count the *)
(* tokens of a kind to find their lexemes (lex.cpp:36, parse.cpp:46).  The *)
(* counts agree while a file is lexed, but for the token id that a "/"     *)
(* makes of an EOF behind it, and the string literal that never ends; and  *)
(* the lexeme of a number or a string is what is written.                  *)
LexemesMatchTokens ==
  /\ Cardinality(IdTokens) = Len(ids)
  /\ Cardinality(NumberTokens) = Len(nums)
  /\ \/ Cardinality(StringTokens) = Len(strs)
     \/ pc = "hung" /\ Cardinality(StringTokens) = Len(strs) + 1
  /\ \A k \in NumberTokens : nums[Rank(NumberTokens, k)] = Written(toks[k])
  /\ \A k \in StringTokens :
       Rank(StringTokens, k) <= Len(strs) =>
         <<"quote">> \o strs[Rank(StringTokens, k)] \o <<"quote">> = Written(toks[k])

(* Every character but blanks and the ones the switch ignores is in a      *)
(* token once the file is lexed: none is lost between the cases of the     *)
(* switch, the identifier code behind it and the getc() of the loop.  The  *)
(* file is lexed up to its end, or up to a byte 0xFF that is taken for it. *)
NothingLost ==
  pc = "done" =>
    /\ PastEnd \/ text[next - 1] = "ff"
    /\ \A i \in DOMAIN text :
         \/ i >= next - 1
         \/ text[i] \in Blanks \cup Ignored
         \/ \E k \in DOMAIN toks : i \in toks[k].from..toks[k].to

(* Two tokens share a character only behind a number: the identifier code  *)
(* lexes its suffix again, or the character behind it twice; and behind a  *)
(* "/", whose raw token may be the first letter of an identifier.          *)
(* An identifier that shares none is spelled as it is written.             *)
AfterNumberOrSlash(k) == k > 1 /\ toks[k - 1].id \in {"num_literal"} \cup Alpha
IdentifiersSpelledAsWritten ==
  /\ \A k \in 2..Len(toks) : toks[k].from <= toks[k - 1].to => AfterNumberOrSlash(k)
  /\ \A k \in IdTokens :
       ~AfterNumberOrSlash(k) => ids[Rank(IdTokens, k)] = Written(toks[k])
  /\ \A k \in DOMAIN ids : ids[k] \notin Keywords

(* Source locations only go forward, from token to token and up to lineno  *)
(* and column, over every way the lexer reads: getc, fgetc and ungetc.     *)
NotBefore(l, m) == l.line > m.line \/ (l.line = m.line /\ l.col >= m.col)
LocationsNeverGoBack ==
  /\ \A k \in 2..Len(toks) : NotBefore(toks[k], toks[k - 1])
  /\ toks # <<>> => NotBefore(loc, toks[Len(toks)])

(* What the line number of a token is: the newlines up to and including    *)
(* its first character, without one at the very start of the file, and     *)
(* one more for every number before it that stands at the end of its line. *)
NewlinesIn(I)   == Cardinality({i \in I : Char(i) = "nl"})
EndsItsLine(k)  == k.id = "num_literal" /\ Char(k.to) \notin Suffixes
                     /\ Char(k.to + 1) = "nl"
LineNumbersExact ==
  \A k \in DOMAIN toks :
    toks[k].line = NewlinesIn(2..toks[k].from)
                     + Cardinality({j \in 1..(k - 1) : EndsItsLine(toks[j])})

(* The two together: the text accounts for the line of every token, and no *)
(* token has a location before that of an earlier one (lex.cpp:130, 225).  *)
LocationsExact == LocationsNeverGoBack /\ LineNumbersExact

(* Where char is signed, lex() returns on a file that ends in a newline and *)
(* has no string and no block comment in it: no loop but those three waits *)
(* for a character that need not come.  Where it is unsigned, lex() returns *)
(* on no file at all (lex.cpp:143).                                        *)
Closed == /\ text # <<>> => text[Len(text)] = "nl"
          /\ \A i \in DOMAIN text : text[i] # "quote"
          /\ \A i \in DOMAIN text : Char(i) = "/" => Char(i + 1) # "*"
LexingEnds == /\ signed /\ Closed => <>(pc = "done")
              /\ ~signed => <>(pc = "hung")

(* What can keep lex() from returning: where char is signed, a text that   *)
(* is not closed; where it is unsigned it never returns, whatever the text *)
(* (lex.cpp:143, 158, 168, 195).                                           *)
OnlyOpenTextsHang == /\ signed /\ Closed => pc \notin {"hung", "aborted"}
                     /\ ~signed => pc # "done"

(* An upper bound of the steps lex() has left, which every step lowers,    *)
(* whatever ungetc gives back: a text of n characters is lexed, or found   *)
(* to hold a lexeme that does not end, within 2n + 4 steps (lex.cpp:143).  *)
Left == IF Halted THEN 0
        ELSE 2 * (Len(text) + 3 - next) + (IF pc = "switch" THEN 2 ELSE 1)
EachStepReadsOn == [][Left' < Left /\ {Left, Left'} \subseteq Nat]_vars

-----------------------------------------------------------------------------
(* Statements of comments in lex.cpp.                                      *)

(* lex.cpp:129: getc gets the "next character while tracking source        *)
(* location info": lineno counts the newlines in front of a token (a       *)
(* newline itself may count as the start of the next line).                *)
LinesTracked ==
  \A k \in DOMAIN toks :
    toks[k].id # "newline" => toks[k].line = NewlinesIn(1..(toks[k].from - 1))

(* lex.cpp:220: f and d are "numeric literal type suffixes": the suffix of *)
(* a number belongs to the number, and to no identifier.                   *)
SuffixInNumberOnly ==
  \A k \in 2..Len(toks) : toks[k - 1].id = "num_literal"
                             => toks[k].from > toks[k - 1].to
=============================================================================
