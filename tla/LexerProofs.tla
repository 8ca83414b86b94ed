---------------------------- MODULE LexerProofs -----------------------------
(***************************************************************************)
(* What holds of Lexer for all source files, keywords and build options.   *)
(***************************************************************************)
EXTENDS Lexer, MinTheorems, SequenceTheorems

-----------------------------------------------------------------------------
(* Characters.                                                             *)

LEMMA Alphabet ==
  /\ Alnum \subseteq Chars /\ Alpha \subseteq Alnum /\ Digits \cup {"."} \subseteq Chars
  /\ CharTokens \subseteq Chars /\ Suffixes \subseteq Alpha
  /\ Alpha \cap ({"nl", "quote", "/", ".", "eof", "ff", "*"} \cup Digits \cup CharTokens
                   \cup Blanks \cup Ignored) = {}
  /\ Alnum \cap {"nl", "quote", "/", ".", "eof", "ff", "*"} = {}
  /\ (Digits \cup {"."}) \cap {"nl", "quote", "/", "eof", "ff", "*"} = {}
  /\ CharTokens \cap {"nl", "eof", "ff"} = {}
  /\ "eof" \notin Chars /\ "ff" \in Chars /\ "nl" \in Chars
  /\ Chars \cap {"id", "keyword", "num_literal", "str_literal", "newline",
                 "line_comment", "block_comment", "forward_slash"} = {}
BY DEF Alnum, Alpha, Digits, CharTokens, Suffixes, Blanks, Ignored, Chars

LEMMA TextHere ==
  ASSUME TypeOK
  PROVE  /\ text \in Seq(Chars) /\ Len(text) \in Nat /\ DOMAIN text = 1..Len(text)
         /\ \A i \in 1..Len(text) : text[i] \in Chars
BY LenProperties, ElementOfSeq DEF TypeOK

LEMMA CharHere ==
  ASSUME TypeOK, NEW i
  PROVE  /\ Char(i) \in Chars \cup {"eof"}
         /\ Char(i) \notin {"eof", "ff"} => i \in 1..Len(text) /\ text[i] = Char(i)
         /\ i \in 1..Len(text) /\ text[i] # "ff" => Char(i) = text[i]
         /\ Char(i) = "eof" => signed /\ (i \in 1..Len(text) => text[i] = "ff")
BY TextHere, Alphabet DEF Char, NoByte

(* A scan from i for a character that is not in S, where a position behind *)
(* the text stops it.                                                      *)
Scan(i, S) == {j \in i..(Len(text) + 1) : Char(j) \notin S}

LEMMA ScanEnds ==
  ASSUME TypeOK, NEW i \in 1..(Len(text) + 1), NEW S, S \cap {"eof", "ff"} = {}
  PROVE  /\ Min(Scan(i, S)) \in i..(Len(text) + 1) /\ Min(Scan(i, S)) \in Nat
         /\ Char(Min(Scan(i, S))) \notin S
         /\ \A j \in i..(Min(Scan(i, S)) - 1) :
              Char(j) \in S /\ j \in 1..Len(text) /\ text[j] = Char(j)
<1> DEFINE n == Len(text) + 1
<1>1. n \in Nat
  BY TextHere
<1>2. n \notin 1..Len(text)
  BY TextHere
<1>3. Char(n) \in {"eof", "ff"}
  BY <1>2, TextHere DEF Char, NoByte
<1>4. Scan(i, S) \in SUBSET Nat /\ n \in Scan(i, S)
  BY <1>1, <1>3 DEF Scan
<1>5. /\ Min(Scan(i, S)) \in Scan(i, S) /\ Min(Scan(i, S)) \in Nat
      /\ \A j \in Scan(i, S) : Min(Scan(i, S)) <= j
  BY <1>4, MinIsLeast
<1> DEFINE m == Min(Scan(i, S))
<1>6. m \in i..n /\ Char(m) \notin S
  BY <1>5 DEF Scan
<1>7. ASSUME NEW j \in i..(m - 1)
      PROVE  Char(j) \in S /\ j \in 1..Len(text) /\ text[j] = Char(j)
  <2>1. m \in Nat /\ m <= n /\ i \in Nat
    BY <1>1, <1>6
  <2> HIDE DEF m
  <2>2. j \in i..n /\ ~(m <= j)
    BY <1>1, <2>1
  <2>3. Char(j) \in S
    BY <1>5, <2>2 DEF Scan, m
  <2>4. QED
    BY <2>3, CharHere
<1>8. QED
  BY <1>5, <1>6, <1>7

LEMMA NumberEndHere ==
  ASSUME TypeOK, next \in 1..(Len(text) + 1)
  PROVE  /\ NumberEnd \in next..(Len(text) + 1) /\ NumberEnd \in Nat
         /\ Char(NumberEnd) \notin Digits \cup {"."}
         /\ \A j \in next..(NumberEnd - 1) :
              Char(j) \in Digits \cup {"."} /\ j \in 1..Len(text) /\ text[j] = Char(j)
<1>1. NumberEnd = Min(Scan(next, Digits \cup {"."}))
  BY DEF NumberEnd, Scan
<1>2. QED
  BY <1>1, ScanEnds, Alphabet

LEMMA IdentifierEndHere ==
  ASSUME TypeOK, next \in 1..(Len(text) + 1)
  PROVE  /\ IdentifierEnd \in next..(Len(text) + 1) /\ IdentifierEnd \in Nat
         /\ Char(IdentifierEnd) \notin Alnum
         /\ \A j \in next..(IdentifierEnd - 1) :
              Char(j) \in Alnum /\ j \in 1..Len(text) /\ text[j] = Char(j)
<1>1. IdentifierEnd = Min(Scan(next, Alnum))
  BY DEF IdentifierEnd, Scan
<1>2. QED
  BY <1>1, ScanEnds, Alphabet

LEMMA CommentEndsHere ==
  ASSUME TypeOK
  PROVE  /\ LineCommentEnds # {} =>
              /\ Min(LineCommentEnds) \in (next + 1)..Len(text)
              /\ Char(Min(LineCommentEnds)) = "nl"
         /\ BlockCommentEnds # {} =>
              /\ Min(BlockCommentEnds) \in (next + 2)..Len(text)
              /\ Char(Min(BlockCommentEnds)) = "/"
         /\ StringEnds # {} =>
              /\ Min(StringEnds) \in next..Len(text)
              /\ Char(Min(StringEnds)) = "quote" /\ text[Min(StringEnds)] = "quote"
<1>1. next \in Nat /\ Len(text) \in Nat
  BY TextHere DEF TypeOK
<1>2. /\ LineCommentEnds \in SUBSET Nat /\ BlockCommentEnds \in SUBSET Nat
      /\ StringEnds \in SUBSET Nat
  BY <1>1 DEF LineCommentEnds, BlockCommentEnds, StringEnds
<1>3. /\ \A q \in LineCommentEnds : q \in (next + 1)..Len(text) /\ Char(q) = "nl"
      /\ \A q \in BlockCommentEnds : q \in (next + 2)..Len(text) /\ Char(q) = "/"
      /\ \A q \in StringEnds : /\ q \in next..Len(text) /\ Char(q) = "quote"
                               /\ text[q] = "quote"
  <2>1. \A q : q \in 1..Len(text) /\ text[q] \in {"nl", "/", "quote"} => Char(q) = text[q]
    BY CharHere
  <2>2. next >= 1
    BY DEF TypeOK
  <2>3. QED
    BY <1>1, <2>1, <2>2 DEF LineCommentEnds, BlockCommentEnds, StringEnds
<1>4. QED
  BY <1>2, <1>3, MinIsLeast

-----------------------------------------------------------------------------
(* Counting newlines.                                                      *)

LEMMA NewlinesFinite ==
  ASSUME NEW a \in Int, NEW b \in Int
  PROVE  /\ IsFiniteSet({i \in a..b : Char(i) = "nl"})
         /\ NewlinesIn(a..b) \in Nat
         /\ NewlinesIn(a..b) = 0 <=> \A i \in a..b : Char(i) # "nl"
<1> DEFINE S == {i \in a..b : Char(i) = "nl"}
<1>1. IsFiniteSet(S)
  BY FS_Interval, FS_Subset
<1>2. Cardinality(S) \in Nat /\ (Cardinality(S) = 0 <=> S = {})
  BY <1>1, FS_CardinalityType, FS_EmptySet
<1>3. QED
  BY <1>1, <1>2 DEF NewlinesIn

LEMMA CountedHere ==
  ASSUME TypeOK, NEW q \in Nat, q >= next - 1
  PROVE  /\ Counted(q) \in [line : Nat, col : Nat]
         /\ Counted(q).line = loc.line + NewlinesIn(next..q)
         /\ Counted(q).line = loc.line => Counted(q).col >= loc.col
         /\ q = next - 1 => Counted(q) = loc
<1> DEFINE S == {i \in next..q : Char(i) = "nl"}
           T == {i \in next..q : \A j \in S : j < i}
<1>1. next \in Nat /\ next >= 1 /\ loc \in [line : Nat, col : Nat]
  BY DEF TypeOK
<1>2. /\ IsFiniteSet(S) /\ NewlinesIn(next..q) = Cardinality(S)
      /\ NewlinesIn(next..q) \in Nat /\ (Cardinality(S) = 0 <=> S = {})
  <2>1. IsFiniteSet(S)
    BY <1>1, NewlinesFinite
  <2>2. QED
    BY <1>1, <2>1, NewlinesFinite, FS_EmptySet DEF NewlinesIn
<1>3. IsFiniteSet(T) /\ Cardinality(T) \in Nat
  <2>1. T \subseteq next..q
    OBVIOUS
  <2>2. IsFiniteSet(next..q)
    BY <1>1, FS_Interval
  <2> HIDE DEF T
  <2>3. QED
    BY <2>1, <2>2, FS_Subset, FS_CardinalityType
<1>4. Counted(q) = IF S = {} THEN [loc EXCEPT !.col = loc.col + q - next + 1]
                   ELSE [line |-> loc.line + Cardinality(S), col |-> Cardinality(T)]
  BY DEF Counted
<1> HIDE DEF S, T
<1>5. CASE S = {}
  <2>1. Counted(q) = [loc EXCEPT !.col = loc.col + q - next + 1]
    BY <1>4, <1>5
  <2>2. loc.col + q - next + 1 \in Nat /\ loc.col + q - next + 1 >= loc.col
    BY <1>1
  <2>3. NewlinesIn(next..q) = 0
    BY <1>2, <1>5
  <2>4. q = next - 1 => loc.col + q - next + 1 = loc.col
    BY <1>1
  <2> DEFINE k == loc.col + q - next + 1
  <2> HIDE DEF k
  <2>5. Counted(q) = [loc EXCEPT !.col = k] /\ k \in Nat /\ k >= loc.col
    BY <2>1, <2>2 DEF k
  <2>6. /\ Counted(q) \in [line : Nat, col : Nat]
        /\ Counted(q).line = loc.line /\ Counted(q).col = k
    BY <1>1, <2>5
  <2>7. q = next - 1 => Counted(q) = loc
    <3>1. k = loc.col => [loc EXCEPT !.col = k] = loc
      BY <1>1
    <3>2. QED
      BY <2>4, <2>5, <3>1 DEF k
  <2>8. Counted(q).line = loc.line + NewlinesIn(next..q)
    BY <1>1, <2>3, <2>6
  <2>9. QED
    BY <2>5, <2>6, <2>7, <2>8
<1>6. CASE S # {}
  <2>1. Counted(q) = [line |-> loc.line + Cardinality(S), col |-> Cardinality(T)]
    BY <1>4, <1>6
  <2>2. Cardinality(S) \in Nat /\ Cardinality(S) > 0
    BY <1>2, <1>6
  <2>3. q # next - 1
    BY <1>1, <1>6 DEF S
  <2>4. QED
    BY <1>1, <1>2, <1>3, <2>1, <2>2, <2>3
<1>7. QED
  BY <1>5, <1>6

-----------------------------------------------------------------------------
(* Types, and where the current character stands: at next - 1, or at next  *)
(* when a number has just given it back.                                   *)

Tokens == [id : TokenIds, line : Nat, col : Nat, from : Nat, to : Nat]

BehindNumber ==
  /\ c = Char(next) /\ c # "eof"
  /\ toks # <<>> /\ toks[Len(toks)].id = "num_literal"
  /\ Char(next - 1) \in Digits \cup {"."}
Position ==
  /\ next >= 2
  /\ pc = "switch" => c = Char(next - 1)
  /\ pc = "identifier" => c = Char(next - 1) \/ BehindNumber

LEMMA TokenType ==
  ASSUME NEW t \in TokenIds, NEW l \in [line : Nat, col : Nat],
         NEW a \in Nat, NEW b \in Nat
  PROVE  /\ Token(t, l, a, b) \in Tokens
         /\ Token(t, l, a, b).id = t
         /\ Token(t, l, a, b).line = l.line /\ Token(t, l, a, b).col = l.col
         /\ Token(t, l, a, b).from = a /\ Token(t, l, a, b).to = b
BY DEF Token, Tokens

LEMMA PushType ==
  ASSUME TypeOK, Position, NEW t \in TokenIds, NEW to \in Nat, Push(t, to)
  PROVE  /\ toks' \in Seq(Tokens) /\ toks' # <<>>
         /\ Len(toks) \in Nat /\ Len(toks') = Len(toks) + 1
         /\ toks'[Len(toks) + 1].id = t /\ toks'[Len(toks) + 1].to = to
         /\ toks'[Len(toks) + 1].from = next - 1
         /\ toks'[Len(toks) + 1].line = loc.line
         /\ toks'[Len(toks) + 1].col = loc.col
         /\ \A k \in 1..Len(toks) : toks'[k] = toks[k]
<1>1. toks \in Seq(Tokens) /\ loc \in [line : Nat, col : Nat] /\ next - 1 \in Nat
  BY DEF TypeOK, Tokens, Position
<1> DEFINE k == Token(t, loc, next - 1, to)
<1>2. /\ k \in Tokens /\ k.id = t /\ k.to = to /\ k.from = next - 1
      /\ k.line = loc.line /\ k.col = loc.col
  BY <1>1, TokenType
<1>3. toks' = Append(toks, k)
  BY DEF Push
<1> HIDE DEF k
<1>4. /\ toks' \in Seq(Tokens) /\ toks' # <<>> /\ Len(toks') = Len(toks) + 1
      /\ \A i \in 1..Len(toks) : toks'[i] = toks[i]
      /\ toks'[Len(toks) + 1] = k /\ Len(toks) \in Nat
  BY <1>1, <1>2, <1>3, AppendProperties, LenProperties
<1>5. QED
  BY <1>2, <1>4

LEMMA CharBehind ==
  ASSUME UNCHANGED given, NEW q \in Int, c' = Char(q), next' = q + 1
  PROVE  c' = Char(next - 1)'
BY DEF given, Char, NoByte

LEMMA CharKept ==
  ASSUME UNCHANGED <<given, c, next>>
  PROVE  Char(next - 1)' = Char(next - 1)
BY DEF given, Char, NoByte

LEMMA ScanFrom ==
  ASSUME TypeOK, Position, Char(next - 1) \notin {"eof", "ff"}
  PROVE  next \in 2..(Len(text) + 1) /\ text[next - 1] = Char(next - 1)
<1>1. next \in Nat /\ next >= 2 /\ Len(text) \in Nat
  BY TextHere DEF TypeOK, Position
<1>2. next - 1 \in 1..Len(text) /\ text[next - 1] = Char(next - 1)
  BY CharHere
<1>3. QED
  BY <1>1, <1>2

(* Where the number and the identifier codes start to scan.                *)
LEMMA NumberStart ==
  ASSUME TypeOK, Position, Case(Digits \cup {"."})
  PROVE  /\ next \in 2..(Len(text) + 1)
         /\ c = Char(next - 1) /\ text[next - 1] = c /\ c \in Digits \cup {"."}
<1>1. c = Char(next - 1) /\ c \in Digits \cup {"."}
  BY DEF Position, Case
<1>2. c \notin {"eof", "ff"}
  BY <1>1, Alphabet
<1>3. QED
  BY <1>1, <1>2, ScanFrom

LEMMA IdentifierStart ==
  ASSUME TypeOK, Position, pc = "identifier", c \in Alpha
  PROVE  /\ next \in 2..(Len(text) + 1)
         /\ Char(next - 1) \notin {"eof", "ff"}
         /\ c = Char(next - 1) => text[next - 1] = c
<1>1. c = Char(next - 1) \/ BehindNumber
  BY DEF Position
<1>2. Char(next - 1) \notin {"eof", "ff"}
  BY <1>1, Alphabet DEF BehindNumber
<1>3. QED
  BY <1>2, ScanFrom

(* What reading leaves, for getc, fgetc and getc with ungetc.              *)
LEMMA ReadToHere ==
  ASSUME TypeOK, UNCHANGED given, NEW q \in Nat, q >= next, q >= 1, ReadTo(q)
  PROVE  /\ c' \in Chars \cup {"eof"} /\ c' = Char(next - 1)'
         /\ next' = q + 1 /\ loc' \in [line : Nat, col : Nat]
<1>1. c' = Char(q) /\ next' = q + 1 /\ loc' = Counted(q)
  BY DEF ReadTo
<1>2. next \in Nat
  BY DEF TypeOK
<1>3. q >= next - 1
  BY <1>2
<1>4. QED
  BY <1>1, <1>3, CharHere, CharBehind, CountedHere

LEMMA ReadToUngetHere ==
  ASSUME TypeOK, UNCHANGED given, NEW q \in Nat, q >= next, q >= 1, ReadToUnget(q)
  PROVE  /\ c' = Char(q) /\ c' \in Chars \cup {"eof"}
         /\ \/ Char(q) = "eof" /\ next' = q + 1 /\ c' = Char(next - 1)'
            \/ Char(q) # "eof" /\ next' = q
         /\ loc' \in [line : Nat, col : Nat]
<1>1. c' = Char(q) /\ next' = Ungot(q) /\ loc' = Counted(q)
  BY DEF ReadToUnget
<1>2. next \in Nat
  BY DEF TypeOK
<1>3. q >= next - 1
  BY <1>2
<1>4. \/ Char(q) = "eof" /\ next' = q + 1
      \/ Char(q) # "eof" /\ next' = q
  BY <1>1 DEF Ungot
<1>5. QED
  BY <1>1, <1>3, <1>4, CharHere, CharBehind, CountedHere

LEMMA ReadAfterHere ==
  ASSUME TypeOK, UNCHANGED given, NEW q \in Nat, q >= next, q >= 1, ReadAfter(q)
  PROVE  /\ c' \in Chars \cup {"eof"} /\ c' = Char(next - 1)'
         /\ next' = q + 1 /\ loc' \in [line : Nat, col : Nat]
<1>1. c' = Char(q) /\ next' = q + 1
  BY DEF ReadAfter
<1>2. loc.line \in Nat /\ loc.col \in Nat
  BY DEF TypeOK
<1>3. loc' \in [line : Nat, col : Nat]
  BY <1>2 DEF ReadAfter
<1>4. QED
  BY <1>1, <1>3, CharHere, CharBehind

LEMMA SimpleTypes ==
  ASSUME TypeOK, Position,
         Blank \/ CharToken \/ Newline \/ EndOfFile \/ EndUnseen
  PROVE  TypeOK' /\ Position'
<1>1. CASE Blank
  BY <1>1, CharKept DEF Blank, EndCase, Goto, Case, given, lexemes, TypeOK, Position
<1>2. CASE CharToken \/ Newline
  <2>1. PICK t \in {c, "newline"} : /\ Push(t, next - 1) /\ t \in TokenIds
                                    /\ c \in CharTokens \cup {"nl"} /\ Case({c})
    BY <1>2, Alphabet DEF CharToken, Newline, TokenIds, Case
  <2>2. next - 1 \in Nat
    BY DEF TypeOK
  <2>3. toks' \in Seq(Tokens)
    BY <2>1, <2>2, PushType
  <2>4. UNCHANGED <<given, c, next, loc, lexemes>> /\ pc' = "identifier"
    BY <1>2 DEF CharToken, Newline, EndCase, Goto
  <2>5. c = Char(next - 1)
    BY <2>1 DEF Position, Case
  <2>6. c' = Char(next - 1)'
    BY <2>4, <2>5, CharKept
  <2>7. TypeOK'
    BY <2>3, <2>4 DEF given, lexemes, TypeOK, Tokens
  <2>8. QED
    BY <2>4, <2>6, <2>7 DEF Position
<1>3. CASE EndOfFile \/ EndUnseen
  BY <1>3 DEF EndOfFile, EndUnseen, Goto, Case, given, lexemes, TypeOK, Position
<1>4. QED
  BY <1>1, <1>2, <1>3

LEMMA CommentTypes ==
  ASSUME TypeOK, Position, LineComment \/ BlockComment
  PROVE  TypeOK' /\ Position'
<1>1. next \in Nat /\ next >= 2 /\ Len(text) \in Nat
  BY TextHere DEF TypeOK, Position
<1>2. CASE pc' \in {"hung", "aborted"}
  BY <1>2 DEF LineComment, BlockComment, EndCase, Goto, given, lexemes, TypeOK, Position
<1>3. CASE pc' \notin {"hung", "aborted"}
  <2>1. PICK q \in (next + 1)..Len(text), t \in {"line_comment", "block_comment"} :
             Push(t, q) /\ ReadTo(q)
    <3>1. CASE LineComment
      <4>1. LineCommentEnds # {}
        BY <1>3, <3>1 DEF LineComment, Goto
      <4>2. Push("line_comment", Min(LineCommentEnds)) /\ ReadTo(Min(LineCommentEnds))
        BY <3>1, <4>1 DEF LineComment
      <4>3. QED
        BY <4>1, <4>2, CommentEndsHere
    <3>2. CASE BlockComment
      <4>1. BlockCommentEnds # {} /\ ~AbortsBefore(Min(BlockCommentEnds))
        BY <1>3, <3>2 DEF BlockComment, Goto
      <4>2. Push("block_comment", Min(BlockCommentEnds)) /\ ReadTo(Min(BlockCommentEnds))
        BY <3>2, <4>1 DEF BlockComment
      <4>3. Min(BlockCommentEnds) \in (next + 1)..Len(text)
        BY <1>1, <4>1, CommentEndsHere
      <4>4. QED
        BY <4>2, <4>3
    <3>3. QED
      BY <3>1, <3>2
  <2>2. q \in Nat /\ q >= next /\ q >= 1 /\ t \in TokenIds
    BY <1>1, <2>1 DEF TokenIds
  <2>3. toks' \in Seq(Tokens)
    BY <2>1, <2>2, PushType
  <2>4. UNCHANGED <<given, lexemes>> /\ pc' = "identifier"
    BY <1>3 DEF LineComment, BlockComment, EndCase, Goto
  <2>5. /\ c' \in Chars \cup {"eof"} /\ c' = Char(next - 1)'
        /\ next' = q + 1 /\ loc' \in [line : Nat, col : Nat]
    BY <2>1, <2>2, <2>4, ReadToHere
  <2>6. next' \in Nat \ {0} /\ next' >= 2
    BY <1>1, <2>2, <2>5
  <2>7. TypeOK'
    BY <2>3, <2>4, <2>5, <2>6 DEF given, lexemes, TypeOK, Tokens
  <2>8. QED
    BY <2>4, <2>5, <2>6, <2>7 DEF Position
<1>4. QED
  BY <1>2, <1>3

(* A raw token: what stands behind a slash that opens no comment.          *)
SlashToken == Token("forward_slash", loc, next - 1, next - 1)
Raw        == Token(RawToken(Char(next)), Counted(next), next, next)

LEMMA SlashTokens ==
  ASSUME TypeOK, Position, Slash
  PROVE  /\ toks' = Append(Append(toks, SlashToken), Raw)
         /\ toks \in Seq(Tokens) /\ toks' \in Seq(Tokens) /\ Len(toks) \in Nat
         /\ Append(toks, SlashToken) \in Seq(Tokens) /\ SlashToken \in Tokens /\ Raw \in Tokens
         /\ Len(Append(toks, SlashToken)) = Len(toks) + 1 /\ Len(toks') = Len(toks) + 2
         /\ \A k \in 1..Len(toks) : toks'[k] = toks[k]
         /\ toks'[Len(toks) + 1] = SlashToken /\ toks'[Len(toks) + 2] = Raw
         /\ SlashToken.id = "forward_slash" /\ SlashToken.line = loc.line
         /\ SlashToken.col = loc.col
         /\ SlashToken.from = next - 1 /\ SlashToken.to = next - 1
         /\ Raw.id = RawToken(Char(next)) /\ Raw.line = Counted(next).line
         /\ Raw.col = Counted(next).col /\ Raw.from = next /\ Raw.to = next
         /\ RawToken(Char(next)) \in Chars \cup {"id"}
         /\ RawToken(Char(next)) = "id" => Char(next) = "eof"
         /\ RawToken(Char(next)) # "id" => RawToken(Char(next)) = Char(next)
<1>1. /\ next \in Nat /\ next >= 2 /\ next - 1 \in Nat /\ next >= next - 1
      /\ loc \in [line : Nat, col : Nat] /\ toks \in Seq(Tokens)
  BY DEF TypeOK, Position, Tokens
<1>2. /\ RawToken(Char(next)) \in Chars \cup {"id"}
      /\ RawToken(Char(next)) = "id" => Char(next) = "eof"
      /\ RawToken(Char(next)) # "id" => RawToken(Char(next)) = Char(next)
  BY CharHere, Alphabet DEF RawToken
<1>3. RawToken(Char(next)) \in TokenIds /\ "forward_slash" \in TokenIds
  BY <1>2 DEF TokenIds, KeywordOrLexeme
<1>4. Counted(next) \in [line : Nat, col : Nat]
  BY <1>1, CountedHere
<1>5. /\ SlashToken \in Tokens /\ SlashToken.id = "forward_slash"
      /\ SlashToken.line = loc.line /\ SlashToken.col = loc.col
      /\ SlashToken.from = next - 1 /\ SlashToken.to = next - 1
  BY <1>1, <1>3, TokenType DEF SlashToken
<1>6. /\ Raw \in Tokens /\ Raw.id = RawToken(Char(next))
      /\ Raw.line = Counted(next).line /\ Raw.col = Counted(next).col
      /\ Raw.from = next /\ Raw.to = next
  BY <1>1, <1>3, <1>4, TokenType DEF Raw
<1>7. toks' = toks \o <<SlashToken, Raw>>
  BY DEF Slash, ReadTo, SlashToken, Raw
<1>8. toks' = Append(Append(toks, SlashToken), Raw)
  BY <1>1, <1>5, <1>6, <1>7
<1>9. /\ Append(toks, SlashToken) \in Seq(Tokens)
      /\ Len(Append(toks, SlashToken)) = Len(toks) + 1 /\ Len(toks) \in Nat
      /\ \A k \in 1..Len(toks) : Append(toks, SlashToken)[k] = toks[k]
      /\ Append(toks, SlashToken)[Len(toks) + 1] = SlashToken
  BY <1>1, <1>5, AppendProperties, LenProperties
<1> DEFINE half == Append(toks, SlashToken)
<1> HIDE DEF half
<1>10. /\ toks' \in Seq(Tokens) /\ Len(toks') = Len(half) + 1
       /\ \A k \in 1..Len(half) : toks'[k] = half[k]
       /\ toks'[Len(half) + 1] = Raw
  <2>1. half \in Seq(Tokens) /\ toks' = Append(half, Raw)
    BY <1>8, <1>9 DEF half
  <2>2. QED
    BY <1>6, <2>1, AppendProperties
<1>11. /\ Len(half) = Len(toks) + 1 /\ \A k \in 1..Len(toks) : half[k] = toks[k]
       /\ half[Len(toks) + 1] = SlashToken
  BY <1>9 DEF half
<1>12. /\ Len(toks') = Len(toks) + 2 /\ toks'[Len(toks) + 2] = Raw
       /\ \A k \in 1..Len(toks) : toks'[k] = toks[k]
       /\ toks'[Len(toks) + 1] = SlashToken
  BY <1>9, <1>10, <1>11
<1>13. QED
  BY <1>1, <1>2, <1>5, <1>6, <1>8, <1>9, <1>10, <1>12

LEMMA SlashTypes ==
  ASSUME TypeOK, Position, Slash
  PROVE  TypeOK' /\ Position'
<1>1. next \in Nat /\ next >= 2
  BY DEF TypeOK, Position
<1>2. UNCHANGED <<given, lexemes>> /\ pc' = "identifier" /\ ReadTo(next)
  BY DEF Slash, EndCase, Goto
<1>3. /\ c' \in Chars \cup {"eof"} /\ c' = Char(next - 1)'
      /\ next' = next + 1 /\ loc' \in [line : Nat, col : Nat]
  BY <1>1, <1>2, ReadToHere
<1>4. next' \in Nat \ {0} /\ next' >= 2 /\ toks' \in Seq(Tokens)
  BY <1>1, <1>3, SlashTokens
<1>5. TypeOK'
  BY <1>2, <1>3, <1>4 DEF given, lexemes, TypeOK, Tokens
<1>6. QED
  BY <1>2, <1>3, <1>4, <1>5 DEF Position

LEMMA StringTypes ==
  ASSUME TypeOK, Position, StringLiteral
  PROVE  TypeOK' /\ Position'
<1>1. next \in Nat /\ next >= 2 /\ Len(text) \in Nat /\ "str_literal" \in TokenIds
  BY TextHere DEF TypeOK, Position, TokenIds, KeywordOrLexeme
<1>2. CASE StringEnds # {}
  <2>1. PICK q \in next..Len(text) :
             /\ Push("str_literal", q) /\ ReadTo(q)
             /\ strs' = Append(strs, SubSeq(text, next, q - 1))
    BY <1>2, CommentEndsHere DEF StringLiteral
  <2>2. q \in Nat /\ q >= next /\ q >= 1
    BY <1>1
  <2>3. toks' \in Seq(Tokens)
    BY <1>1, <2>1, <2>2, PushType
  <2>4. UNCHANGED <<given, ids, nums>> /\ pc' = "identifier"
    BY <1>2 DEF StringLiteral, EndCase, Goto
  <2>5. /\ c' \in Chars \cup {"eof"} /\ c' = Char(next - 1)'
        /\ next' = q + 1 /\ loc' \in [line : Nat, col : Nat]
    BY <2>1, <2>2, <2>4, ReadToHere
  <2>6. next' \in Nat \ {0} /\ next' >= 2
    BY <1>1, <2>2, <2>5
  <2>7. strs' \in Seq(Seq(Chars))
    <3>1. \A i \in next..(q - 1) : text[i] \in Chars
      BY <1>1, <2>2, TextHere
    <3>2. SubSeq(text, next, q - 1) \in Seq(Chars)
      BY <1>1, <2>2, <3>1, SubSeqProperties
    <3>3. QED
      BY <2>1, <3>2 DEF TypeOK
  <2>8. TypeOK'
    BY <2>3, <2>4, <2>5, <2>6, <2>7 DEF given, TypeOK, Tokens
  <2>9. QED
    BY <2>4, <2>5, <2>6, <2>8 DEF Position
<1>3. CASE StringEnds = {}
  <2>1. Push("str_literal", Len(text)) /\ pc' = "hung" /\ UNCHANGED <<given, c, next, loc, lexemes>>
    BY <1>3 DEF StringLiteral, Goto, lexemes
  <2>2. toks' \in Seq(Tokens)
    BY <1>1, <2>1, PushType
  <2>3. QED
    BY <2>1, <2>2 DEF given, lexemes, TypeOK, Tokens, Position
<1>4. QED
  BY <1>2, <1>3

(* What a number leaves: with its suffix, and without.                     *)
LEMMA NumberHere ==
  ASSUME TypeOK, Position, NumberLiteral
  PROVE  LET q == NumberEnd IN
         /\ q \in next..(Len(text) + 1) /\ q \in Nat /\ q >= 2 /\ next \in Nat /\ next >= 2
         /\ c = Char(next - 1) /\ text[next - 1] = c /\ c \in Digits \cup {"."}
         /\ \A j \in next..(q - 1) : Char(j) \in Digits \cup {"."} /\ text[j] = Char(j)
         /\ UNCHANGED <<given, ids, strs>> /\ pc = "switch" /\ pc' = "identifier"
         /\ \/ /\ Char(q) \in Suffixes /\ text[q] = Char(q)
               /\ Push("num_literal", q) /\ ReadTo(q)
               /\ nums' = Append(nums, SubSeq(text, next - 1, q))
            \/ /\ Char(q) \notin Suffixes
               /\ Push("num_literal", q - 1) /\ ReadToUnget(q)
               /\ nums' = Append(nums, SubSeq(text, next - 1, q - 1))
<1>1. /\ next \in 2..(Len(text) + 1) /\ Case(Digits \cup {"."})
      /\ c = Char(next - 1) /\ text[next - 1] = c /\ c \in Digits \cup {"."}
  BY NumberStart DEF NumberLiteral
<1>2. /\ NumberEnd \in next..(Len(text) + 1) /\ NumberEnd \in Nat
      /\ \A j \in next..(NumberEnd - 1) : Char(j) \in Digits \cup {"."} /\ text[j] = Char(j)
  <2>1. next \in 1..(Len(text) + 1)
    BY <1>1, TextHere
  <2>2. QED
    BY <2>1, NumberEndHere
<1>3. NumberEnd >= 2 /\ next \in Nat /\ next >= 2
  BY <1>1, <1>2, TextHere
<1>4. UNCHANGED <<given, ids, strs>> /\ pc = "switch" /\ pc' = "identifier"
  BY DEF NumberLiteral, EndCase, Goto, Case
<1>5. Char(NumberEnd) \in Suffixes => text[NumberEnd] = Char(NumberEnd)
  BY CharHere, Alphabet
<1>6. QED
  BY <1>1, <1>2, <1>3, <1>4, <1>5 DEF NumberLiteral

LEMMA NumberTypes ==
  ASSUME TypeOK, Position, NumberLiteral
  PROVE  TypeOK' /\ Position'
<1> DEFINE q == NumberEnd
           A == Digits \cup Suffixes \cup {"."}
<1>1. /\ q \in next..(Len(text) + 1) /\ q \in Nat /\ q >= 2 /\ next \in Nat /\ next >= 2
      /\ text[next - 1] \in Digits \cup {"."} /\ c = Char(next - 1) /\ c \in Digits \cup {"."}
      /\ \A j \in next..(q - 1) : Char(j) \in Digits \cup {"."} /\ text[j] = Char(j)
      /\ UNCHANGED <<given, ids, strs>> /\ pc' = "identifier"
  BY NumberHere
<1>2. \/ /\ text[q] \in Suffixes
         /\ Push("num_literal", q) /\ ReadTo(q)
         /\ nums' = Append(nums, SubSeq(text, next - 1, q))
      \/ /\ Push("num_literal", q - 1) /\ ReadToUnget(q)
         /\ nums' = Append(nums, SubSeq(text, next - 1, q - 1))
  BY NumberHere
<1> HIDE DEF q
<1>3. q >= next /\ q >= 1 /\ q - 1 \in Nat /\ "num_literal" \in TokenIds
  BY <1>1 DEF TokenIds, KeywordOrLexeme
<1>4. \A j \in (next - 1)..(q - 1) : text[j] \in A
  <2>1. \A j \in (next - 1)..(q - 1) : j = next - 1 \/ j \in next..(q - 1)
    BY <1>1
  <2>2. QED
    BY <1>1, <2>1
<1>5. CASE /\ text[q] \in Suffixes
           /\ Push("num_literal", q) /\ ReadTo(q)
           /\ nums' = Append(nums, SubSeq(text, next - 1, q))
  <2>1. toks' \in Seq(Tokens)
    BY <1>1, <1>3, <1>5, PushType
  <2>2. /\ c' \in Chars \cup {"eof"} /\ c' = Char(next - 1)'
        /\ next' = q + 1 /\ loc' \in [line : Nat, col : Nat]
    BY <1>1, <1>3, <1>5, ReadToHere
  <2>3. nums' \in Seq(Seq(A))
    <3>1. \A j \in (next - 1)..q : j = q \/ j \in (next - 1)..(q - 1)
      BY <1>1
    <3>2. \A j \in (next - 1)..q : text[j] \in A
      BY <1>4, <1>5, <3>1
    <3>3. SubSeq(text, next - 1, q) \in Seq(A)
      <4>1. next - 1 \in Int /\ q \in Int
        BY <1>1
      <4>2. QED
        BY <3>2, <4>1, SubSeqProperties
    <3>4. QED
      BY <1>5, <3>3 DEF TypeOK
  <2>4. TypeOK'
    BY <1>1, <2>1, <2>2, <2>3 DEF given, TypeOK, Tokens
  <2>5. QED
    BY <1>1, <2>2, <2>4 DEF Position
<1>6. CASE /\ Push("num_literal", q - 1) /\ ReadToUnget(q)
           /\ nums' = Append(nums, SubSeq(text, next - 1, q - 1))
  <2>1. /\ toks' \in Seq(Tokens) /\ toks' # <<>>
        /\ toks'[Len(toks')].id = "num_literal"
    BY <1>1, <1>3, <1>6, PushType
  <2>2. /\ c' = Char(q) /\ c' \in Chars \cup {"eof"}
        /\ \/ Char(q) = "eof" /\ next' = q + 1 /\ c' = Char(next - 1)'
           \/ Char(q) # "eof" /\ next' = q
        /\ loc' \in [line : Nat, col : Nat]
    BY <1>1, <1>3, <1>6, ReadToUngetHere
  <2>3. nums' \in Seq(Seq(A))
    <3>1. SubSeq(text, next - 1, q - 1) \in Seq(A)
      <4>1. next - 1 \in Int /\ q - 1 \in Int
        BY <1>1
      <4>2. QED
        BY <1>4, <4>1, SubSeqProperties
    <3>2. QED
      BY <1>6, <3>1 DEF TypeOK
  <2>4. next' \in Nat \ {0} /\ next' >= 2
    BY <1>1, <2>2
  <2>5. TypeOK'
    BY <1>1, <2>1, <2>2, <2>3, <2>4 DEF given, TypeOK, Tokens
  <2>6. c' = Char(next - 1)' \/ BehindNumber'
    <3>1. Char(q - 1) \in Digits \cup {"."}
      <4>1. q - 1 = next - 1 \/ q - 1 \in next..(q - 1)
        BY <1>1
      <4>2. QED
        BY <1>1, <4>1
    <3>2. CASE Char(q) # "eof"
      <4>1. Char(next)' = Char(q) /\ Char(next - 1)' = Char(q - 1)
        BY <1>1, <2>2, <3>2 DEF given, Char, NoByte
      <4>2. QED
        BY <2>1, <2>2, <3>1, <3>2, <4>1 DEF BehindNumber
    <3>3. QED
      BY <2>2, <3>2
  <2>7. QED
    BY <1>1, <2>4, <2>5, <2>6 DEF Position
<1>7. QED
  BY <1>2, <1>5, <1>6

(* What an identifier leaves.                                              *)
LEMMA IdentifierHere ==
  ASSUME TypeOK, Position, Identifier
  PROVE  LET q == IdentifierEnd IN
         /\ q \in next..(Len(text) + 1) /\ q \in Nat /\ q >= 2 /\ next \in Nat /\ next >= 2
         /\ pc = "identifier" /\ pc' = "switch" /\ c \in Alpha
         /\ Char(next - 1) \notin {"eof", "ff"}
         /\ c = Char(next - 1) => text[next - 1] = c
         /\ Char(q) \notin Alnum
         /\ \A j \in next..(q - 1) : Char(j) \in Alnum /\ text[j] = Char(j)
         /\ Ungot(q) \in Nat /\ Ungot(q) >= q
         /\ Ungot(q) = q \/ (Ungot(q) = q + 1 /\ Char(q) = "eof")
         /\ Push(IF Spelling(q) \in Keywords THEN "keyword" ELSE "id", q - 1)
         /\ StoreId(Spelling(q)) /\ ReadAfter(Ungot(q))
         /\ UNCHANGED <<given, nums, strs>>
<1>1. /\ next \in 2..(Len(text) + 1) /\ Char(next - 1) \notin {"eof", "ff"}
      /\ c = Char(next - 1) => text[next - 1] = c
      /\ pc = "identifier" /\ c \in Alpha
  BY IdentifierStart DEF Identifier
<1>2. /\ IdentifierEnd \in next..(Len(text) + 1) /\ IdentifierEnd \in Nat
      /\ Char(IdentifierEnd) \notin Alnum
      /\ \A j \in next..(IdentifierEnd - 1) : Char(j) \in Alnum /\ text[j] = Char(j)
  <2>1. next \in 1..(Len(text) + 1)
    BY <1>1, TextHere
  <2>2. QED
    BY <2>1, IdentifierEndHere
<1>3. IdentifierEnd >= 2 /\ next \in Nat /\ next >= 2
  BY <1>1, <1>2, TextHere
<1>4. /\ Ungot(IdentifierEnd) \in Nat /\ Ungot(IdentifierEnd) >= IdentifierEnd
      /\ \/ Ungot(IdentifierEnd) = IdentifierEnd
         \/ Ungot(IdentifierEnd) = IdentifierEnd + 1 /\ Char(IdentifierEnd) = "eof"
  BY <1>2 DEF Ungot
<1>5. QED
  BY <1>1, <1>2, <1>3, <1>4 DEF Identifier, Goto

LEMMA IdentifierTypes ==
  ASSUME TypeOK, Position, Identifier \/ NoIdentifier
  PROVE  TypeOK' /\ Position'
<1>1. next \in Nat /\ next >= 2 /\ {"id", "keyword"} \subseteq TokenIds
  BY DEF TypeOK, Position, TokenIds, KeywordOrLexeme
<1>2. CASE Identifier
  <2> DEFINE q == IdentifierEnd
             s == Spelling(q)
  <2>1. /\ q \in Nat /\ q >= next /\ q - 1 \in Nat /\ c \in Alpha
        /\ \A j \in next..(q - 1) : text[j] \in Alnum
        /\ Ungot(q) \in Nat /\ Ungot(q) >= next /\ Ungot(q) >= 1
        /\ Push(IF s \in Keywords THEN "keyword" ELSE "id", q - 1)
        /\ StoreId(s) /\ ReadAfter(Ungot(q))
        /\ UNCHANGED <<given, nums, strs>> /\ pc' = "switch"
    BY <1>1, <1>2, IdentifierHere
  <2> HIDE DEF q
  <2>2. s \in Seq(Alnum)
    <3>1. SubSeq(text, next, q - 1) \in Seq(Alnum)
      <4>1. next \in Int /\ q - 1 \in Int
        BY <1>1, <2>1
      <4>2. QED
        BY <2>1, <4>1, SubSeqProperties
    <3>2. <<c>> \in Seq(Alnum)
      BY <2>1, Alphabet
    <3>3. QED
      BY <3>1, <3>2, ConcatProperties DEF Spelling
  <2>3. ids' \in Seq(Seq(Alnum))
    <3>1. ids \in Seq(Seq(Alnum))
      BY DEF TypeOK
    <3>2. QED
      BY <2>1, <2>2, <3>1, AppendProperties, SMTT(30) DEF StoreId
  <2>4. toks' \in Seq(Tokens)
    BY <1>1, <2>1, PushType
  <2>5. /\ c' \in Chars \cup {"eof"} /\ c' = Char(next - 1)'
        /\ next' = Ungot(q) + 1 /\ loc' \in [line : Nat, col : Nat]
    BY <2>1, ReadAfterHere
  <2>6. next' \in Nat \ {0} /\ next' >= 2
    BY <1>1, <2>1, <2>5
  <2>7. TypeOK'
    BY <2>1, <2>3, <2>4, <2>5, <2>6 DEF given, TypeOK, Tokens
  <2>8. QED
    BY <2>1, <2>5, <2>6, <2>7 DEF Position
<1>3. CASE NoIdentifier
  <2>1. ReadAfter(next) /\ UNCHANGED <<given, toks, lexemes>> /\ pc' = "switch"
    BY <1>3 DEF NoIdentifier, Goto
  <2>2. /\ c' \in Chars \cup {"eof"} /\ c' = Char(next - 1)'
        /\ next' = next + 1 /\ loc' \in [line : Nat, col : Nat]
    BY <1>1, <2>1, ReadAfterHere
  <2>3. next' \in Nat \ {0} /\ next' >= 2
    BY <1>1, <2>2
  <2>4. TypeOK'
    BY <2>1, <2>2, <2>3 DEF given, lexemes, TypeOK
  <2>5. QED
    BY <2>1, <2>2, <2>3, <2>4 DEF Position
<1>4. QED
  BY <1>2, <1>3

Typed == TypeOK /\ Position

(* What lex() starts from, on any text.                                    *)
Start ==
  /\ text \in Seq(Chars) /\ asserts \in BOOLEAN /\ signed \in BOOLEAN
  /\ pc = "switch" /\ c = Char(1) /\ next = 2 /\ loc = [line |-> 0, col |-> 0]
  /\ toks = <<>> /\ ids = <<>> /\ nums = <<>> /\ strs = <<>>

LEMMA TypedStart == Start => Typed
<1>1. SUFFICES ASSUME Start PROVE Typed
  OBVIOUS
<1>2. Char(1) \in Chars \cup {"eof"}
  <2>1. \A i \in DOMAIN text : text[i] \in Chars
    BY <1>1, LenProperties, ElementOfSeq DEF Start
  <2>2. QED
    BY <2>1, Alphabet DEF Char, NoByte
<1>3. QED
  BY <1>1, <1>2 DEF Start, Typed, TypeOK, Position

LEMMA InitStart == Init => Start
BY TextsAssumption DEF Init, Start

LEMMA TypedInit == Init => Typed
BY InitStart, TypedStart

LEMMA TypedStep ==
  ASSUME Typed, [Next]_vars
  PROVE  Typed'
<1>1. TypeOK /\ Position
  BY DEF Typed
<1>2. CASE UNCHANGED vars
  <2>1. UNCHANGED <<given, c, next, pc, loc, toks, ids, nums, strs>>
    BY <1>2 DEF vars, lexemes
  <2>2. TypeOK'
    BY <1>1, <2>1 DEF given, TypeOK
  <2>3. Char(next - 1)' = Char(next - 1) /\ Char(next)' = Char(next)
    BY <2>1 DEF given, Char, NoByte
  <2>4. QED
    BY <1>1, <2>1, <2>2, <2>3 DEF Typed, Position, BehindNumber
<1>3. CASE Next
  BY <1>1, <1>3, SimpleTypes, CommentTypes, SlashTypes, StringTypes, NumberTypes,
     IdentifierTypes DEF Next, Typed
<1>4. QED
  BY <1>2, <1>3

(* The state of the lexer keeps its types: identifiers are made of         *)
(* alphanumeric characters, numbers of digits, points and a suffix.        *)
THEOREM TypeCorrect == Spec => []TypeOK
<1>1. Init => Typed
  BY TypedInit
<1>2. Typed /\ [Next]_vars => Typed'
  BY TypedStep
<1>3. Typed => TypeOK
  BY DEF Typed
<1>4. QED
  BY <1>1, <1>2, <1>3, PTL DEF Spec

LEMMA TypedAlways == Spec => []Typed
<1>1. Init => Typed
  BY TypedInit
<1>2. Typed /\ [Next]_vars => Typed'
  BY TypedStep
<1>3. QED
  BY <1>1, <1>2, PTL DEF Spec

-----------------------------------------------------------------------------
(* What every step does: it pushes no token, one, or a slash and what is   *)
(* behind it; and it reads forward.                                        *)

LEMMA StepTokens ==
  ASSUME Typed, Next
  PROVE  UNCHANGED toks \/ (\E t \in TokenIds, to \in Nat : Push(t, to)) \/ Slash
<1>1. TypeOK /\ Position
  BY DEF Typed
<1>2. next - 1 \in Nat /\ next \in Nat /\ Len(text) \in Nat
  BY <1>1, TextHere DEF TypeOK
<1>3. KeywordOrLexeme \cup {"newline", "line_comment", "block_comment"} \subseteq TokenIds
  BY DEF TokenIds
<1>4. CASE CharToken \/ Newline
  BY <1>2, <1>3, <1>4, Alphabet DEF CharToken, Newline, Case, TokenIds
<1>5. CASE LineComment
  <2>1. LineCommentEnds # {} => Min(LineCommentEnds) \in Nat
    BY <1>1, <1>2, CommentEndsHere
  <2>2. QED
    BY <1>3, <1>5, <2>1 DEF LineComment
<1>6. CASE BlockComment
  <2>1. BlockCommentEnds # {} => Min(BlockCommentEnds) \in Nat
    BY <1>1, <1>2, CommentEndsHere
  <2>2. QED
    BY <1>3, <1>6, <2>1 DEF BlockComment
<1>7. CASE StringLiteral
  <2>1. StringEnds # {} => Min(StringEnds) \in Nat
    BY <1>1, <1>2, CommentEndsHere
  <2>2. QED
    BY <1>2, <1>3, <1>7, <2>1 DEF StringLiteral, KeywordOrLexeme
<1>8. CASE NumberLiteral
  <2>1. NumberEnd \in Nat /\ NumberEnd >= 2
    BY <1>1, <1>8, NumberHere
  <2>2. NumberEnd - 1 \in Nat
    BY <2>1
  <2>3. QED
    BY <1>3, <1>8, <2>1, <2>2 DEF NumberLiteral, KeywordOrLexeme
<1>9. CASE Identifier
  <2>1. IdentifierEnd \in Nat /\ IdentifierEnd >= 2
    BY <1>1, <1>9, IdentifierHere
  <2>2. IdentifierEnd - 1 \in Nat
    BY <2>1
  <2>3. PICK t \in {"id", "keyword"} : Push(t, IdentifierEnd - 1)
    BY <1>1, <1>9, IdentifierHere
  <2>4. QED
    BY <1>3, <2>2, <2>3 DEF KeywordOrLexeme
<1>10. CASE Blank \/ NoIdentifier \/ EndOfFile \/ EndUnseen \/ Slash
  BY <1>10 DEF Blank, NoIdentifier, EndOfFile, EndUnseen
<1>11. QED
  BY <1>4, <1>5, <1>6, <1>7, <1>8, <1>9, <1>10 DEF Next

LEMMA CountedForward ==
  ASSUME TypeOK, NEW q \in Nat, q >= next - 1
  PROVE  NotBefore(Counted(q), loc)
<1>1. next \in Int /\ q \in Int /\ loc.line \in Nat /\ loc.col \in Nat
  BY DEF TypeOK
<1>2. NewlinesIn(next..q) \in Nat
  BY <1>1, NewlinesFinite
<1>3. /\ Counted(q).line = loc.line + NewlinesIn(next..q)
      /\ Counted(q).line = loc.line => Counted(q).col >= loc.col
  BY CountedHere
<1>4. QED
  BY <1>1, <1>2, <1>3 DEF NotBefore

LEMMA StepForward ==
  ASSUME Typed, Next
  PROVE  NotBefore(loc', loc)
<1>1. TypeOK /\ Position /\ next \in Nat /\ next >= 2
  BY DEF Typed, TypeOK, Position
<1>2. loc.line \in Nat /\ loc.col \in Nat
  BY <1>1 DEF TypeOK
<1>3. \A q \in Nat : q >= next => NotBefore(Counted(q), loc)
  BY <1>1, CountedForward
<1>4. CASE UNCHANGED loc
  BY <1>2, <1>4 DEF NotBefore
<1>5. CASE \E q \in Nat : ReadAfter(q)
  BY <1>2, <1>5 DEF ReadAfter, NotBefore
<1>6. CASE \E q \in Nat : q >= next /\ loc' = Counted(q)
  BY <1>3, <1>6
<1>7. CASE Blank \/ CharToken \/ Newline \/ EndOfFile \/ EndUnseen
  BY <1>4, <1>7 DEF Blank, CharToken, Newline, EndOfFile, EndUnseen
<1>8. CASE LineComment
  <2>1. LineCommentEnds # {} =>
          Min(LineCommentEnds) \in Nat /\ Min(LineCommentEnds) >= next
    BY <1>1, TextHere, CommentEndsHere
  <2>2. QED
    BY <1>4, <1>6, <1>8, <2>1 DEF LineComment, ReadTo
<1>9. CASE BlockComment
  <2>1. BlockCommentEnds # {} =>
          Min(BlockCommentEnds) \in Nat /\ Min(BlockCommentEnds) >= next
    BY <1>1, TextHere, CommentEndsHere
  <2>2. QED
    BY <1>4, <1>6, <1>9, <2>1 DEF BlockComment, ReadTo
<1>10. CASE StringLiteral
  <2>1. StringEnds # {} => Min(StringEnds) \in Nat /\ Min(StringEnds) >= next
    BY <1>1, TextHere, CommentEndsHere
  <2>2. QED
    BY <1>4, <1>6, <1>10, <2>1 DEF StringLiteral, ReadTo
<1>11. CASE NumberLiteral
  <2>1. NumberEnd \in Nat /\ NumberEnd >= next
    BY <1>1, <1>11, NumberHere
  <2>2. QED
    BY <1>6, <1>11, <2>1 DEF NumberLiteral, ReadTo, ReadToUnget
<1>12. CASE Slash
  BY <1>1, <1>6, <1>12 DEF Slash, ReadTo
<1>13. CASE Identifier
  BY <1>1, <1>5, <1>13, IdentifierHere
<1>14. CASE NoIdentifier
  BY <1>1, <1>5, <1>14 DEF NoIdentifier
<1>15. QED
  BY <1>7, <1>8, <1>9, <1>10, <1>11, <1>12, <1>13, <1>14 DEF Next

-----------------------------------------------------------------------------
(* Locations go forward.                                                   *)

LEMMA LocationsStep ==
  ASSUME Typed, LocationsNeverGoBack, [Next]_vars, Typed'
  PROVE  LocationsNeverGoBack'
<1>1. /\ TypeOK /\ Position /\ toks \in Seq(Tokens) /\ Len(toks) \in Nat
      /\ loc \in [line : Nat, col : Nat] /\ loc' \in [line : Nat, col : Nat]
      /\ \A k \in 1..Len(toks) : toks[k] \in Tokens
      /\ toks = <<>> <=> Len(toks) = 0
  <2>1. TypeOK /\ Position /\ loc' \in [line : Nat, col : Nat] /\ toks \in Seq(Tokens)
    BY DEF Typed, TypeOK, Tokens
  <2>2. QED
    BY <2>1, LenProperties, ElementOfSeq, EmptySeq DEF TypeOK
<1>2. CASE UNCHANGED vars
  BY <1>2 DEF vars, LocationsNeverGoBack
<1>3. CASE Next
  <2>1. NotBefore(loc', loc)
    BY <1>3, StepForward
  <2>2. CASE UNCHANGED toks
    <3>1. ASSUME toks # <<>> PROVE NotBefore(loc', toks[Len(toks)])
      <4>1. NotBefore(loc, toks[Len(toks)]) /\ toks[Len(toks)] \in Tokens
        BY <1>1, <3>1 DEF LocationsNeverGoBack
      <4>2. QED
        BY <1>1, <2>1, <4>1 DEF NotBefore, Tokens
    <3>2. QED
      BY <2>2, <3>1 DEF LocationsNeverGoBack
  <2>3. CASE \E t \in TokenIds, to \in Nat : Push(t, to)
    <3>1. PICK t \in TokenIds, to \in Nat : Push(t, to)
      BY <2>3
    <3> DEFINE n == Len(toks)
    <3>2. /\ Len(toks') = n + 1 /\ \A k \in 1..n : toks'[k] = toks[k]
          /\ toks'[n + 1].line = loc.line /\ toks'[n + 1].col = loc.col
      BY <1>1, <3>1, PushType
    <3>3. n > 0 => NotBefore(loc, toks[n])
      BY <1>1 DEF LocationsNeverGoBack
    <3>4. ASSUME NEW k \in 2..(n + 1)
          PROVE  NotBefore(toks'[k], toks'[k - 1])
      <4>1. CASE k = n + 1
        <5>1. NotBefore(loc, toks'[n])
          BY <1>1, <3>2, <3>3, <4>1
        <5>2. QED
          BY <1>1, <3>2, <4>1, <5>1 DEF NotBefore
      <4>2. CASE k # n + 1
        <5>1. k \in 2..n /\ k \in 1..n /\ k - 1 \in 1..n
          BY <1>1, <4>2
        <5>2. QED
          BY <3>2, <5>1 DEF LocationsNeverGoBack
      <4>3. QED
        BY <4>1, <4>2
    <3>5. NotBefore(loc', toks'[n + 1])
      BY <2>1, <3>2 DEF NotBefore
    <3>6. QED
      BY <3>2, <3>4, <3>5 DEF LocationsNeverGoBack
  <2>4. CASE Slash
    <3> DEFINE n == Len(toks)
    <3>1. /\ Len(toks') = n + 2 /\ \A k \in 1..n : toks'[k] = toks[k]
          /\ toks'[n + 1] = SlashToken /\ toks'[n + 2] = Raw
          /\ SlashToken.line = loc.line /\ SlashToken.col = loc.col
          /\ Raw.line = loc'.line /\ Raw.col = loc'.col
      BY <1>1, <2>4, SlashTokens DEF Slash, ReadTo
    <3>2. n > 0 => NotBefore(loc, toks[n])
      BY <1>1 DEF LocationsNeverGoBack
    <3>3. ASSUME NEW k \in 2..(n + 2)
          PROVE  NotBefore(toks'[k], toks'[k - 1])
      <4>1. CASE k = n + 2
        <5>1. NotBefore(Raw, SlashToken)
          BY <2>1, <3>1 DEF NotBefore
        <5>2. k - 1 = n + 1
          BY <1>1, <4>1
        <5>3. QED
          BY <3>1, <4>1, <5>1, <5>2
      <4>2. CASE k = n + 1
        <5>1. n \in 1..n /\ k - 1 = n /\ n > 0
          BY <1>1, <4>2
        <5>2. NotBefore(loc, toks'[n])
          BY <3>1, <3>2, <5>1
        <5>3. NotBefore(SlashToken, toks'[n])
          BY <3>1, <5>2 DEF NotBefore
        <5>4. QED
          BY <3>1, <4>2, <5>1, <5>3
      <4>3. CASE k \notin {n + 1, n + 2}
        <5>1. k \in 2..n /\ k \in 1..n /\ k - 1 \in 1..n
          BY <1>1, <4>3
        <5>2. QED
          BY <3>1, <5>1 DEF LocationsNeverGoBack
      <4>4. QED
        BY <4>1, <4>2, <4>3
    <3>4. NotBefore(loc', toks'[n + 2])
      BY <1>1, <3>1 DEF NotBefore
    <3>5. QED
      BY <3>1, <3>3, <3>4 DEF LocationsNeverGoBack
  <2>5. QED
    BY <1>3, <2>2, <2>3, <2>4, StepTokens
<1>4. QED
  BY <1>2, <1>3

LEMMA LocationsStart == ASSUME Start PROVE LocationsNeverGoBack
<1>1. toks = <<>> /\ 2..Len(<<>>) = {}
  BY EmptySeq DEF Start
<1>2. QED
  BY <1>1 DEF LocationsNeverGoBack

(* The locations of the tokens, and lineno and column behind them, never   *)
(* go back.                                                                *)
THEOREM LocationsGoForward == Spec => []LocationsNeverGoBack
<1>1. Init => LocationsNeverGoBack
  BY InitStart, LocationsStart
<1>2. Typed /\ LocationsNeverGoBack /\ [Next]_vars /\ Typed' => LocationsNeverGoBack'
  BY LocationsStep
<1>3. QED
  BY <1>1, <1>2, TypedAlways, PTL DEF Spec

-----------------------------------------------------------------------------
(* No character is lost: those in front of the current one are lexed, and  *)
(* so is the current one behind the switch, unless the identifier code     *)
(* still has to take it.                                                   *)

Lexed(i) ==
  i \in DOMAIN text =>
    \/ text[i] \in Blanks \cup Ignored
    \/ \E k \in DOMAIN toks : i \in toks[k].from..toks[k].to
AllLexed ==
  /\ pc \in {"switch", "identifier", "done"} => \A i \in 1..(next - 2) : Lexed(i)
  /\ pc = "identifier" => Lexed(next - 1) \/ (c = Char(next - 1) /\ c \in Alpha)
  /\ pc = "done" => PastEnd \/ text[next - 1] = "ff"

LEMMA StepGiven == Next => UNCHANGED given
BY DEF Next, Blank, CharToken, Newline, LineComment, BlockComment, Slash, StringLiteral,
   NumberLiteral, Identifier, NoIdentifier, EndOfFile, EndUnseen

LEMMA LexedStays ==
  ASSUME Typed, Next, NEW i, Lexed(i)
  PROVE  Lexed(i)'
<1>1. text' = text /\ TypeOK /\ Position
  BY StepGiven DEF given, Typed
<1>2. ASSUME NEW k \in DOMAIN toks PROVE k \in DOMAIN toks' /\ toks'[k] = toks[k]
  <2>1. toks \in Seq(Tokens) /\ DOMAIN toks = 1..Len(toks) /\ Len(toks) \in Nat
    BY <1>1, LenProperties DEF TypeOK, Tokens
  <2>2. CASE UNCHANGED toks
    BY <2>2
  <2>3. CASE \E t \in TokenIds, to \in Nat : Push(t, to)
    <3>1. /\ toks' \in Seq(Tokens) /\ Len(toks') = Len(toks) + 1
          /\ \A j \in 1..Len(toks) : toks'[j] = toks[j]
      BY <1>1, <2>3, PushType
    <3>2. DOMAIN toks' = 1..(Len(toks) + 1)
      BY <3>1, LenProperties
    <3>3. QED
      BY <2>1, <3>1, <3>2
  <2>4. CASE Slash
    <3>1. /\ toks' \in Seq(Tokens) /\ Len(toks') = Len(toks) + 2
          /\ \A j \in 1..Len(toks) : toks'[j] = toks[j]
      BY <1>1, <2>4, SlashTokens
    <3>2. DOMAIN toks' = 1..(Len(toks) + 2)
      BY <3>1, LenProperties
    <3>3. QED
      BY <2>1, <3>1, <3>2
  <2>5. QED
    BY <2>2, <2>3, <2>4, StepTokens
<1>3. QED
  BY <1>1, <1>2 DEF Lexed

LEMMA LexedByPush ==
  ASSUME Typed, UNCHANGED given, NEW t \in TokenIds, NEW to \in Nat, Push(t, to),
         NEW i \in (next - 1)..to
  PROVE  Lexed(i)'
<1>1. /\ toks' \in Seq(Tokens) /\ Len(toks') = Len(toks) + 1 /\ Len(toks) \in Nat
      /\ toks'[Len(toks) + 1].from = next - 1 /\ toks'[Len(toks) + 1].to = to
  BY PushType DEF Typed
<1>2. Len(toks) + 1 \in DOMAIN toks'
  BY <1>1, LenProperties
<1>3. QED
  BY <1>1, <1>2 DEF Lexed

(* What is in front of q is lexed when the step lexes what it reads.       *)
LEMMA LexedUpTo ==
  ASSUME Typed, AllLexed, Next, pc \in {"switch", "identifier"}, NEW q \in Int,
         \A i \in (next - 1)..q : Lexed(i)'
  PROVE  \A i \in 1..q : Lexed(i)'
<1>1. next \in Nat
  BY DEF Typed, TypeOK
<1>2. ASSUME NEW i \in 1..q PROVE Lexed(i)'
  <2>1. i \in (next - 1)..q \/ i \in 1..(next - 2)
    BY <1>1
  <2>2. i \in 1..(next - 2) => Lexed(i)
    BY DEF AllLexed
  <2>3. QED
    BY <2>1, <2>2, LexedStays
<1>3. QED
  BY <1>2

LEMMA EndOrByte ==
  ASSUME TypeOK, UNCHANGED given, NEW i, Char(i) = "eof"
  PROVE  Lexed(i)'
<1>1. i \in DOMAIN text => text[i] = "ff"
  BY TextHere, CharHere
<1>2. QED
  BY <1>1 DEF given, Lexed, Ignored

LEMMA SwitchLexes ==
  ASSUME Typed, AllLexed, Blank \/ CharToken \/ Newline \/ EndOfFile \/ EndUnseen, Next
  PROVE  AllLexed'
<1>1. TypeOK /\ Position /\ next \in Nat /\ next >= 2 /\ next - 1 \in Nat
  BY DEF Typed, TypeOK, Position
<1>2. UNCHANGED <<given, c, next>> /\ pc = "switch" /\ c = Char(next - 1)
  BY <1>1 DEF Blank, CharToken, Newline, EndOfFile, EndUnseen, Case, Position
<1>3. \A i \in 1..(next - 2) : Lexed(i)'
  BY <1>2, LexedStays DEF AllLexed
<1>4. CASE Blank
  <2>1. c \in Blanks \cup Ignored \cup Alpha /\ ~PastEnd /\ pc' = "identifier"
    BY <1>4 DEF Blank, Case, EndCase, Goto
  <2>2. next - 1 \in 1..Len(text)
    BY <1>1, <2>1, TextHere DEF PastEnd
  <2>3. CASE text[next - 1] = "ff"
    <3>1. Lexed(next - 1)
      BY <2>3 DEF Lexed, Ignored
    <3>2. Lexed(next - 1)'
      BY <1>2, <1>4, <2>3 DEF Blank, given, Lexed, Ignored
    <3>3. QED
      BY <1>2, <1>3, <2>1, <3>2 DEF AllLexed
  <2>4. CASE text[next - 1] # "ff"
    <3>1. text[next - 1] = c
      BY <1>1, <1>2, <2>2, <2>4, CharHere
    <3>2. c \in Blanks \cup Ignored => Lexed(next - 1)'
      BY <1>2, <3>1 DEF given, Lexed
    <3>3. Char(next - 1)' = Char(next - 1)
      BY <1>2, CharKept
    <3>4. QED
      BY <1>2, <1>3, <2>1, <3>2, <3>3 DEF AllLexed
  <2>5. QED
    BY <2>3, <2>4
<1>5. CASE CharToken \/ Newline
  <2>1. PICK t \in TokenIds : Push(t, next - 1)
    BY <1>5, Alphabet DEF CharToken, Newline, TokenIds, Case
  <2>2. next - 1 \in (next - 1)..(next - 1)
    BY <1>1
  <2>3. \A i \in (next - 1)..(next - 1) : Lexed(i)'
    BY <1>1, <1>2, <2>1, LexedByPush
  <2>4. Lexed(next - 1)'
    BY <1>1, <1>2, <2>2, <2>3 DEF Lexed
  <2>5. pc' = "identifier"
    BY <1>5 DEF CharToken, Newline, EndCase, Goto
  <2>6. QED
    BY <1>2, <1>3, <2>4, <2>5 DEF AllLexed
<1>6. CASE EndOfFile
  <2>1. pc' = "done" /\ Char(next - 1) = "eof"
    BY <1>2, <1>6 DEF EndOfFile, Case, Goto
  <2>2. PastEnd \/ text[next - 1] = "ff"
    <3>1. next - 1 \in 1..Len(text) => text[next - 1] = "ff"
      BY <1>1, <2>1, CharHere
    <3>2. QED
      BY <1>1, <3>1, TextHere DEF PastEnd
  <2>3. PastEnd' <=> PastEnd
    BY <1>2 DEF PastEnd, given
  <2>4. QED
    BY <1>2, <1>3, <2>1, <2>2, <2>3 DEF AllLexed, given
<1>7. CASE EndUnseen
  BY <1>7 DEF EndUnseen, Goto, AllLexed
<1>8. QED
  BY <1>4, <1>5, <1>6, <1>7

(* A token up to q, and c read at q: comments and strings, and numbers     *)
(* with a suffix.                                                          *)
LEMMA TakenLexes ==
  ASSUME Typed, AllLexed, Next, pc = "switch", pc' = "identifier",
         NEW q \in Nat, q >= next - 1, NEW t \in TokenIds, Push(t, q), next' = q + 1
  PROVE  AllLexed'
<1>1. next \in Nat /\ UNCHANGED given
  BY StepGiven DEF Typed, TypeOK
<1>2. \A i \in (next - 1)..q : Lexed(i)'
  BY <1>1, LexedByPush
<1>3. \A i \in 1..q : Lexed(i)'
  BY <1>2, LexedUpTo
<1>4. Lexed(q)'
  BY <1>1, <1>2
<1>5. \A i \in 1..(next' - 2) : Lexed(i)'
  BY <1>1, <1>3
<1>6. Lexed(next - 1)'
  BY <1>4 DEF Lexed
<1>7. QED
  BY <1>5, <1>6 DEF AllLexed

LEMMA LexemeLexes ==
  ASSUME Typed, AllLexed, LineComment \/ BlockComment \/ StringLiteral, Next
  PROVE  AllLexed'
<1>1. TypeOK /\ Position /\ next \in Nat /\ next >= 2 /\ pc = "switch" /\ Len(text) \in Nat
      /\ {"line_comment", "block_comment", "str_literal"} \subseteq TokenIds
  BY TextHere DEF Typed, TypeOK, Position, LineComment, BlockComment, StringLiteral, Case,
     TokenIds, KeywordOrLexeme
<1>2. CASE pc' \in {"hung", "aborted"}
  BY <1>2 DEF AllLexed
<1>3. CASE pc' \notin {"hung", "aborted"}
  <2>1. pc' = "identifier"
    BY <1>3 DEF LineComment, BlockComment, StringLiteral, EndCase, Goto
  <2>2. CASE LineComment
    <3>1. LineCommentEnds # {} /\ Push("line_comment", Min(LineCommentEnds))
          /\ next' = Min(LineCommentEnds) + 1
      BY <1>3, <2>2 DEF LineComment, Goto, ReadTo
    <3>2. Min(LineCommentEnds) \in Nat /\ Min(LineCommentEnds) >= next - 1
      BY <1>1, <3>1, CommentEndsHere
    <3>3. QED
      BY <1>1, <2>1, <3>1, <3>2, TakenLexes
  <2>3. CASE BlockComment
    <3>1. BlockCommentEnds # {} /\ Push("block_comment", Min(BlockCommentEnds))
          /\ next' = Min(BlockCommentEnds) + 1
      BY <1>3, <2>3 DEF BlockComment, Goto, ReadTo
    <3>2. Min(BlockCommentEnds) \in Nat /\ Min(BlockCommentEnds) >= next - 1
      BY <1>1, <3>1, CommentEndsHere
    <3>3. QED
      BY <1>1, <2>1, <3>1, <3>2, TakenLexes
  <2>4. CASE StringLiteral
    <3>1. StringEnds # {} /\ Push("str_literal", Min(StringEnds))
          /\ next' = Min(StringEnds) + 1
      BY <1>3, <2>4 DEF StringLiteral, Goto, ReadTo
    <3>2. Min(StringEnds) \in Nat /\ Min(StringEnds) >= next - 1
      BY <1>1, <3>1, CommentEndsHere
    <3>3. QED
      BY <1>1, <2>1, <3>1, <3>2, TakenLexes
  <2>5. QED
    BY <2>2, <2>3, <2>4
<1>4. QED
  BY <1>2, <1>3

LEMMA SlashLexes ==
  ASSUME Typed, AllLexed, Slash, Next
  PROVE  AllLexed'
<1>1. /\ TypeOK /\ Position /\ next \in Nat /\ next >= 2
      /\ UNCHANGED given /\ pc = "switch" /\ pc' = "identifier" /\ next' = next + 1
  BY StepGiven DEF Typed, TypeOK, Position, Slash, Case, EndCase, Goto, ReadTo
<1>2. /\ toks' \in Seq(Tokens) /\ Len(toks') = Len(toks) + 2 /\ Len(toks) \in Nat
      /\ toks'[Len(toks) + 1].from = next - 1 /\ toks'[Len(toks) + 1].to = next - 1
      /\ toks'[Len(toks) + 2].from = next /\ toks'[Len(toks) + 2].to = next
  BY <1>1, SlashTokens
<1>3. Len(toks) + 1 \in DOMAIN toks' /\ Len(toks) + 2 \in DOMAIN toks'
  BY <1>2, LenProperties
<1>4. ASSUME NEW i \in {next - 1, next} PROVE Lexed(i)'
  <2>1. \E k \in DOMAIN toks' : toks'[k].from = i /\ toks'[k].to = i
    BY <1>2, <1>3
  <2>2. i \in i..i
    BY <1>1
  <2>3. QED
    BY <2>1, <2>2 DEF Lexed
<1>5. \A i \in (next - 1)..next : i \in {next - 1, next}
  BY <1>1
<1>6. \A i \in 1..next : Lexed(i)'
  BY <1>1, <1>4, <1>5, LexedUpTo
<1>7. \A i \in 1..(next' - 2) : Lexed(i)'
  BY <1>1, <1>6
<1>8. Lexed(next - 1)'
  BY <1>1, <1>4 DEF Lexed
<1>9. QED
  BY <1>1, <1>7, <1>8 DEF AllLexed

LEMMA NumberLexes ==
  ASSUME Typed, AllLexed, NumberLiteral, Next
  PROVE  AllLexed'
<1>1. /\ TypeOK /\ Position /\ "num_literal" \in TokenIds
      /\ UNCHANGED given
  BY StepGiven DEF Typed, TokenIds, KeywordOrLexeme
<1>2. PICK q \in Nat :
      /\ q >= next /\ next \in Nat /\ next >= 2 /\ q >= 2
      /\ pc = "switch" /\ pc' = "identifier"
      /\ \/ Push("num_literal", q) /\ ReadTo(q)
         \/ Push("num_literal", q - 1) /\ ReadToUnget(q) /\ Char(q) \notin Suffixes
  BY <1>1, NumberHere
<1>3. CASE Push("num_literal", q) /\ ReadTo(q)
  <2>1. next' = q + 1 /\ q >= next - 1
    BY <1>2, <1>3 DEF ReadTo
  <2>2. QED
    BY <1>1, <1>2, <1>3, <2>1, TakenLexes
<1>4. CASE Push("num_literal", q - 1) /\ ReadToUnget(q)
  <2>1. q - 1 \in Nat /\ q - 1 >= next - 1
    BY <1>2
  <2>2. CASE Char(q) = "eof"
    <3>1. next' = q + 1
      BY <1>4, <2>2 DEF ReadToUnget, Ungot
    <3>2. \A i \in (next - 1)..(q - 1) : Lexed(i)'
      BY <1>1, <1>4, <2>1, LexedByPush
    <3>3. \A i \in 1..(q - 1) : Lexed(i)'
      BY <1>2, <3>2, LexedUpTo
    <3>4. Lexed(q)'
      BY <1>1, <2>2, EndOrByte
    <3>5. \A i \in 1..(next' - 2) : Lexed(i)'
      BY <1>2, <3>1, <3>3
    <3>6. Lexed(next - 1)'
      BY <1>2, <3>1, <3>4 DEF Lexed
    <3>7. QED
      BY <1>2, <3>5, <3>6 DEF AllLexed
  <2>3. CASE Char(q) # "eof"
    <3>1. next' = (q - 1) + 1
      BY <1>2, <1>4, <2>3 DEF ReadToUnget, Ungot
    <3>2. QED
      BY <1>1, <1>2, <1>4, <2>1, <3>1, TakenLexes
  <2>4. QED
    BY <2>2, <2>3
<1>5. QED
  BY <1>2, <1>3, <1>4

LEMMA IdentifierLexes ==
  ASSUME Typed, AllLexed, Identifier \/ NoIdentifier, Next
  PROVE  AllLexed'
<1>1. /\ TypeOK /\ Position /\ {"id", "keyword"} \subseteq TokenIds
      /\ UNCHANGED given /\ next \in Nat /\ next >= 2
  BY StepGiven DEF Typed, TypeOK, Position, TokenIds, KeywordOrLexeme
<1>2. CASE Identifier
  <2>1. PICK q \in Nat :
        /\ q >= next /\ q - 1 \in Nat /\ pc = "identifier" /\ pc' = "switch"
        /\ \E t \in {"id", "keyword"} : Push(t, q - 1)
        /\ Ungot(q) = q \/ (Ungot(q) = q + 1 /\ Char(q) = "eof")
        /\ next' = Ungot(q) + 1
    BY <1>1, <1>2, IdentifierHere DEF ReadAfter
  <2>2. \A i \in (next - 1)..(q - 1) : Lexed(i)'
    BY <1>1, <2>1, LexedByPush
  <2>3. \A i \in 1..(q - 1) : Lexed(i)'
    BY <2>1, <2>2, LexedUpTo
  <2>4. ASSUME NEW i \in 1..(next' - 2) PROVE Lexed(i)'
    <3>1. i \in 1..(q - 1) \/ (i = q /\ Char(q) = "eof")
      BY <2>1
    <3>2. Char(q) = "eof" => Lexed(q)'
      BY <1>1, EndOrByte
    <3>3. QED
      BY <2>3, <3>1, <3>2
  <2>5. QED
    BY <2>1, <2>4 DEF AllLexed
<1>3. CASE NoIdentifier
  <2>1. pc = "identifier" /\ pc' = "switch" /\ next' = next + 1 /\ Lexed(next - 1)
    BY <1>3 DEF NoIdentifier, AllLexed, Goto, ReadAfter
  <2>2. ASSUME NEW i \in (next - 1)..(next - 1) PROVE Lexed(i)'
    <3>1. i = next - 1
      BY <1>1
    <3>2. Lexed(i)
      BY <2>1, <3>1
    <3>3. QED
      BY <3>2, LexedStays
  <2>3. \A i \in 1..(next - 1) : Lexed(i)'
    BY <1>1, <2>1, <2>2, LexedUpTo
  <2>4. \A i \in 1..(next' - 2) : Lexed(i)'
    BY <1>1, <2>1, <2>3
  <2>5. QED
    BY <2>1, <2>4 DEF AllLexed
<1>4. QED
  BY <1>2, <1>3

LEMMA LexedStart == ASSUME Start PROVE AllLexed
<1>1. pc = "switch" /\ next = 2 /\ 1..(2 - 2) = {}
  BY DEF Start
<1> QED BY <1>1 DEF AllLexed

LEMMA LexedStep ==
  ASSUME Typed, AllLexed, [Next]_vars
  PROVE  AllLexed'
<1>1. CASE UNCHANGED vars
  BY <1>1 DEF vars, given, AllLexed, Lexed, PastEnd, Char, NoByte
<1>2. CASE Next
  BY <1>2, SwitchLexes, LexemeLexes, SlashLexes, NumberLexes, IdentifierLexes DEF Next
<1> QED BY <1>1, <1>2

LEMMA LexedCovers == ASSUME Typed, AllLexed PROVE NothingLost
<1>1. SUFFICES ASSUME pc = "done" PROVE NothingLost
  BY DEF NothingLost
<1>2. PastEnd \/ text[next - 1] = "ff"
  BY <1>1 DEF AllLexed
<1>3. ASSUME NEW i \in DOMAIN text
      PROVE  i >= next - 1 \/ Lexed(i)
  <2>1. DOMAIN text = 1..Len(text) /\ Len(text) \in Nat /\ next \in Nat
    BY TextHere DEF Typed, TypeOK
  <2>2. i >= next - 1 \/ i \in 1..(next - 2)
    BY <1>3, <2>1
  <2>3. QED
    BY <1>1, <2>2 DEF AllLexed
<1>4. QED
  BY <1>2, <1>3 DEF NothingLost, Lexed

(* When lex() returns, every character in front of the end, but blanks and *)
(* ignored ones, is in a token; and the end is the file's, or a byte 0xFF. *)
THEOREM NothingIsLost == Spec => []NothingLost
<1>1. Init => AllLexed
  BY InitStart, LexedStart
<1>2. Typed /\ AllLexed /\ [Next]_vars => AllLexed'
  BY LexedStep
<1>3. Typed /\ AllLexed => NothingLost
  BY LexedCovers
<1>4. QED
  BY <1>1, <1>2, <1>3, TypedAlways, PTL DEF Spec

-----------------------------------------------------------------------------
(* Line numbers.  A number at the end of its line has its newline counted  *)
(* twice, once by getc and once after ungetc.                              *)

EndedBy(s, n) == Cardinality({j \in 1..n : EndsItsLine(s[j])})

LEMMA EndedFinite ==
  ASSUME NEW s, NEW n \in Nat
  PROVE  /\ IsFiniteSet({j \in 1..n : EndsItsLine(s[j])}) /\ EndedBy(s, n) \in Nat
         /\ EndedBy(s, 0) = 0
<1>1. IsFiniteSet(1..n)
  BY FS_Interval
<1>2. {j \in 1..n : EndsItsLine(s[j])} \in SUBSET (1..n)
  OBVIOUS
<1>3. IsFiniteSet({j \in 1..n : EndsItsLine(s[j])})
  BY <1>1, <1>2, FS_Subset
<1>4. {j \in 1..0 : EndsItsLine(s[j])} = {}
  OBVIOUS
<1>5. QED
  BY <1>3, <1>4, FS_CardinalityType, FS_EmptySet DEF EndedBy

LEMMA EndedNext ==
  ASSUME NEW s, NEW n \in Nat
  PROVE  EndedBy(s, n + 1) = EndedBy(s, n) + (IF EndsItsLine(s[n + 1]) THEN 1 ELSE 0)
<1> DEFINE A == {j \in 1..n : EndsItsLine(s[j])}
           B == {j \in 1..(n + 1) : EndsItsLine(s[j])}
<1>1. IsFiniteSet(A) /\ n + 1 \notin A /\ Cardinality(A) \in Nat
  BY EndedFinite DEF EndedBy
<1>2. B = IF EndsItsLine(s[n + 1]) THEN A \cup {n + 1} ELSE A
  OBVIOUS
<1> HIDE DEF A, B
<1>3. Cardinality(B) = Cardinality(A) + (IF EndsItsLine(s[n + 1]) THEN 1 ELSE 0)
  BY <1>1, <1>2, FS_AddElement, SMTT(30)
<1>4. QED
  BY <1>3 DEF A, B, EndedBy

LEMMA EndedSame ==
  ASSUME NEW s, NEW r, NEW n \in Nat, \A j \in 1..n : s[j] = r[j]
  PROVE  EndedBy(s, n) = EndedBy(r, n)
<1>1. {j \in 1..n : EndsItsLine(s[j])} = {j \in 1..n : EndsItsLine(r[j])}
  OBVIOUS
<1>2. QED
  BY <1>1 DEF EndedBy

LEMMA NewlinesSplit ==
  ASSUME NEW a \in Int, NEW m \in Int, NEW b \in Int, a <= m + 1, m <= b
  PROVE  NewlinesIn(a..b) = NewlinesIn(a..m) + NewlinesIn((m + 1)..b)
<1> DEFINE A == {i \in a..m : Char(i) = "nl"}
           B == {i \in (m + 1)..b : Char(i) = "nl"}
           C == {i \in a..b : Char(i) = "nl"}
<1>1. IsFiniteSet(A) /\ IsFiniteSet(B)
  <2>1. m + 1 \in Int
    OBVIOUS
  <2>2. QED
    BY <2>1, NewlinesFinite
<1>2. A \cap B = {} /\ C = A \cup B
  <2>1. /\ \A i \in a..b : i \in a..m \/ i \in (m + 1)..b
        /\ \A i \in a..m : i \in a..b /\ i \notin (m + 1)..b
        /\ \A i \in (m + 1)..b : i \in a..b
    OBVIOUS
  <2>2. QED
    BY <2>1
<1>3. NewlinesIn(a..b) = Cardinality(C) /\ NewlinesIn(a..m) = Cardinality(A)
      /\ NewlinesIn((m + 1)..b) = Cardinality(B)
  BY DEF NewlinesIn
<1> HIDE DEF A, B, C
<1>4. Cardinality(A) \in Nat /\ Cardinality(B) \in Nat /\ Cardinality(A \cap B) = 0
  BY <1>1, <1>2, FS_CardinalityType, FS_EmptySet
<1>5. Cardinality(C) = Cardinality(A) + Cardinality(B)
  <2>1. Cardinality(A \cup B) = Cardinality(A) + Cardinality(B) - Cardinality(A \cap B)
    BY <1>1, FS_Union
  <2>2. QED
    BY <1>2, <1>4, <2>1
<1>6. QED
  BY <1>3, <1>5

LEMMA NewlinesAt ==
  ASSUME NEW m \in Int
  PROVE  /\ NewlinesIn(m..m) = (IF Char(m) = "nl" THEN 1 ELSE 0)
         /\ NewlinesIn((m + 1)..m) = 0
<1>1. {i \in m..m : Char(i) = "nl"} = (IF Char(m) = "nl" THEN {m} ELSE {})
  <2>1. m..m = {m}
    OBVIOUS
  <2>2. QED
    BY <2>1
<1>2. {i \in (m + 1)..m : Char(i) = "nl"} = {}
  OBVIOUS
<1>3. QED
  BY <1>1, <1>2, FS_EmptySet, FS_Singleton DEF NewlinesIn

LineState ==
  /\ loc.line = NewlinesIn(2..(next - 1)) + EndedBy(toks, Len(toks))
  /\ \A k \in DOMAIN toks :
       toks[k].line = NewlinesIn(2..toks[k].from) + EndedBy(toks, k - 1)

LEMMA LineStateNext ==
  ASSUME UNCHANGED given,
         loc'.line = NewlinesIn(2..(next' - 1)) + EndedBy(toks', Len(toks')),
         \A k \in DOMAIN toks' :
           toks'[k].line = NewlinesIn(2..toks'[k].from) + EndedBy(toks', k - 1)
  PROVE  LineState'
<1>1. ASSUME NEW i PROVE Char(i)' = Char(i)
  BY DEF given, Char, NoByte
<1>2. ASSUME NEW I PROVE NewlinesIn(I)' = NewlinesIn(I)
  BY <1>1 DEF NewlinesIn
<1>3. ASSUME NEW k PROVE EndsItsLine(k)' <=> EndsItsLine(k)
  BY <1>1 DEF EndsItsLine
<1>4. ASSUME NEW s, NEW n PROVE EndedBy(s, n)' = EndedBy(s, n)
  BY <1>3 DEF EndedBy
<1>5. PICK s, m, l : s = toks' /\ m = next' /\ l = loc'
  OBVIOUS
<1>6. l.line = NewlinesIn(2..(m - 1)) + EndedBy(s, Len(s))
  BY <1>5
<1>7. \A k \in DOMAIN s : s[k].line = NewlinesIn(2..s[k].from) + EndedBy(s, k - 1)
  BY <1>5
<1>8. /\ l.line = NewlinesIn(2..(m - 1))' + EndedBy(s, Len(s))'
      /\ \A k \in DOMAIN s : s[k].line = NewlinesIn(2..s[k].from)' + EndedBy(s, k - 1)'
  BY <1>2, <1>4, <1>6, <1>7
<1>9. QED
  BY <1>5, <1>8 DEF LineState, NewlinesIn, EndedBy

LEMMA LineTypes ==
  ASSUME Typed
  PROVE  /\ next \in Nat /\ next >= 2 /\ toks \in Seq(Tokens) /\ Len(toks) \in Nat
         /\ loc \in [line : Nat, col : Nat] /\ DOMAIN toks = 1..Len(toks)
         /\ \A k \in 1..Len(toks) : toks[k] \in Tokens
         /\ NewlinesIn(2..(next - 1)) \in Nat /\ EndedBy(toks, Len(toks)) \in Nat
<1>1. next \in Nat /\ next >= 2 /\ toks \in Seq(Tokens) /\ loc \in [line : Nat, col : Nat]
  BY DEF Typed, TypeOK, Position, Tokens
<1>2. Len(toks) \in Nat /\ DOMAIN toks = 1..Len(toks)
      /\ \A k \in 1..Len(toks) : toks[k] \in Tokens
  BY <1>1, LenProperties, ElementOfSeq
<1>3. NewlinesIn(2..(next - 1)) \in Nat
  <2>1. next - 1 \in Int /\ 2 \in Int
    BY <1>1
  <2>2. \A a, b \in Int : NewlinesIn(a..b) \in Nat
    BY NewlinesFinite
  <2>3. QED
    BY <2>1, <2>2
<1>4. QED
  BY <1>1, <1>2, <1>3, EndedFinite

(* A token is pushed and the text is read up to next' - 1; e newlines of   *)
(* it come again.                                                          *)
LEMMA LinesOfPush ==
  ASSUME Typed, LineState, UNCHANGED given,
         NEW t \in TokenIds, NEW to \in Nat, Push(t, to),
         NEW e \in {0, 1},
         e = 1 <=> (t = "num_literal" /\ Char(to) \notin Suffixes /\ Char(to + 1) = "nl"),
         NEW m \in Nat, next' = m, m >= next,
         loc'.line = loc.line + NewlinesIn(next..(m - 1)) + e
  PROVE  LineState'
<1> DEFINE n == Len(toks)
<1>1. /\ next \in Nat /\ next >= 2 /\ n \in Nat /\ loc.line \in Nat
      /\ \A k \in 1..n : toks[k] \in Tokens
      /\ NewlinesIn(2..(next - 1)) \in Nat /\ EndedBy(toks, n) \in Nat
      /\ DOMAIN toks = 1..n
  BY LineTypes
<1>2. /\ toks' \in Seq(Tokens) /\ Len(toks') = n + 1
      /\ toks'[n + 1].id = t /\ toks'[n + 1].to = to /\ toks'[n + 1].from = next - 1
      /\ toks'[n + 1].line = loc.line /\ \A k \in 1..n : toks'[k] = toks[k]
  BY PushType DEF Typed
<1>3. DOMAIN toks' = 1..(n + 1)
  BY <1>2, LenProperties
<1> DEFINE s == toks'
<1>4. EndsItsLine(s[n + 1]) <=> e = 1
  BY <1>2 DEF EndsItsLine
<1>5. ASSUME NEW k \in 0..n PROVE EndedBy(s, k) = EndedBy(toks, k)
  <2>1. \A j \in 1..k : s[j] = toks[j]
    BY <1>1, <1>2
  <2>2. QED
    BY <1>1, <2>1, EndedSame
<1>6. EndedBy(s, n + 1) = EndedBy(toks, n) + e
  <2>1. EndedBy(s, n + 1) = EndedBy(s, n) + (IF EndsItsLine(s[n + 1]) THEN 1 ELSE 0)
    BY <1>1, EndedNext
  <2>2. n \in 0..n
    BY <1>1
  <2>3. QED
    BY <1>1, <1>4, <1>5, <2>1, <2>2
<1>7. NewlinesIn(2..(m - 1)) = NewlinesIn(2..(next - 1)) + NewlinesIn(next..(m - 1))
  <2>1. next - 1 \in Int /\ m - 1 \in Int /\ 2 <= (next - 1) + 1 /\ next - 1 <= m - 1
        /\ (next - 1) + 1 = next
    BY <1>1
  <2>2. NewlinesIn(2..(m - 1)) = NewlinesIn(2..(next - 1)) + NewlinesIn(((next - 1) + 1)..(m - 1))
    BY <2>1, NewlinesSplit
  <2>3. QED
    BY <2>1, <2>2
<1>8. loc.line = NewlinesIn(2..(next - 1)) + EndedBy(toks, n)
  BY DEF LineState
<1>9. NewlinesIn(next..(m - 1)) \in Nat
  <2>1. next \in Int /\ m - 1 \in Int
    BY <1>1
  <2>2. \A a, b \in Int : NewlinesIn(a..b) \in Nat
    BY NewlinesFinite
  <2>3. QED
    BY <2>1, <2>2
<1>10. loc'.line = NewlinesIn(2..(next' - 1)) + EndedBy(s, Len(s))
  BY <1>1, <1>2, <1>6, <1>7, <1>8, <1>9, SMTT(30)
<1>11. ASSUME NEW k \in DOMAIN s
       PROVE  s[k].line = NewlinesIn(2..s[k].from) + EndedBy(s, k - 1)
  <2>1. CASE k = n + 1
    <3>1. k - 1 = n /\ n \in 0..n
      BY <1>1, <2>1
    <3>2. QED
      BY <1>2, <1>5, <1>8, <2>1, <3>1
  <2>2. CASE k # n + 1
    <3>1. k \in 1..n /\ k - 1 \in 0..n
      BY <1>1, <1>3, <2>2
    <3>2. toks[k].line = NewlinesIn(2..toks[k].from) + EndedBy(toks, k - 1)
      BY <1>1, <3>1 DEF LineState
    <3>3. QED
      BY <1>2, <1>5, <3>1, <3>2
  <2>3. QED
    BY <2>1, <2>2
<1>12. QED
  BY <1>10, <1>11, LineStateNext

(* No token is pushed.                                                     *)
LEMMA LinesOfRead ==
  ASSUME Typed, LineState, UNCHANGED <<given, toks>>,
         NEW m \in Nat, next' = m, m >= next,
         loc'.line = loc.line + NewlinesIn(next..(m - 1))
  PROVE  LineState'
<1>1. /\ next \in Nat /\ next >= 2 /\ loc.line \in Nat
      /\ NewlinesIn(2..(next - 1)) \in Nat /\ EndedBy(toks, Len(toks)) \in Nat
  BY LineTypes
<1>2. next - 1 \in Int /\ m - 1 \in Int /\ 2 <= (next - 1) + 1 /\ next - 1 <= m - 1
      /\ (next - 1) + 1 = next
  BY <1>1
<1>3. NewlinesIn(2..(m - 1)) = NewlinesIn(2..(next - 1)) + NewlinesIn(((next - 1) + 1)..(m - 1))
  BY <1>2, NewlinesSplit
<1>4. loc.line = NewlinesIn(2..(next - 1)) + EndedBy(toks, Len(toks))
  BY DEF LineState
<1>5. NewlinesIn(next..(m - 1)) \in Nat
  <2>1. next \in Int /\ m - 1 \in Int
    BY <1>1
  <2>2. \A a, b \in Int : NewlinesIn(a..b) \in Nat
    BY NewlinesFinite
  <2>3. QED
    BY <2>1, <2>2
<1>6. loc'.line = NewlinesIn(2..(next' - 1)) + EndedBy(toks', Len(toks'))
  BY <1>1, <1>2, <1>3, <1>4, <1>5
<1>7. \A k \in DOMAIN toks' :
        toks'[k].line = NewlinesIn(2..toks'[k].from) + EndedBy(toks', k - 1)
  BY DEF LineState
<1>8. QED
  BY <1>6, <1>7, LineStateNext

LEMMA SwitchLines ==
  ASSUME Typed, LineState,
         Blank \/ CharToken \/ Newline \/ EndOfFile \/ EndUnseen \/ NoIdentifier
  PROVE  LineState'
<1>1. /\ TypeOK /\ Position /\ next \in Nat /\ next >= 2 /\ next - 1 \in Nat
      /\ loc.line \in Nat
  BY DEF Typed, TypeOK, Position
<1>2. NewlinesIn(next..(next - 1)) = 0 /\ NewlinesIn(next..next) \in {0, 1}
      /\ (NewlinesIn(next..next) = 1 <=> Char(next) = "nl")
  <2>1. \A i \in Int : NewlinesIn((i + 1)..i) = 0
    BY NewlinesAt
  <2>2. next - 1 \in Int /\ (next - 1) + 1 = next /\ next \in Int
    BY <1>1
  <2>3. NewlinesIn(next..(next - 1)) = 0
    BY <2>1, <2>2
  <2>4. NewlinesIn(next..next) = (IF Char(next) = "nl" THEN 1 ELSE 0)
    BY <2>2, NewlinesAt
  <2>5. QED
    BY <2>3, <2>4
<1>3. CASE Blank \/ EndOfFile \/ EndUnseen
  <2>1. UNCHANGED <<given, toks, next, loc>>
    BY <1>3 DEF Blank, EndOfFile, EndUnseen
  <2>2. loc'.line = loc.line + NewlinesIn(next..(next - 1)) /\ next >= next
    BY <1>1, <1>2, <2>1
  <2>3. QED
    BY <1>1, <2>1, <2>2, LinesOfRead
<1>4. CASE CharToken \/ Newline
  <2>1. PICK t \in TokenIds : Push(t, next - 1) /\ t # "num_literal"
    BY <1>4, Alphabet DEF CharToken, Newline, Case, TokenIds
  <2>2. UNCHANGED <<given, next, loc>>
    BY <1>4 DEF CharToken, Newline
  <2>3. loc'.line = loc.line + NewlinesIn(next..(next - 1)) + 0 /\ next >= next
    BY <1>1, <1>2, <2>2
  <2>4. QED
    BY <1>1, <2>1, <2>2, <2>3, LinesOfPush
<1>5. CASE NoIdentifier
  <2>1. /\ UNCHANGED <<given, toks>> /\ next' = next + 1
        /\ loc'.line = loc.line + (IF Char(next) = "nl" THEN 1 ELSE 0)
    BY <1>5 DEF NoIdentifier, ReadAfter
  <2>2. loc'.line = loc.line + NewlinesIn(next..((next + 1) - 1))
    <3>1. (next + 1) - 1 = next
      BY <1>1
    <3>2. QED
      BY <1>2, <2>1, <3>1
  <2>3. next + 1 \in Nat /\ next + 1 >= next
    BY <1>1
  <2>4. QED
    BY <2>1, <2>2, <2>3, LinesOfRead
<1>6. QED
  BY <1>3, <1>4, <1>5

LEMMA LexemeLines ==
  ASSUME Typed, LineState, LineComment \/ BlockComment \/ StringLiteral
  PROVE  LineState'
<1>1. /\ TypeOK /\ Position /\ next \in Nat /\ next >= 2 /\ Len(text) \in Nat
      /\ {"line_comment", "block_comment", "str_literal"} \subseteq TokenIds
      /\ UNCHANGED given /\ loc.line \in Nat
  BY TextHere DEF Typed, TypeOK, Position, LineComment, BlockComment, StringLiteral,
     TokenIds, KeywordOrLexeme
<1>2. NewlinesIn(next..(next - 1)) = 0
  <2>1. \A i \in Int : NewlinesIn((i + 1)..i) = 0
    BY NewlinesAt
  <2>2. next - 1 \in Int /\ (next - 1) + 1 = next
    BY <1>1
  <2>3. QED
    BY <2>1, <2>2
<1>3. ASSUME NEW q \in Nat, q >= next, ReadTo(q),
             NEW t \in {"line_comment", "block_comment", "str_literal"}, Push(t, q)
      PROVE  LineState'
  <2>1. next' = q + 1 /\ q + 1 \in Nat /\ q + 1 >= next /\ (q + 1) - 1 = q /\ q >= next - 1
    BY <1>1, <1>3 DEF ReadTo
  <2>2. loc'.line = loc.line + NewlinesIn(next..q)
    BY <1>1, <1>3, <2>1, CountedHere DEF ReadTo
  <2>3. NewlinesIn(next..q) \in Nat
    <3>1. \A a, b \in Int : NewlinesIn(a..b) \in Nat
      BY NewlinesFinite
    <3>2. next \in Int /\ q \in Int
      BY <1>1
    <3>3. QED
      BY <3>1, <3>2
  <2>4. loc'.line = loc.line + NewlinesIn(next..((q + 1) - 1)) + 0
    BY <1>1, <2>1, <2>2, <2>3
  <2>5. t \in TokenIds /\ t # "num_literal"
    BY <1>1
  <2>6. QED
    BY <1>1, <1>3, <2>1, <2>4, <2>5, LinesOfPush
<1>4. CASE UNCHANGED <<next, loc, toks>>
  <2>1. loc'.line = loc.line + NewlinesIn(next..(next - 1)) /\ next >= next
    BY <1>1, <1>2, <1>4
  <2>2. QED
    BY <1>1, <1>4, <2>1, LinesOfRead
<1>5. CASE LineComment
  <2>1. LineCommentEnds # {} =>
          Min(LineCommentEnds) \in Nat /\ Min(LineCommentEnds) >= next
    BY <1>1, CommentEndsHere
  <2>2. QED
    BY <1>3, <1>4, <1>5, <2>1 DEF LineComment
<1>6. CASE BlockComment
  <2>1. BlockCommentEnds # {} =>
          Min(BlockCommentEnds) \in Nat /\ Min(BlockCommentEnds) >= next
    BY <1>1, CommentEndsHere
  <2>2. QED
    BY <1>3, <1>4, <1>6, <2>1 DEF BlockComment
<1>7. CASE StringLiteral
  <2>1. CASE StringEnds # {}
    <3>1. Min(StringEnds) \in Nat /\ Min(StringEnds) >= next
      BY <1>1, <2>1, CommentEndsHere
    <3>2. QED
      BY <1>3, <1>7, <2>1, <3>1 DEF StringLiteral
  <2>2. CASE StringEnds = {}
    <3>1. Push("str_literal", Len(text)) /\ UNCHANGED <<next, loc>>
      BY <1>7, <2>2 DEF StringLiteral
    <3>2. loc'.line = loc.line + NewlinesIn(next..(next - 1)) + 0 /\ next >= next
      BY <1>1, <1>2, <3>1
    <3>3. QED
      BY <1>1, <3>1, <3>2, LinesOfPush
  <2>3. QED
    BY <2>1, <2>2
<1>8. QED
  BY <1>5, <1>6, <1>7

LEMMA SlashLines ==
  ASSUME Typed, LineState, Slash
  PROVE  LineState'
<1> DEFINE n == Len(toks)
           s == toks'
<1>1. /\ TypeOK /\ Position /\ next \in Nat /\ next >= 2 /\ n \in Nat
      /\ loc.line \in Nat /\ DOMAIN toks = 1..n
      /\ NewlinesIn(2..(next - 1)) \in Nat /\ EndedBy(toks, n) \in Nat
  BY LineTypes DEF Typed
<1>2. UNCHANGED given /\ next' = next + 1 /\ loc' = Counted(next)
  BY DEF Slash, ReadTo
<1>3. /\ s \in Seq(Tokens) /\ Len(s) = n + 2
      /\ \A k \in 1..n : s[k] = toks[k]
      /\ s[n + 1].id = "forward_slash" /\ s[n + 1].line = loc.line
      /\ s[n + 1].from = next - 1
      /\ s[n + 2].id \in Chars \cup {"id"} /\ s[n + 2].line = loc'.line
      /\ s[n + 2].from = next
  BY <1>1, <1>2, SlashTokens
<1>4. DOMAIN s = 1..(n + 2)
  BY <1>3, LenProperties
<1> HIDE DEF s
<1>5. loc'.line = loc.line + NewlinesIn(next..next)
  <2>1. next >= next - 1
    BY <1>1
  <2>2. QED
    BY <1>1, <1>2, <2>1, CountedHere
<1>6. NewlinesIn(2..next) = NewlinesIn(2..(next - 1)) + NewlinesIn(next..next)
      /\ NewlinesIn(next..next) \in Nat
  <2>1. next - 1 \in Int /\ next \in Int /\ 2 <= (next - 1) + 1 /\ next - 1 <= next
        /\ (next - 1) + 1 = next
    BY <1>1
  <2>2. NewlinesIn(2..next) = NewlinesIn(2..(next - 1)) + NewlinesIn(((next - 1) + 1)..next)
    <3>1. \A m, b \in Int : 2 <= m + 1 /\ m <= b =>
            NewlinesIn(2..b) = NewlinesIn(2..m) + NewlinesIn((m + 1)..b)
      BY NewlinesSplit
    <3>2. QED
      BY <2>1, <3>1
  <2>3. \A a, b \in Int : NewlinesIn(a..b) \in Nat
    BY NewlinesFinite
  <2>4. QED
    BY <2>1, <2>2, <2>3
<1>7. ASSUME NEW k \in 0..n PROVE EndedBy(s, k) = EndedBy(toks, k)
  <2>1. \A j \in 1..k : s[j] = toks[j]
    BY <1>1, <1>3
  <2>2. QED
    BY <1>1, <2>1, EndedSame
<1>8. EndedBy(s, n) = EndedBy(toks, n) /\ EndedBy(s, n + 1) = EndedBy(toks, n)
      /\ EndedBy(s, n + 2) = EndedBy(toks, n)
  <2>1. n \in 0..n /\ n + 1 \in Nat /\ (n + 1) + 1 = n + 2
    BY <1>1
  <2>2. EndedBy(s, n) = EndedBy(toks, n)
    BY <1>7, <2>1
  <2>3. ~EndsItsLine(s[n + 1]) /\ ~EndsItsLine(s[n + 2])
    BY <1>3, Alphabet DEF EndsItsLine
  <2>4. EndedBy(s, n + 1) = EndedBy(s, n) + 0
    BY <1>1, <2>3, EndedNext
  <2>5. EndedBy(s, (n + 1) + 1) = EndedBy(s, n + 1) + 0
    BY <2>1, <2>3, EndedNext
  <2>6. QED
    BY <1>1, <2>1, <2>2, <2>4, <2>5
<1>9. loc.line = NewlinesIn(2..(next - 1)) + EndedBy(toks, n)
  BY DEF LineState
<1>10. loc'.line = NewlinesIn(2..(next' - 1)) + EndedBy(toks', Len(toks'))
  <2>1. next' - 1 = next
    BY <1>1, <1>2
  <2>2. loc'.line = NewlinesIn(2..next) + EndedBy(s, n + 2)
    BY <1>1, <1>5, <1>6, <1>8, <1>9
  <2>3. QED
    BY <1>3, <2>1, <2>2 DEF s
<1>11. ASSUME NEW k \in DOMAIN s
       PROVE  s[k].line = NewlinesIn(2..s[k].from) + EndedBy(s, k - 1)
  <2>1. CASE k = n + 1
    <3>1. k - 1 = n
      BY <1>1, <2>1
    <3>2. QED
      BY <1>3, <1>8, <1>9, <2>1, <3>1
  <2>2. CASE k = n + 2
    <3>1. k - 1 = n + 1
      BY <1>1, <2>2
    <3>2. loc'.line = NewlinesIn(2..next) + EndedBy(s, n + 1)
      BY <1>1, <1>5, <1>6, <1>8, <1>9
    <3>3. QED
      BY <1>3, <2>2, <3>1, <3>2
  <2>3. CASE k \notin {n + 1, n + 2}
    <3>1. k \in 1..n /\ k - 1 \in 0..n
      BY <1>1, <1>4, <2>3
    <3>2. toks[k].line = NewlinesIn(2..toks[k].from) + EndedBy(toks, k - 1)
      BY <1>1, <3>1 DEF LineState
    <3>3. QED
      BY <1>3, <1>7, <3>1, <3>2
  <2>4. QED
    BY <2>1, <2>2, <2>3
<1>12. QED
  BY <1>2, <1>10, <1>11, LineStateNext DEF s

LEMMA NumberLines ==
  ASSUME Typed, LineState, NumberLiteral
  PROVE  LineState'
<1>1. /\ TypeOK /\ Position /\ "num_literal" \in TokenIds /\ loc.line \in Nat
  BY DEF Typed, TypeOK, TokenIds, KeywordOrLexeme
<1>2. PICK q \in Nat :
      /\ q >= next /\ next \in Nat /\ next >= 2 /\ UNCHANGED given
      /\ \A j \in (next - 1)..(q - 1) : Char(j) \in Digits \cup {"."}
      /\ \/ Char(q) \in Suffixes /\ Push("num_literal", q) /\ ReadTo(q)
         \/ /\ Char(q) \notin Suffixes
            /\ Push("num_literal", q - 1) /\ ReadToUnget(q)
  <2>1. \A j \in (next - 1)..(NumberEnd - 1) : Char(j) \in Digits \cup {"."}
    <3>1. /\ NumberEnd \in Nat /\ next \in Nat
          /\ Char(next - 1) \in Digits \cup {"."}
          /\ \A j \in next..(NumberEnd - 1) : Char(j) \in Digits \cup {"."}
      BY <1>1, NumberHere
    <3>2. \A j \in (next - 1)..(NumberEnd - 1) : j = next - 1 \/ j \in next..(NumberEnd - 1)
      BY <3>1
    <3>3. QED
      BY <3>1, <3>2
  <2>2. QED
    BY <1>1, <2>1, NumberHere
<1>3. q - 1 \in Nat /\ (q - 1) + 1 = q /\ q + 1 \in Nat /\ (q + 1) - 1 = q
      /\ q + 1 >= next /\ q >= next - 1 /\ q - 1 \in (next - 1)..(q - 1)
  BY <1>2
<1>4. Counted(q).line = loc.line + NewlinesIn(next..q) /\ NewlinesIn(next..q) \in Nat
  <2>1. \A a, b \in Int : NewlinesIn(a..b) \in Nat
    BY NewlinesFinite
  <2>2. next \in Int /\ q \in Int
    BY <1>2
  <2>3. QED
    BY <1>1, <1>3, <2>1, <2>2, CountedHere
<1>5. CASE Char(q) \in Suffixes /\ Push("num_literal", q) /\ ReadTo(q)
  <2>1. next' = q + 1 /\ loc'.line = loc.line + NewlinesIn(next..((q + 1) - 1)) + 0
    BY <1>1, <1>3, <1>4, <1>5 DEF ReadTo
  <2>2. QED
    BY <1>1, <1>2, <1>3, <1>5, <2>1, LinesOfPush
<1>6. CASE /\ Char(q) \notin Suffixes
           /\ Push("num_literal", q - 1) /\ ReadToUnget(q)
  <2>1. loc'.line = loc.line + NewlinesIn(next..q)
    BY <1>4, <1>6 DEF ReadToUnget
  <2>2. Char(q - 1) \notin Suffixes
    BY <1>2, <1>3, Alphabet
  <2>3. NewlinesIn(next..q) = NewlinesIn(next..(q - 1)) + (IF Char(q) = "nl" THEN 1 ELSE 0)
        /\ NewlinesIn(next..(q - 1)) \in Nat
    <3>1. next \in Int /\ q - 1 \in Int /\ q \in Int /\ next <= (q - 1) + 1 /\ q - 1 <= q
      BY <1>2
    <3>2. NewlinesIn(next..q) = NewlinesIn(next..(q - 1)) + NewlinesIn(((q - 1) + 1)..q)
      BY <3>1, NewlinesSplit
    <3>3. \A a, b \in Int : NewlinesIn(a..b) \in Nat
      BY NewlinesFinite
    <3>4. NewlinesIn(q..q) = (IF Char(q) = "nl" THEN 1 ELSE 0)
      BY <3>1, NewlinesAt
    <3>5. QED
      BY <1>3, <3>1, <3>2, <3>3, <3>4
  <2>4. CASE Char(q) = "eof"
    <3>1. next' = q + 1 /\ loc'.line = loc.line + NewlinesIn(next..((q + 1) - 1)) + 0
      BY <1>1, <1>3, <1>4, <1>6, <2>1, <2>4 DEF ReadToUnget, Ungot
    <3>2. Char((q - 1) + 1) # "nl"
      BY <1>3, <2>4
    <3>3. QED
      BY <1>1, <1>2, <1>3, <1>6, <3>1, <3>2, LinesOfPush
  <2>5. CASE Char(q) # "eof"
    <3>1. next' = q
      BY <1>6, <2>5 DEF ReadToUnget, Ungot
    <3>2. CASE Char(q) = "nl"
      <4>1. loc'.line = loc.line + NewlinesIn(next..(q - 1)) + 1
        BY <1>1, <2>1, <2>3, <3>2
      <4>2. Char((q - 1) + 1) = "nl"
        BY <1>3, <3>2
      <4>3. QED
        BY <1>1, <1>2, <1>3, <1>6, <2>2, <3>1, <4>1, <4>2, LinesOfPush
    <3>3. CASE Char(q) # "nl"
      <4>1. loc'.line = loc.line + NewlinesIn(next..(q - 1)) + 0
        BY <1>1, <2>1, <2>3, <3>3
      <4>2. Char((q - 1) + 1) # "nl"
        BY <1>3, <3>3
      <4>3. QED
        BY <1>1, <1>2, <1>3, <1>6, <3>1, <4>1, <4>2, LinesOfPush
    <3>4. QED
      BY <3>2, <3>3
  <2>6. QED
    BY <2>4, <2>5
<1>7. QED
  BY <1>2, <1>5, <1>6

LEMMA IdentifierLines ==
  ASSUME Typed, LineState, Identifier
  PROVE  LineState'
<1>1. TypeOK /\ Position /\ {"id", "keyword"} \subseteq TokenIds /\ loc.line \in Nat
  BY DEF Typed, TypeOK, TokenIds, KeywordOrLexeme
<1>2. PICK q \in Nat, u \in Nat, t \in {"id", "keyword"} :
      /\ q >= next /\ next \in Nat /\ next >= 2 /\ UNCHANGED given
      /\ \A j \in next..(q - 1) : Char(j) \in Alnum
      /\ u = q \/ (u = q + 1 /\ Char(q) = "eof")
      /\ Push(t, q - 1) /\ ReadAfter(u)
  BY <1>1, IdentifierHere
<1>3. q - 1 \in Nat /\ u + 1 \in Nat /\ (u + 1) - 1 = u /\ u + 1 >= next
      /\ next \in Int /\ u - 1 \in Int /\ u \in Int /\ next <= (u - 1) + 1 /\ u - 1 <= u
      /\ (u - 1) + 1 = u
  BY <1>2
<1>4. NewlinesIn(next..(u - 1)) = 0
  <2>1. ASSUME NEW i \in next..(u - 1) PROVE Char(i) # "nl"
    <3>1. i \in next..(q - 1) \/ (i = q /\ Char(q) = "eof")
      BY <1>2
    <3>2. QED
      BY <1>2, <3>1, Alphabet
  <2>2. \A a, b \in Int : (\A i \in a..b : Char(i) # "nl") => NewlinesIn(a..b) = 0
    BY NewlinesFinite
  <2>3. QED
    BY <1>3, <2>1, <2>2
<1>5. NewlinesIn(next..u) = (IF Char(u) = "nl" THEN 1 ELSE 0)
  <2>1. NewlinesIn(next..u) = NewlinesIn(next..(u - 1)) + NewlinesIn(((u - 1) + 1)..u)
    BY <1>3, NewlinesSplit
  <2>2. NewlinesIn(u..u) = (IF Char(u) = "nl" THEN 1 ELSE 0)
    BY <1>3, NewlinesAt
  <2>3. QED
    BY <1>3, <1>4, <2>1, <2>2
<1>6. next' = u + 1 /\ loc'.line = loc.line + NewlinesIn(next..((u + 1) - 1)) + 0
  BY <1>1, <1>2, <1>3, <1>5 DEF ReadAfter
<1>7. t \in TokenIds /\ t # "num_literal"
  BY <1>1
<1>8. QED
  BY <1>2, <1>3, <1>6, <1>7, LinesOfPush

LEMMA LinesStart == ASSUME Start PROVE LineState
<1>1. toks = <<>> /\ next = 2 /\ loc.line = 0
  BY DEF Start
<1>2. NewlinesIn(2..(2 - 1)) = 0
  <2>1. \A i \in Int : NewlinesIn((i + 1)..i) = 0
    BY NewlinesAt
  <2>2. 1 + 1 = 2 /\ 2 - 1 = 1 /\ 1 \in Int
    OBVIOUS
  <2>3. QED
    BY <2>1, <2>2
<1>3. EndedBy(<<>>, Len(<<>>)) = 0 /\ DOMAIN <<>> = {}
  <2>1. \A s : EndedBy(s, 0) = 0
    BY EndedFinite
  <2>2. Len(<<>>) = 0 /\ DOMAIN <<>> = {}
    BY EmptySeq
  <2>3. QED
    BY <2>1, <2>2
<1>4. QED
  BY <1>1, <1>2, <1>3 DEF LineState

LEMMA LinesStep ==
  ASSUME Typed, LineState, [Next]_vars
  PROVE  LineState'
<1>1. CASE UNCHANGED vars
  <2>1. UNCHANGED given /\ next' = next /\ toks' = toks /\ loc' = loc
    BY <1>1 DEF vars
  <2>2. QED
    BY <2>1, LineStateNext DEF LineState
<1>2. CASE Next
  BY <1>2, SwitchLines, LexemeLines, SlashLines, NumberLines, IdentifierLines DEF Next
<1>3. QED
  BY <1>1, <1>2

(* The line of a token is the newlines up to its first character, but one  *)
(* at the start of the file, and one more for every number that ended its  *)
(* line in front of it.                                                    *)
THEOREM LinesAreExact == Spec => []LineNumbersExact
<1>1. Init => LineState
  BY InitStart, LinesStart
<1>2. Typed /\ LineState /\ [Next]_vars => LineState'
  BY LinesStep
<1>3. LineState => LineNumbersExact
  BY DEF LineState, LineNumbersExact, EndedBy
<1>4. QED
  BY <1>1, <1>2, <1>3, TypedAlways, PTL DEF Spec

(* So every token of every text has a location the text accounts for, and  *)
(* no token one before that of an earlier token.                           *)
THEOREM LocationsAreExact == Spec => []LocationsExact
BY LocationsGoForward, LinesAreExact, PTL DEF LocationsExact

-----------------------------------------------------------------------------
(* Tokens and their lexemes.                                               *)

LEMMA RankHere ==
  ASSUME NEW n \in Nat, NEW S \in SUBSET (1..n)
  PROVE  /\ IsFiniteSet(S) /\ Cardinality(S) \in Nat
         /\ \A k \in S : Rank(S, k) \in 1..Cardinality(S)
<1>1. IsFiniteSet(S) /\ Cardinality(S) \in Nat
  <2>1. IsFiniteSet(1..n)
    BY FS_Interval
  <2>2. IsFiniteSet(S)
    BY <2>1, FS_Subset
  <2>3. QED
    BY <2>2, FS_CardinalityType
<1>2. ASSUME NEW k \in S PROVE Rank(S, k) \in 1..Cardinality(S)
  <2> DEFINE U == {j \in S : j <= k}
  <2>1. U \in SUBSET S /\ k \in U
    OBVIOUS
  <2> HIDE DEF U
  <2>2. IsFiniteSet(U) /\ Cardinality(U) <= Cardinality(S) /\ Cardinality(U) \in Nat
        /\ Cardinality(U) # 0
    BY <1>1, <2>1, FS_Subset, FS_CardinalityType, FS_EmptySet
  <2>3. QED
    BY <1>1, <2>2 DEF U, Rank
<1>3. QED
  BY <1>1, <1>2

LEMMA RankNext ==
  ASSUME NEW n \in Nat, NEW S \in SUBSET (1..n)
  PROVE  /\ Cardinality(S \cup {n + 1}) = Cardinality(S) + 1
         /\ Rank(S \cup {n + 1}, n + 1) = Cardinality(S) + 1
         /\ \A k \in S : Rank(S \cup {n + 1}, k) = Rank(S, k)
<1> DEFINE T == S \cup {n + 1}
<1>1. IsFiniteSet(S) /\ Cardinality(S) \in Nat
  BY RankHere
<1>2. n + 1 \notin S /\ \A k \in S : k \in 1..n
  OBVIOUS
<1>3. Cardinality(T) = Cardinality(S) + 1
  BY <1>1, <1>2, FS_AddElement
<1>4. ASSUME NEW k \in S PROVE Rank(T, k) = Rank(S, k)
  <2>1. k \in Nat /\ ~(n + 1 <= k)
    BY <1>2
  <2>2. {j \in T : j <= k} = {j \in S : j <= k}
    BY <2>1
  <2>3. QED
    BY <2>2 DEF Rank
<1>5. Rank(T, n + 1) = Cardinality(S) + 1
  <2>1. \A j \in T : j <= n + 1
    BY <1>2
  <2>2. {j \in T : j <= n + 1} = T
    BY <2>1
  <2>3. QED
    BY <1>3, <2>2 DEF Rank
<1>6. QED
  BY <1>3, <1>4, <1>5

LEMMA KindsHere ==
  ASSUME Typed
  PROVE  /\ Len(toks) \in Nat /\ DOMAIN toks = 1..Len(toks)
         /\ IdTokens \in SUBSET (1..Len(toks)) /\ NumberTokens \in SUBSET (1..Len(toks))
         /\ StringTokens \in SUBSET (1..Len(toks))
BY LineTypes DEF IdTokens, NumberTokens, StringTokens

LEMMA NamedStays ==
  ASSUME UNCHANGED given, NEW k
  PROVE  /\ Named(k)' <=> Named(k)
         /\ Written(k)' = Written(k)
BY DEF given, Named, Char, NoByte, Written

LEMMA KindsOfPush ==
  ASSUME Typed, UNCHANGED given, NEW t \in TokenIds, NEW to \in Nat, Push(t, to)
  PROVE  LET n == Len(toks) IN
         /\ DOMAIN toks' = 1..(n + 1) /\ \A k \in 1..n : toks'[k] = toks[k]
         /\ toks'[n + 1].id = t /\ toks'[n + 1].from = next - 1 /\ toks'[n + 1].to = to
         /\ Len(toks') = n + 1
         /\ IdTokens' = IdTokens \cup (IF t = "id" /\ Char(next - 1) # "eof" THEN {n + 1} ELSE {})
         /\ NumberTokens' = NumberTokens \cup (IF t = "num_literal" THEN {n + 1} ELSE {})
         /\ StringTokens' = StringTokens \cup (IF t = "str_literal" THEN {n + 1} ELSE {})
<1> DEFINE n == Len(toks)
<1>1. /\ toks' \in Seq(Tokens) /\ Len(toks') = n + 1 /\ n \in Nat
      /\ toks'[n + 1].id = t /\ toks'[n + 1].to = to /\ toks'[n + 1].from = next - 1
      /\ \A k \in 1..n : toks'[k] = toks[k] /\ DOMAIN toks = 1..n
  BY PushType, KindsHere DEF Typed
<1>2. DOMAIN toks' = 1..(n + 1) /\ DOMAIN toks = 1..n
  BY <1>1, LenProperties, KindsHere
<1>3. \A k \in DOMAIN toks' : k = n + 1 \/ k \in 1..n
  BY <1>1, <1>2
<1>4. n + 1 \in DOMAIN toks' /\ \A k \in 1..n : k \in DOMAIN toks'
  BY <1>1, <1>2
<1>5. IdTokens' = IdTokens \cup (IF t = "id" /\ Char(next - 1) # "eof" THEN {n + 1} ELSE {})
  <2>1. \A k \in DOMAIN toks' : k \in IdTokens' <=> Named(toks'[k])
    <3>1. ASSUME NEW k \in DOMAIN toks' PROVE k \in IdTokens' <=> Named(toks'[k])
      <4>1. PICK r : r = toks'[k]
        OBVIOUS
      <4>2. Named(r)' <=> Named(r)
        BY NamedStays
      <4>3. QED
        BY <4>1, <4>2 DEF IdTokens, Named
    <3>2. QED
      BY <3>1
  <2>2. Named(toks'[n + 1]) <=> t = "id" /\ Char(next - 1) # "eof"
    BY <1>1 DEF Named
  <2>3. \A k \in 1..n : Named(toks'[k]) <=> k \in IdTokens
    BY <1>1, <1>2 DEF IdTokens
  <2>4. IdTokens \subseteq 1..n /\ IdTokens' \subseteq DOMAIN toks'
    BY <1>2 DEF IdTokens
  <2>5. QED
    BY <1>3, <1>4, <2>1, <2>2, <2>3, <2>4
<1>6. NumberTokens' = NumberTokens \cup (IF t = "num_literal" THEN {n + 1} ELSE {})
  BY <1>1, <1>2, <1>3, <1>4 DEF NumberTokens, Number
<1>7. StringTokens' = StringTokens \cup (IF t = "str_literal" THEN {n + 1} ELSE {})
  BY <1>1, <1>2, <1>3, <1>4 DEF StringTokens, String
<1>8. QED
  BY <1>1, <1>2, <1>5, <1>6, <1>7

LEMMA KindsOfSlash ==
  ASSUME Typed, UNCHANGED given, Slash
  PROVE  LET n == Len(toks) IN
         /\ DOMAIN toks' = 1..(n + 2) /\ \A k \in 1..n : toks'[k] = toks[k]
         /\ Len(toks') = n + 2
         /\ UNCHANGED <<IdTokens, NumberTokens, StringTokens>>
<1> DEFINE n == Len(toks)
<1>1. /\ toks' \in Seq(Tokens) /\ Len(toks') = n + 2 /\ n \in Nat
      /\ toks'[n + 1].id = "forward_slash"
      /\ toks'[n + 2].id \in Chars \cup {"id"} /\ toks'[n + 2].from = next
      /\ toks'[n + 2].id = "id" => Char(next) = "eof"
      /\ \A k \in 1..n : toks'[k] = toks[k]
  BY SlashTokens DEF Typed
<1>2. DOMAIN toks' = 1..(n + 2) /\ DOMAIN toks = 1..n
  BY <1>1, LenProperties, KindsHere
<1>3. \A k \in DOMAIN toks' : k = n + 1 \/ k = n + 2 \/ k \in 1..n
  BY <1>1, <1>2
<1>4. \A k \in 1..n : k \in DOMAIN toks'
  BY <1>1, <1>2
<1>5. IdTokens' = IdTokens
  <2>1. ASSUME NEW k \in DOMAIN toks' PROVE k \in IdTokens' <=> Named(toks'[k])
    <3>1. PICK r : r = toks'[k]
      OBVIOUS
    <3>2. Named(r)' <=> Named(r)
      BY NamedStays
    <3>3. QED
      BY <3>1, <3>2 DEF IdTokens, Named
  <2>2. ~Named(toks'[n + 1]) /\ ~Named(toks'[n + 2])
    BY <1>1 DEF Named
  <2>3. \A k \in 1..n : Named(toks'[k]) <=> k \in IdTokens
    BY <1>1, <1>2 DEF IdTokens
  <2>4. IdTokens \subseteq 1..n /\ IdTokens' \subseteq DOMAIN toks'
    BY <1>2 DEF IdTokens
  <2>5. QED
    BY <1>3, <1>4, <2>1, <2>2, <2>3, <2>4
<1>6. /\ toks'[n + 2].id # "num_literal" /\ toks'[n + 2].id # "str_literal"
  BY <1>1, Alphabet
<1>7. NumberTokens' = NumberTokens
  BY <1>1, <1>2, <1>3, <1>4, <1>6 DEF NumberTokens, Number
<1>8. StringTokens' = StringTokens
  BY <1>1, <1>2, <1>3, <1>4, <1>6 DEF StringTokens, String
<1>9. QED
  BY <1>1, <1>2, <1>5, <1>7, <1>8

NumbersMatch ==
  /\ Cardinality(NumberTokens) = Len(nums)
  /\ \A k \in NumberTokens : nums[Rank(NumberTokens, k)] = Written(toks[k])
StringsMatch ==
  /\ \/ Cardinality(StringTokens) = Len(strs)
     \/ pc = "hung" /\ Cardinality(StringTokens) = Len(strs) + 1
  /\ \A k \in StringTokens :
       Rank(StringTokens, k) <= Len(strs) =>
         <<"quote">> \o strs[Rank(StringTokens, k)] \o <<"quote">> = Written(toks[k])

LEMMA NumbersKept ==
  ASSUME Typed, UNCHANGED <<given, nums, NumberTokens>>, NumbersMatch,
         \A k \in 1..Len(toks) : toks'[k] = toks[k]
  PROVE  NumbersMatch'
<1>1. ASSUME NEW k \in NumberTokens PROVE Written(toks[k])' = Written(toks[k])
  <2>1. toks'[k] = toks[k]
    BY KindsHere
  <2>2. QED
    BY <2>1 DEF given, Written
<1>2. QED
  BY <1>1 DEF NumbersMatch, Rank

LEMMA StringsKept ==
  ASSUME Typed, UNCHANGED <<given, strs, StringTokens>>, StringsMatch,
         pc # "hung" \/ pc' = "hung",
         \A k \in 1..Len(toks) : toks'[k] = toks[k]
  PROVE  StringsMatch'
<1>1. ASSUME NEW k \in StringTokens PROVE Written(toks[k])' = Written(toks[k])
  <2>1. toks'[k] = toks[k]
    BY KindsHere
  <2>2. QED
    BY <2>1 DEF given, Written
<1>2. QED
  BY <1>1 DEF StringsMatch, Rank

LEMMA NumbersGrow ==
  ASSUME Typed, UNCHANGED given, NumbersMatch, NEW to \in Nat, Push("num_literal", to),
         SubSeq(text, next - 1, to) \in Seq(Digits \cup Suffixes \cup {"."}),
         nums' = Append(nums, SubSeq(text, next - 1, to))
  PROVE  NumbersMatch'
<1> DEFINE n == Len(toks)
           x == SubSeq(text, next - 1, to)
<1>1. "num_literal" \in TokenIds /\ nums \in Seq(Seq(Digits \cup Suffixes \cup {"."}))
  BY DEF TokenIds, KeywordOrLexeme, Typed, TypeOK
<1>2. /\ \A k \in 1..n : toks'[k] = toks[k]
      /\ toks'[n + 1].from = next - 1 /\ toks'[n + 1].to = to
      /\ NumberTokens' = NumberTokens \cup {n + 1}
  BY <1>1, KindsOfPush
<1>3. n \in Nat /\ NumberTokens \in SUBSET (1..n)
  BY KindsHere
<1> DEFINE T == NumberTokens \cup {n + 1}
<1>4. /\ Cardinality(T) = Len(Append(nums, x))
      /\ \A k \in NumberTokens : Append(nums, x)[Rank(T, k)] = nums[Rank(NumberTokens, k)]
      /\ Append(nums, x)[Rank(T, n + 1)] = x
  <2> DEFINE V == Seq(Digits \cup Suffixes \cup {"."})
             S == NumberTokens
             w == Append(nums, x)
  <2>1. Len(nums) = Cardinality(S) /\ x \in V /\ nums \in Seq(V) /\ n \in Nat
        /\ S \in SUBSET (1..n)
    BY <1>1, <1>3 DEF NumbersMatch
  <2> HIDE DEF V, x, n, S
  <2>2. /\ Len(w) = Len(nums) + 1 /\ w[Len(nums) + 1] = x
        /\ \A i \in 1..Len(nums) : w[i] = nums[i]
    BY <2>1, AppendProperties
  <2> HIDE DEF w
  <2>3. /\ Cardinality(S \cup {n + 1}) = Cardinality(S) + 1
        /\ Rank(S \cup {n + 1}, n + 1) = Cardinality(S) + 1
        /\ \A k \in S : Rank(S \cup {n + 1}, k) = Rank(S, k)
    BY <2>1, RankNext
  <2>4. \A k \in S : Rank(S, k) \in 1..Len(nums)
    BY <2>1, RankHere
  <2>5. /\ Cardinality(S \cup {n + 1}) = Len(w) /\ w[Rank(S \cup {n + 1}, n + 1)] = x
        /\ \A k \in S : w[Rank(S \cup {n + 1}, k)] = nums[Rank(S, k)]
    BY <2>1, <2>2, <2>3, <2>4
  <2>6. QED
    BY <2>5 DEF S, w
<1>5. ASSUME NEW k \in T PROVE nums'[Rank(T, k)] = Written(toks[k])'
  <2>1. CASE k = n + 1
    <3>1. Written(toks[k])' = x
      BY <1>2, <2>1 DEF Written, given
    <3>2. QED
      BY <1>4, <2>1, <3>1
  <2>2. CASE k \in NumberTokens
    <3>1. toks'[k] = toks[k]
      BY <1>2, <1>3, <2>2
    <3>2. Written(toks[k])' = Written(toks[k])
      BY <3>1 DEF Written, given
    <3>3. QED
      BY <1>4, <2>2, <3>2 DEF NumbersMatch
  <2>3. QED
    BY <2>1, <2>2
<1> HIDE DEF T
<1>6. NumberTokens' = T
  BY <1>2 DEF T
<1>7. Cardinality(T) = Len(nums')
  BY <1>4
<1>8. QED
  BY <1>5, <1>6, <1>7 DEF NumbersMatch, Rank

LEMMA QuotedPart ==
  ASSUME Typed, NEW q \in next..Len(text), text[next - 1] = "quote", text[q] = "quote"
  PROVE  <<"quote">> \o SubSeq(text, next, q - 1) \o <<"quote">> = SubSeq(text, next - 1, q)
<1>1. /\ text \in Seq(Chars) /\ Len(text) \in Nat /\ next \in Nat /\ next >= 2
      /\ q - 1 \in next - 1..Len(text) /\ q \in Nat
  BY TextHere DEF Typed, TypeOK, Position
<1> DEFINE x == SubSeq(text, next, q - 1)
<1>2. SubSeq(text, next - 1, q) = SubSeq(text, next - 1, q - 1) \o <<text[q]>>
  <2>1. next - 1 \in 1..Len(text) /\ q \in (next - 1)..Len(text)
    BY <1>1
  <2>2. QED
    BY <1>1, <2>1, SubSeqRecursiveSecond
<1>3. SubSeq(text, next - 1, q - 1) = <<text[next - 1]>> \o SubSeq(text, next, q - 1)
  <2>1. next - 1 \in 1..Len(text) /\ q - 1 \in (next - 1)..Len(text) /\ (next - 1) + 1 = next
    BY <1>1
  <2>2. SubSeq(text, next - 1, q - 1) = <<text[next - 1]>> \o SubSeq(text, (next - 1) + 1, q - 1)
    BY <1>1, <2>1, SubSeqRecursiveFirst
  <2>3. QED
    BY <2>1, <2>2
<1>4. QED
  BY <1>2, <1>3

LEMMA StringsGrow ==
  ASSUME Typed, UNCHANGED given, StringsMatch, pc # "hung",
         NEW to \in Nat, Push("str_literal", to), NEW x \in Seq(Chars),
         \/ strs' = Append(strs, x) /\ <<"quote">> \o x \o <<"quote">> = SubSeq(text, next - 1, to)
         \/ strs' = strs /\ pc' = "hung"
  PROVE  StringsMatch'
<1> DEFINE n == Len(toks)
           S == StringTokens
           T == StringTokens \cup {n + 1}
<1>1. "str_literal" \in TokenIds /\ strs \in Seq(Seq(Chars)) /\ Len(strs) \in Nat
  BY LenProperties DEF TokenIds, KeywordOrLexeme, Typed, TypeOK
<1>2. /\ \A k \in 1..n : toks'[k] = toks[k]
      /\ toks'[n + 1].from = next - 1 /\ toks'[n + 1].to = to
      /\ StringTokens' = T
  BY <1>1, KindsOfPush
<1>3. n \in Nat /\ S \in SUBSET (1..n) /\ \A k \in S : k \in 1..n
  BY KindsHere
<1>4. Len(strs) = Cardinality(S)
  BY DEF StringsMatch
<1>5. /\ \A k \in S : Written(toks[k])' = Written(toks[k])
      /\ \A k : k = n + 1 => Written(toks[k])' = SubSeq(text, next - 1, to)
  BY <1>2, <1>3 DEF Written, given
<1>6. \A k \in S : <<"quote">> \o strs[Rank(S, k)] \o <<"quote">> = Written(toks[k])
  <2>1. \A k \in S : Rank(S, k) \in 1..Len(strs)
    BY <1>3, <1>4, RankHere
  <2>2. QED
    BY <1>1, <2>1 DEF StringsMatch
<1> HIDE DEF n, S
<1>7. /\ Cardinality(T) = Len(strs) + 1
      /\ Rank(T, n + 1) = Len(strs) + 1
      /\ \A k \in S : Rank(T, k) = Rank(S, k)
  BY <1>3, <1>4, RankNext DEF S
<1>8. \A k \in S : Rank(S, k) \in 1..Len(strs)
  BY <1>3, <1>4, RankHere
<1>9. \A k \in T : k \in S \/ k = n + 1
  BY DEF S
<1> HIDE DEF T
<1>10. CASE /\ strs' = Append(strs, x)
            /\ <<"quote">> \o x \o <<"quote">> = SubSeq(text, next - 1, to)
  <2>1. /\ Len(strs') = Len(strs) + 1 /\ strs'[Len(strs) + 1] = x
        /\ \A i \in 1..Len(strs) : strs'[i] = strs[i]
    BY <1>1, <1>10, AppendProperties
  <2>2. ASSUME NEW k \in T
        PROVE  <<"quote">> \o strs'[Rank(T, k)] \o <<"quote">> = Written(toks[k])'
    <3>1. CASE k \in S
      <4>1. strs'[Rank(T, k)] = strs[Rank(S, k)]
        BY <1>7, <1>8, <2>1, <3>1
      <4>2. QED
        BY <1>5, <1>6, <3>1, <4>1
    <3>2. CASE k = n + 1
      <4>1. strs'[Rank(T, k)] = x
        BY <1>7, <2>1, <3>2
      <4>2. QED
        BY <1>5, <1>10, <3>2, <4>1
    <3>3. QED
      BY <1>9, <3>1, <3>2
  <2>3. QED
    BY <1>2, <1>7, <2>1, <2>2 DEF StringsMatch, Rank
<1>11. CASE strs' = strs /\ pc' = "hung"
  <2>1. ASSUME NEW k \in T, Rank(T, k) <= Len(strs)
        PROVE  <<"quote">> \o strs[Rank(T, k)] \o <<"quote">> = Written(toks[k])'
    <3>1. k \in S
      BY <1>1, <1>7, <1>9, <2>1
    <3>2. QED
      BY <1>5, <1>6, <1>7, <3>1
  <2>2. QED
    BY <1>2, <1>7, <1>11, <2>1 DEF StringsMatch, Rank
<1>12. QED
  BY <1>10, <1>11

(* The steps that push neither a number nor a string.                      *)
LEMMA OtherTokens ==
  ASSUME Typed, Next, ~StringLiteral, ~NumberLiteral
  PROVE  /\ UNCHANGED <<given, nums, strs, NumberTokens, StringTokens>>
         /\ pc # "hung" /\ \A k \in 1..Len(toks) : toks'[k] = toks[k]
<1>1. TypeOK /\ Position /\ UNCHANGED given
  BY StepGiven DEF Typed
<1>2. /\ UNCHANGED <<nums, strs>> /\ pc # "hung"
      /\ \/ UNCHANGED toks
         \/ \E t \in TokenIds \ {"num_literal", "str_literal"}, to \in Nat : Push(t, to)
         \/ Slash
  <2>1. next - 1 \in Nat /\ next \in Nat /\ Len(text) \in Nat
    BY <1>1, TextHere DEF TypeOK
  <2>2. {"newline", "line_comment", "block_comment", "id", "keyword"} \cup CharTokens
          \subseteq TokenIds \ {"num_literal", "str_literal"}
    BY Alphabet DEF TokenIds, KeywordOrLexeme
  <2>3. CASE CharToken \/ Newline
    BY <2>1, <2>2, <2>3 DEF CharToken, Newline, Case, lexemes
  <2>4. CASE LineComment
    <3>1. LineCommentEnds # {} => Min(LineCommentEnds) \in Nat
      BY <1>1, <2>1, CommentEndsHere
    <3>2. QED
      BY <2>2, <2>4, <3>1 DEF LineComment, Case, lexemes
  <2>5. CASE BlockComment
    <3>1. BlockCommentEnds # {} => Min(BlockCommentEnds) \in Nat
      BY <1>1, <2>1, CommentEndsHere
    <3>2. QED
      BY <2>2, <2>5, <3>1 DEF BlockComment, Case, lexemes
  <2>6. CASE Identifier
    <3>1. IdentifierEnd \in Nat /\ IdentifierEnd >= 2
      BY <1>1, <2>6, IdentifierHere
    <3>2. IdentifierEnd - 1 \in Nat
      BY <3>1
    <3>3. PICK t \in {"id", "keyword"} : Push(t, IdentifierEnd - 1)
      BY <1>1, <2>6, IdentifierHere
    <3>4. pc # "hung" /\ UNCHANGED <<nums, strs>>
      BY <2>6 DEF Identifier
    <3>5. QED
      BY <2>2, <3>2, <3>3, <3>4
  <2>7. CASE Blank \/ NoIdentifier \/ EndOfFile \/ EndUnseen \/ Slash
    BY <2>7 DEF Blank, NoIdentifier, EndOfFile, EndUnseen, Slash, Case, lexemes
  <2>8. QED
    BY <2>3, <2>4, <2>5, <2>6, <2>7 DEF Next
<1>3. CASE UNCHANGED toks
  BY <1>1, <1>2, <1>3 DEF NumberTokens, StringTokens
<1>4. CASE \E t \in TokenIds \ {"num_literal", "str_literal"}, to \in Nat : Push(t, to)
  <2>1. PICK t \in TokenIds, to \in Nat :
             Push(t, to) /\ t # "num_literal" /\ t # "str_literal"
    BY <1>4
  <2>2. UNCHANGED <<NumberTokens, StringTokens>> /\ \A k \in 1..Len(toks) : toks'[k] = toks[k]
    BY <1>1, <2>1, KindsOfPush
  <2>3. QED
    BY <1>1, <1>2, <2>2
<1>5. CASE Slash
  BY <1>1, <1>2, <1>5, KindsOfSlash
<1>6. QED
  BY <1>2, <1>3, <1>4, <1>5

LEMMA MatchStep ==
  ASSUME Typed, NumbersMatch, StringsMatch, Next
  PROVE  NumbersMatch' /\ StringsMatch'
<1>1. TypeOK /\ Position /\ UNCHANGED given
  BY StepGiven DEF Typed
<1>2. CASE ~StringLiteral /\ ~NumberLiteral
  BY <1>2, OtherTokens, NumbersKept, StringsKept
<1>3. CASE NumberLiteral
  <2>1. PICK q \in Nat :
        /\ q >= 2 /\ UNCHANGED strs /\ pc = "switch"
        /\ \/ /\ Push("num_literal", q) /\ nums' = Append(nums, SubSeq(text, next - 1, q))
           \/ /\ Push("num_literal", q - 1)
              /\ nums' = Append(nums, SubSeq(text, next - 1, q - 1))
    BY <1>1, <1>3, NumberHere
  <2>2. PICK to \in Nat : Push("num_literal", to) /\ nums' = Append(nums, SubSeq(text, next - 1, to))
    <3>1. q - 1 \in Nat
      BY <2>1
    <3>2. QED
      BY <2>1, <3>1
  <2>3. SubSeq(text, next - 1, to) \in Seq(Digits \cup Suffixes \cup {"."})
    <3>1. nums' \in Seq(Seq(Digits \cup Suffixes \cup {"."})) /\ nums \in Seq(Seq(Digits \cup Suffixes \cup {"."}))
      BY <1>1, <1>3, NumberTypes DEF TypeOK
    <3>2. Len(nums') = Len(nums) + 1 /\ nums'[Len(nums) + 1] = SubSeq(text, next - 1, to)
      BY <2>2, <3>1
    <3>3. Len(nums) + 1 \in 1..Len(nums')
      BY <3>1, <3>2, LenProperties
    <3>4. QED
      BY <3>1, <3>2, <3>3, ElementOfSeq
  <2>4. NumbersMatch'
    BY <1>1, <2>2, <2>3, NumbersGrow
  <2>5. StringsMatch'
    <3>1. "num_literal" \in TokenIds
      BY DEF TokenIds, KeywordOrLexeme
    <3>2. UNCHANGED StringTokens /\ \A k \in 1..Len(toks) : toks'[k] = toks[k]
      BY <1>1, <2>2, <3>1, KindsOfPush
    <3>3. QED
      BY <1>1, <2>1, <3>2, StringsKept
  <2>6. QED
    BY <2>4, <2>5
<1>4. CASE StringLiteral
  <2>1. pc = "switch" /\ c = "quote" /\ UNCHANGED nums /\ "str_literal" \in TokenIds
        /\ next \in Nat /\ next >= 2 /\ Len(text) \in Nat
    BY <1>1, <1>4, TextHere DEF StringLiteral, Case, TokenIds, KeywordOrLexeme, TypeOK, Position
  <2>2. Char(next - 1) = "quote" /\ text[next - 1] = "quote"
    BY <1>1, <2>1, CharHere DEF Position
  <2>3. PICK to \in Nat, x \in Seq(Chars) :
        /\ Push("str_literal", to)
        /\ \/ /\ strs' = Append(strs, x)
              /\ <<"quote">> \o x \o <<"quote">> = SubSeq(text, next - 1, to)
           \/ strs' = strs /\ pc' = "hung"
    <3>1. CASE StringEnds = {}
      <4>1. Push("str_literal", Len(text)) /\ strs' = strs /\ pc' = "hung" /\ <<>> \in Seq(Chars)
        BY <1>4, <3>1, EmptySeq DEF StringLiteral, Goto
      <4>2. QED
        BY <2>1, <4>1
    <3>2. CASE StringEnds # {}
      <4>1. PICK q \in next..Len(text) :
                 /\ text[q] = "quote" /\ Push("str_literal", q)
                 /\ strs' = Append(strs, SubSeq(text, next, q - 1))
        BY <1>1, <1>4, <3>2, CommentEndsHere DEF StringLiteral
      <4>2. SubSeq(text, next, q - 1) \in Seq(Chars)
        <5>1. q - 1 \in Int /\ next \in Int /\ \A i \in next..(q - 1) : i \in 1..Len(text)
          BY <2>1
        <5>2. \A i \in next..(q - 1) : text[i] \in Chars
          BY <1>1, <5>1, TextHere
        <5>3. QED
          BY <5>1, <5>2, SubSeqProperties
      <4>3. <<"quote">> \o SubSeq(text, next, q - 1) \o <<"quote">> = SubSeq(text, next - 1, q)
        BY <2>2, <4>1, QuotedPart
      <4>4. q \in Nat
        BY <2>1
      <4>5. QED
        BY <4>1, <4>2, <4>3, <4>4
    <3>3. QED
      BY <3>1, <3>2
  <2>4. StringsMatch'
    BY <1>1, <2>1, <2>3, StringsGrow
  <2>5. NumbersMatch'
    <3>1. UNCHANGED NumberTokens /\ \A k \in 1..Len(toks) : toks'[k] = toks[k]
      BY <1>1, <2>1, <2>3, KindsOfPush
    <3>2. QED
      BY <1>1, <2>1, <3>1, NumbersKept
  <2>6. QED
    BY <2>4, <2>5
<1>5. QED
  BY <1>2, <1>3, <1>4

(* Every number has its lexeme, and so has every string that ends.         *)
LEMMA MatchStart == ASSUME Start PROVE NumbersMatch /\ StringsMatch
<1>1. toks = <<>> /\ nums = <<>> /\ strs = <<>>
  BY DEF Start
<1>2. DOMAIN <<>> = {} /\ Len(<<>>) = 0 /\ Cardinality({}) = 0
  BY EmptySeq, FS_EmptySet
<1>3. NumberTokens = {} /\ StringTokens = {}
  BY <1>1, <1>2 DEF NumberTokens, StringTokens
<1>4. QED
  BY <1>1, <1>2, <1>3 DEF NumbersMatch, StringsMatch

LEMMA MatchSame ==
  ASSUME NumbersMatch, StringsMatch, UNCHANGED vars
  PROVE  NumbersMatch' /\ StringsMatch'
BY DEF vars, given, lexemes, NumbersMatch, StringsMatch, NumberTokens, StringTokens, Rank, Written

LEMMA NumbersAndStringsMatch == Spec => [](NumbersMatch /\ StringsMatch)
<1>1. Init => NumbersMatch /\ StringsMatch
  BY InitStart, MatchStart
<1>2. Typed /\ NumbersMatch /\ StringsMatch /\ [Next]_vars => NumbersMatch' /\ StringsMatch'
  BY MatchStep, MatchSame
<1>3. QED
  BY <1>1, <1>2, TypedAlways, PTL DEF Spec

-----------------------------------------------------------------------------
(* Identifiers: tokens do not overlap but behind numbers and raw letters,  *)
(* and ids holds what is written.                                          *)

Apart ==
  /\ \A k \in 2..Len(toks) : toks[k].from <= toks[k - 1].to => AfterNumberOrSlash(k)
  /\ toks # <<>> =>
       LET last == toks[Len(toks)] IN
       /\ pc = "switch" => last.to < next - 1
       /\ pc = "identifier" =>
            /\ last.to <= next - 1
            /\ c \in Alpha /\ last.to = next - 1 => last.id \in {"num_literal"} \cup Alpha
IdsMatch ==
  /\ Cardinality(IdTokens) = Len(ids)
  /\ \A k \in IdTokens :
       ~AfterNumberOrSlash(k) => ids[Rank(IdTokens, k)] = Written(toks[k])
  /\ \A k \in DOMAIN ids : ids[k] \notin Keywords

LEMMA ApartKept ==
  ASSUME Typed, Apart, UNCHANGED toks,
         \/ pc = "switch" /\ pc' = "identifier" /\ UNCHANGED next
         \/ pc = "identifier" /\ pc' = "switch" /\ next' = next + 1
         \/ pc' \notin {"switch", "identifier"}
  PROVE  Apart'
<1>1. next \in Nat /\ (toks # <<>> => toks[Len(toks)].to \in Nat)
  <2>1. toks # <<>> => Len(toks) \in 1..Len(toks)
    BY LineTypes, EmptySeq
  <2>2. QED
    BY <2>1, LineTypes DEF Tokens
<1>2. (\A k \in 2..Len(toks) : toks[k].from <= toks[k - 1].to => AfterNumberOrSlash(k))'
  BY DEF Apart, AfterNumberOrSlash
<1>3. QED
  BY <1>1, <1>2 DEF Apart

LEMMA ApartPush ==
  ASSUME Typed, Apart, UNCHANGED given, NEW t \in TokenIds, NEW to \in Nat, Push(t, to),
         pc = "switch" \/ (pc = "identifier" /\ c \in Alpha),
         pc' = "switch" => to < next' - 1,
         pc' = "identifier" =>
           to <= next' - 1 /\ (c' \in Alpha => t \in {"num_literal"} \cup Alpha)
  PROVE  Apart'
<1> DEFINE n == Len(toks)
<1>1. /\ n \in Nat /\ \A k \in 1..n : toks'[k] = toks[k] /\ toks[k] \in Tokens
      /\ toks'[n + 1].id = t /\ toks'[n + 1].from = next - 1 /\ toks'[n + 1].to = to
      /\ Len(toks') = n + 1 /\ next \in Nat /\ (toks # <<>> <=> n > 0)
  BY LineTypes, KindsOfPush, EmptySeq
<1>2. ASSUME NEW k \in 2..(n + 1), toks'[k].from <= toks'[k - 1].to
      PROVE  toks'[k - 1].id \in {"num_literal"} \cup Alpha
  <2>1. CASE k = n + 1
    <3>1. k - 1 = n /\ n \in 1..n /\ toks # <<>>
      BY <1>1, <2>1
    <3>2. toks'[n] = toks[n] /\ toks[n].to \in Nat
      BY <1>1, <3>1 DEF Tokens
    <3>3. next - 1 <= toks[n].to
      BY <1>1, <1>2, <2>1, <3>1, <3>2
    <3>4. CASE pc = "switch"
      <4>1. toks[n].to < next - 1
        BY <3>1, <3>4 DEF Apart
      <4>2. QED
        BY <1>1, <3>2, <3>3, <4>1
    <3>5. CASE pc = "identifier" /\ c \in Alpha
      <4>1. toks[n].to <= next - 1
        BY <3>1, <3>5 DEF Apart
      <4>2. toks[n].to = next - 1
        BY <1>1, <3>2, <3>3, <4>1
      <4>3. QED
        BY <3>1, <3>2, <3>5, <4>2 DEF Apart
    <3>6. QED
      BY <3>4, <3>5
  <2>2. CASE k # n + 1
    <3>1. k \in 2..n /\ k \in 1..n /\ k - 1 \in 1..n
      BY <1>1, <2>2
    <3>2. QED
      BY <1>1, <1>2, <3>1 DEF Apart, AfterNumberOrSlash
  <2>3. QED
    BY <2>1, <2>2
<1>3. (\A k \in 2..Len(toks) : toks[k].from <= toks[k - 1].to => AfterNumberOrSlash(k))'
  BY <1>1, <1>2 DEF AfterNumberOrSlash
<1>4. QED
  BY <1>1, <1>3 DEF Apart

LEMMA ApartSlash ==
  ASSUME Typed, Apart, UNCHANGED given, Slash
  PROVE  Apart'
<1> DEFINE n == Len(toks)
<1>1. /\ n \in Nat /\ \A k \in 1..n : toks'[k] = toks[k] /\ toks[k] \in Tokens
      /\ next \in Nat /\ (toks # <<>> <=> n > 0)
  BY LineTypes, SlashTokens, EmptySeq DEF Typed
<1>2. /\ Len(toks') = n + 2
      /\ toks'[n + 1].to = next - 1 /\ toks'[n + 1].from = next - 1
      /\ toks'[n + 2].from = next /\ toks'[n + 2].to = next
      /\ toks'[n + 2].id = RawToken(Char(next))
  BY SlashTokens DEF Typed
<1>3. /\ next' = next + 1 /\ c' = Char(next) /\ pc = "switch" /\ pc' = "identifier"
  BY DEF Slash, ReadTo, Case, EndCase, Goto
<1>4. ASSUME NEW k \in 2..(n + 2), toks'[k].from <= toks'[k - 1].to
      PROVE  toks'[k - 1].id \in {"num_literal"} \cup Alpha
  <2>1. CASE k = n + 2
    <3>1. k - 1 = n + 1
      BY <1>1, <2>1
    <3>2. next <= next - 1
      BY <1>2, <1>4, <2>1, <3>1
    <3>3. QED
      BY <1>1, <3>2
  <2>2. CASE k = n + 1
    <3>1. k - 1 = n /\ n \in 1..n /\ toks # <<>>
      BY <1>1, <2>2
    <3>2. toks'[n] = toks[n] /\ toks[n].to \in Nat
      BY <1>1, <3>1 DEF Tokens
    <3>3. next - 1 <= toks[n].to /\ toks[n].to < next - 1
      BY <1>2, <1>3, <1>4, <2>2, <3>1, <3>2 DEF Apart
    <3>4. QED
      BY <1>1, <3>2, <3>3
  <2>3. CASE k \notin {n + 1, n + 2}
    <3>1. k \in 2..n /\ k \in 1..n /\ k - 1 \in 1..n
      BY <1>1, <2>3
    <3>2. QED
      BY <1>1, <1>4, <3>1 DEF Apart, AfterNumberOrSlash
  <2>4. QED
    BY <2>1, <2>2, <2>3
<1>5. (\A k \in 2..Len(toks) : toks[k].from <= toks[k - 1].to => AfterNumberOrSlash(k))'
  BY <1>1, <1>2, <1>4 DEF AfterNumberOrSlash
<1>6. c' \in Alpha => RawToken(Char(next)) \in Alpha
  BY <1>3, Alphabet DEF RawToken
<1>7. next <= next' - 1
  BY <1>1, <1>3
<1>8. QED
  BY <1>1, <1>2, <1>3, <1>5, <1>6, <1>7 DEF Apart

LEMMA ApartStep ==
  ASSUME Typed, Apart, Next
  PROVE  Apart'
<1>1. /\ TypeOK /\ Position /\ UNCHANGED given /\ next \in Nat /\ next >= 2
      /\ next - 1 \in Nat /\ Len(text) \in Nat
  BY StepGiven, TextHere DEF Typed, TypeOK, Position
<1>2. {"newline", "line_comment", "block_comment"} \cup KeywordOrLexeme \cup CharTokens
        \subseteq TokenIds
  BY Alphabet DEF TokenIds
<1>3. CASE Blank \/ NoIdentifier \/ EndOfFile \/ EndUnseen
  <2>1. UNCHANGED toks
    BY <1>3 DEF Blank, NoIdentifier, EndOfFile, EndUnseen
  <2>2. \/ pc = "switch" /\ pc' = "identifier" /\ UNCHANGED next
        \/ pc = "identifier" /\ pc' = "switch" /\ next' = next + 1
        \/ pc' \notin {"switch", "identifier"}
    BY <1>3 DEF Blank, NoIdentifier, EndOfFile, EndUnseen, Case, EndCase, Goto, ReadAfter
  <2>3. QED
    BY <2>1, <2>2, ApartKept
<1>4. CASE CharToken \/ Newline
  <2>1. PICK t \in TokenIds : Push(t, next - 1)
    BY <1>2, <1>4 DEF CharToken, Newline, Case
  <2>2. pc = "switch" /\ pc' = "identifier" /\ UNCHANGED <<c, next>> /\ c \notin Alpha
    BY <1>4, Alphabet DEF CharToken, Newline, Case, EndCase, Goto
  <2>3. next - 1 <= next' - 1 /\ c' \notin Alpha
    BY <1>1, <2>2
  <2>4. QED
    BY <1>1, <2>1, <2>2, <2>3, ApartPush
<1>5. ASSUME NEW q \in Nat, NEW t \in TokenIds, Push(t, q), ReadTo(q), pc = "switch",
             pc' = "identifier", Char(q) \notin Alpha \/ t = "num_literal"
      PROVE  Apart'
  <2>1. q <= next' - 1 /\ c' = Char(q)
    BY <1>5 DEF ReadTo
  <2>2. QED
    BY <1>1, <1>5, <2>1, ApartPush
<1>6. CASE LineComment
  <2>1. CASE LineCommentEnds = {}
    BY <1>6, <2>1, ApartKept DEF LineComment, Goto
  <2>2. CASE LineCommentEnds # {}
    <3>1. Min(LineCommentEnds) \in Nat /\ Char(Min(LineCommentEnds)) \notin Alpha
      BY <1>1, <2>2, CommentEndsHere, Alphabet
    <3>2. QED
      BY <1>2, <1>5, <1>6, <2>2, <3>1 DEF LineComment, Case, EndCase, Goto
  <2>3. QED
    BY <2>1, <2>2
<1>7. CASE BlockComment
  <2>1. CASE pc' \in {"aborted", "hung"}
    BY <1>7, <2>1, ApartKept DEF BlockComment, EndCase, Goto
  <2>2. CASE pc' \notin {"aborted", "hung"}
    <3>1. BlockCommentEnds # {} /\ Push("block_comment", Min(BlockCommentEnds))
          /\ ReadTo(Min(BlockCommentEnds)) /\ pc' = "identifier" /\ pc = "switch"
      BY <1>7, <2>2 DEF BlockComment, Case, EndCase, Goto
    <3>2. Min(BlockCommentEnds) \in Nat /\ Char(Min(BlockCommentEnds)) \notin Alpha
      BY <1>1, <3>1, CommentEndsHere, Alphabet
    <3>3. QED
      BY <1>2, <1>5, <3>1, <3>2
  <2>3. QED
    BY <2>1, <2>2
<1>8. CASE Slash
  BY <1>1, <1>8, ApartSlash
<1>9. CASE StringLiteral
  <2>1. "str_literal" \in TokenIds /\ pc = "switch"
    BY <1>2, <1>9 DEF KeywordOrLexeme, StringLiteral, Case
  <2>2. CASE StringEnds = {}
    <3>1. Push("str_literal", Len(text)) /\ pc' = "hung"
      BY <1>9, <2>2 DEF StringLiteral, Goto
    <3>2. QED
      BY <1>1, <2>1, <3>1, ApartPush
  <2>3. CASE StringEnds # {}
    <3>1. Min(StringEnds) \in Nat /\ Char(Min(StringEnds)) \notin Alpha
      BY <1>1, <2>3, CommentEndsHere, Alphabet
    <3>2. QED
      BY <1>5, <1>9, <2>1, <2>3, <3>1 DEF StringLiteral, EndCase, Goto
  <2>4. QED
    BY <2>2, <2>3
<1>10. CASE NumberLiteral
  <2>1. PICK q \in Nat :
        /\ q >= 2 /\ pc = "switch" /\ pc' = "identifier"
        /\ \/ Push("num_literal", q) /\ ReadTo(q)
           \/ Push("num_literal", q - 1) /\ ReadToUnget(q)
    BY <1>1, <1>10, NumberHere
  <2>2. "num_literal" \in TokenIds /\ q - 1 \in Nat
    BY <1>2, <2>1 DEF KeywordOrLexeme
  <2>3. CASE Push("num_literal", q) /\ ReadTo(q)
    BY <1>5, <2>1, <2>2, <2>3
  <2>4. CASE Push("num_literal", q - 1) /\ ReadToUnget(q)
    <3>1. next' = q \/ next' = q + 1
      BY <2>4 DEF ReadToUnget, Ungot
    <3>2. q - 1 <= next' - 1
      BY <2>1, <3>1
    <3>3. QED
      BY <1>1, <2>1, <2>2, <2>4, <3>2, ApartPush
  <2>5. QED
    BY <2>1, <2>3, <2>4
<1>11. CASE Identifier
  <2>1. PICK q \in Nat, u \in Nat, t \in {"id", "keyword"} :
        /\ q >= 2 /\ u >= q /\ pc = "identifier" /\ pc' = "switch" /\ c \in Alpha
        /\ Push(t, q - 1) /\ ReadAfter(u)
    BY <1>1, <1>11, IdentifierHere
  <2>2. q - 1 \in Nat /\ t \in TokenIds
    BY <1>2, <2>1 DEF KeywordOrLexeme
  <2>3. q - 1 < next' - 1
    BY <2>1 DEF ReadAfter
  <2>4. QED
    BY <1>1, <2>1, <2>2, <2>3, ApartPush
<1>12. QED
  BY <1>3, <1>4, <1>6, <1>7, <1>8, <1>9, <1>10, <1>11 DEF Next

LEMMA IdsKept ==
  ASSUME Typed, UNCHANGED <<given, ids, IdTokens>>, IdsMatch,
         \A k \in 1..Len(toks) : toks'[k] = toks[k]
  PROVE  IdsMatch'
<1>1. ASSUME NEW k \in IdTokens
      PROVE  /\ Written(toks[k])' = Written(toks[k])
             /\ AfterNumberOrSlash(k)' <=> AfterNumberOrSlash(k)
  <2>1. k \in 1..Len(toks) /\ Len(toks) \in Nat
    BY KindsHere
  <2>2. k > 1 => k - 1 \in 1..Len(toks)
    BY <2>1
  <2>3. toks'[k] = toks[k] /\ (k > 1 => toks'[k - 1] = toks[k - 1])
    BY <2>1, <2>2
  <2>4. Written(toks[k])' = Written(toks[k])
    BY <2>3 DEF given, Written
  <2>5. AfterNumberOrSlash(k)' <=> AfterNumberOrSlash(k)
    BY <2>3 DEF AfterNumberOrSlash
  <2>6. QED
    BY <2>4, <2>5
<1>2. QED
  BY <1>1 DEF IdsMatch, Rank

LEMMA IdsGrow ==
  ASSUME Typed, UNCHANGED given, IdsMatch, NEW to \in Nat, Push("id", to),
         Char(next - 1) # "eof", NEW x \in Seq(Alnum), x \notin Keywords,
         ids' = Append(ids, x),
         (toks # <<>> /\ toks[Len(toks)].id = "num_literal") \/ x = SubSeq(text, next - 1, to)
  PROVE  IdsMatch'
<1> DEFINE n == Len(toks)
           S == IdTokens
           T == IdTokens \cup {n + 1}
<1>1. "id" \in TokenIds /\ ids \in Seq(Seq(Alnum))
  BY DEF TokenIds, KeywordOrLexeme, Typed, TypeOK
<1>2. /\ \A k \in 1..n : toks'[k] = toks[k]
      /\ toks'[n + 1].from = next - 1 /\ toks'[n + 1].to = to
      /\ IdTokens' = T
  BY <1>1, KindsOfPush
<1>3. n \in Nat /\ S \in SUBSET (1..n) /\ (toks # <<>> => n > 0)
  BY KindsHere, LineTypes, EmptySeq
<1>4. Len(ids) = Cardinality(S)
  BY DEF IdsMatch
<1>5. ASSUME NEW k \in S
      PROVE  /\ Written(toks[k])' = Written(toks[k])
             /\ AfterNumberOrSlash(k)' <=> AfterNumberOrSlash(k)
  <2>1. k \in 1..n
    BY <1>3
  <2>2. k > 1 => k - 1 \in 1..n
    BY <1>3, <2>1
  <2>3. toks'[k] = toks[k] /\ (k > 1 => toks'[k - 1] = toks[k - 1])
    BY <1>2, <2>1, <2>2
  <2>4. Written(toks[k])' = Written(toks[k])
    BY <2>3 DEF given, Written
  <2>5. AfterNumberOrSlash(k)' <=> AfterNumberOrSlash(k)
    BY <2>3 DEF AfterNumberOrSlash
  <2>6. QED
    BY <2>4, <2>5
<1>6. ASSUME NEW k, k = n + 1
      PROVE  ~AfterNumberOrSlash(k)' => Written(toks[k])' = x
  <2>1. Written(toks[k])' = SubSeq(text, next - 1, to)
    BY <1>2, <1>6 DEF Written, given
  <2>2. toks # <<>> /\ toks[Len(toks)].id = "num_literal" => AfterNumberOrSlash(k)'
    <3>1. SUFFICES ASSUME toks # <<>>, toks[n].id = "num_literal"
                   PROVE  AfterNumberOrSlash(k)'
      OBVIOUS
    <3>2. k > 1 /\ k - 1 = n /\ n \in 1..n
      BY <1>3, <1>6, <3>1
    <3>3. toks'[k - 1].id = "num_literal"
      BY <1>2, <3>1, <3>2
    <3>4. QED
      BY <3>2, <3>3 DEF AfterNumberOrSlash
  <2>3. QED
    BY <2>1, <2>2
<1>7. \A k \in T : k \in S \/ k = n + 1
  OBVIOUS
<1> HIDE DEF n, S
<1>8. /\ Cardinality(T) = Cardinality(S) + 1
      /\ Rank(T, n + 1) = Len(ids) + 1
      /\ \A k \in S : Rank(T, k) = Rank(S, k)
  BY <1>3, <1>4, RankNext DEF S
<1>9. \A k \in S : Rank(S, k) \in 1..Len(ids)
  BY <1>3, <1>4, RankHere
<1> HIDE DEF T
<1>10. /\ Len(ids') = Len(ids) + 1 /\ ids'[Len(ids) + 1] = x
       /\ \A i \in 1..Len(ids) : ids'[i] = ids[i]
       /\ DOMAIN ids = 1..Len(ids) /\ DOMAIN ids' = 1..(Len(ids) + 1) /\ Len(ids) \in Nat
  <2>1. Append(ids, x) \in Seq(Seq(Alnum)) /\ Len(Append(ids, x)) = Len(ids) + 1
        /\ Append(ids, x)[Len(ids) + 1] = x
        /\ \A i \in 1..Len(ids) : Append(ids, x)[i] = ids[i]
    BY <1>1, AppendProperties
  <2>2. DOMAIN ids = 1..Len(ids) /\ Len(ids) \in Nat
    BY <1>1, LenProperties
  <2>3. DOMAIN Append(ids, x) = 1..(Len(ids) + 1)
    BY <2>1, LenProperties
  <2>4. QED
    BY <2>1, <2>2, <2>3
<1>11. ASSUME NEW k \in T, ~AfterNumberOrSlash(k)'
       PROVE  ids'[Rank(T, k)] = Written(toks[k])'
  <2>1. CASE k \in S
    <3>1. ids'[Rank(T, k)] = ids[Rank(S, k)]
      BY <1>8, <1>9, <1>10, <2>1
    <3>2. ids[Rank(S, k)] = Written(toks[k])
      BY <1>5, <1>11, <2>1 DEF IdsMatch, S
    <3>3. QED
      BY <1>5, <2>1, <3>1, <3>2
  <2>2. CASE k = n + 1
    BY <1>6, <1>8, <1>10, <1>11, <2>2
  <2>3. QED
    BY <1>7, <2>1, <2>2
<1>12. \A k \in DOMAIN ids' : ids'[k] \notin Keywords
  <2>1. \A k \in DOMAIN ids' : k \in 1..Len(ids) \/ k = Len(ids) + 1
    BY <1>10
  <2>2. QED
    BY <1>10, <2>1 DEF IdsMatch
<1>13. Cardinality(T) = Len(ids')
  BY <1>4, <1>8, <1>10
<1>14. QED
  BY <1>2, <1>11, <1>12, <1>13 DEF IdsMatch, Rank

LEMMA IdsStep ==
  ASSUME Typed, IdsMatch, Next
  PROVE  IdsMatch'
<1>1. TypeOK /\ Position /\ UNCHANGED given
  BY StepGiven DEF Typed
<1>2. \A t \in {"num_literal", "str_literal", "keyword"} : t \in TokenIds /\ t # "id"
  BY DEF TokenIds, KeywordOrLexeme
<1>3. ASSUME NEW t \in TokenIds, NEW to \in Nat, Push(t, to), t # "id", UNCHANGED ids
      PROVE  IdsMatch'
  <2>1. UNCHANGED IdTokens /\ \A k \in 1..Len(toks) : toks'[k] = toks[k]
    BY <1>1, <1>3, KindsOfPush
  <2>2. QED
    BY <1>1, <1>3, <2>1, IdsKept
<1>4. CASE UNCHANGED <<toks, ids>>
  <2>1. UNCHANGED IdTokens
    BY <1>1, <1>4, NamedStays DEF IdTokens, Named, given, Char, NoByte
  <2>2. QED
    BY <1>1, <1>4, <2>1, IdsKept
<1>5. CASE Blank \/ NoIdentifier \/ EndOfFile \/ EndUnseen
  BY <1>4, <1>5 DEF Blank, NoIdentifier, EndOfFile, EndUnseen, lexemes
<1>6. CASE CharToken \/ Newline \/ LineComment \/ BlockComment
  <2>1. UNCHANGED ids
    BY <1>6 DEF CharToken, Newline, LineComment, BlockComment, lexemes
  <2>2. UNCHANGED toks \/ \E t \in TokenIds, to \in Nat : Push(t, to) /\ t # "id"
    <3>1. next - 1 \in Nat
      BY <1>1 DEF TypeOK
    <3>2. CharTokens \cup {"newline", "line_comment", "block_comment"} \subseteq TokenIds \ {"id"}
      BY Alphabet DEF TokenIds
    <3>3. (LineCommentEnds # {} => Min(LineCommentEnds) \in Nat)
          /\ (BlockCommentEnds # {} => Min(BlockCommentEnds) \in Nat)
      BY <1>1, CommentEndsHere, TextHere DEF TypeOK
    <3>4. QED
      BY <1>6, <3>1, <3>2, <3>3 DEF CharToken, Newline, LineComment, BlockComment, Case
  <2>3. QED
    BY <1>3, <1>4, <2>1, <2>2
<1>7. CASE Slash
  <2>1. UNCHANGED ids
    BY <1>7 DEF Slash, lexemes
  <2>2. UNCHANGED IdTokens /\ \A k \in 1..Len(toks) : toks'[k] = toks[k]
    BY <1>1, <1>7, KindsOfSlash
  <2>3. QED
    BY <1>1, <2>1, <2>2, IdsKept
<1>8. CASE StringLiteral
  <2>1. PICK to \in Nat : Push("str_literal", to)
    <3>1. Len(text) \in Nat /\ (StringEnds # {} => Min(StringEnds) \in Nat)
      BY <1>1, CommentEndsHere, TextHere DEF TypeOK
    <3>2. QED
      BY <1>8, <3>1 DEF StringLiteral
  <2>2. UNCHANGED ids
    BY <1>8 DEF StringLiteral
  <2>3. QED
    BY <1>2, <1>3, <2>1, <2>2
<1>9. CASE NumberLiteral
  <2>1. PICK to \in Nat : Push("num_literal", to)
    <3>1. NumberEnd \in Nat /\ NumberEnd >= 2
      BY <1>1, <1>9, NumberHere
    <3>2. NumberEnd - 1 \in Nat
      BY <3>1
    <3>3. QED
      BY <1>9, <3>1, <3>2 DEF NumberLiteral
  <2>2. UNCHANGED ids
    BY <1>9 DEF NumberLiteral
  <2>3. QED
    BY <1>2, <1>3, <2>1, <2>2
<1>10. CASE Identifier
  <2>1. PICK q \in Nat :
        /\ q \in next..(Len(text) + 1) /\ q >= 2 /\ next \in Nat /\ next >= 2 /\ c \in Alpha
        /\ pc = "identifier" /\ Char(next - 1) \notin {"eof", "ff"}
        /\ c = Char(next - 1) => text[next - 1] = c
        /\ \A j \in next..(q - 1) : text[j] \in Alnum
        /\ Push(IF Spelling(q) \in Keywords THEN "keyword" ELSE "id", q - 1)
        /\ StoreId(Spelling(q))
    BY <1>1, <1>10, IdentifierHere
  <2>2. q - 1 \in Nat
    BY <2>1
  <2>3. CASE Spelling(q) \in Keywords
    <3>1. Push("keyword", q - 1) /\ UNCHANGED ids
      BY <2>1, <2>3 DEF StoreId
    <3>2. QED
      BY <1>2, <1>3, <2>2, <3>1
  <2>4. CASE Spelling(q) \notin Keywords
    <3> DEFINE x == <<c>> \o SubSeq(text, next, q - 1)
    <3>1. Push("id", q - 1) /\ ids' = Append(ids, x) /\ x \notin Keywords
      BY <2>1, <2>4 DEF StoreId, Spelling
    <3>2. x \in Seq(Alnum)
      <4>1. SubSeq(text, next, q - 1) \in Seq(Alnum)
        <5>1. next \in Int /\ q - 1 \in Int
          BY <2>1
        <5>2. QED
          BY <2>1, <5>1, SubSeqProperties
      <4>2. <<c>> \in Seq(Alnum)
        BY <2>1, Alphabet
      <4>3. QED
        BY <4>1, <4>2, ConcatProperties
    <3>3. (toks # <<>> /\ toks[Len(toks)].id = "num_literal") \/ x = SubSeq(text, next - 1, q - 1)
      <4>1. CASE BehindNumber
        BY <4>1 DEF BehindNumber
      <4>2. CASE c = Char(next - 1)
        <5>1. text \in Seq(Chars) /\ Len(text) \in Nat /\ text[next - 1] = c
          BY <1>1, <2>1, <4>2, TextHere
        <5>2. next - 1 \in 1..Len(text) /\ q - 1 \in (next - 1)..Len(text) /\ (next - 1) + 1 = next
          BY <2>1, <5>1
        <5>3. SubSeq(text, next - 1, q - 1)
                = <<text[next - 1]>> \o SubSeq(text, (next - 1) + 1, q - 1)
          BY <5>1, <5>2, SubSeqRecursiveFirst
        <5>4. QED
          BY <5>1, <5>2, <5>3
      <4>3. QED
        BY <1>1, <2>1, <4>1, <4>2 DEF Position
    <3>4. Char(next - 1) # "eof"
      BY <2>1
    <3> HIDE DEF x
    <3>5. QED
      BY <1>1, <2>2, <3>1, <3>2, <3>3, <3>4, IdsGrow
  <2>5. QED
    BY <2>3, <2>4
<1>11. QED
  BY <1>5, <1>6, <1>7, <1>8, <1>9, <1>10 DEF Next

LEMMA IdsSame ==
  ASSUME Typed, Apart, IdsMatch, UNCHANGED vars
  PROVE  Apart' /\ IdsMatch'
<1>1. UNCHANGED <<given, toks, ids, pc, c, next>>
  BY DEF vars, lexemes
<1>2. Apart'
  BY <1>1 DEF Apart, AfterNumberOrSlash
<1>3. UNCHANGED IdTokens
  BY <1>1 DEF IdTokens, Named, given, Char, NoByte
<1>4. QED
  BY <1>1, <1>2, <1>3, IdsKept

LEMMA IdsStart == ASSUME Start PROVE Apart /\ IdsMatch
<1>1. toks = <<>> /\ ids = <<>>
  BY DEF Start
<1>2. DOMAIN <<>> = {} /\ Len(<<>>) = 0 /\ Cardinality({}) = 0 /\ 2..0 = {}
  BY EmptySeq, FS_EmptySet
<1>3. IdTokens = {}
  BY <1>1, <1>2 DEF IdTokens
<1>4. QED
  BY <1>1, <1>2, <1>3 DEF Apart, IdsMatch

LEMMA IdentifiersMatch == Spec => [](Apart /\ IdsMatch)
<1>1. Init => Apart /\ IdsMatch
  BY InitStart, IdsStart
<1>2. Typed /\ Apart /\ IdsMatch /\ [Next]_vars => Apart' /\ IdsMatch'
  <2>1. SUFFICES ASSUME Typed, Apart, IdsMatch, [Next]_vars PROVE Apart' /\ IdsMatch'
    OBVIOUS
  <2>2. CASE UNCHANGED vars
    BY <2>1, <2>2, IdsSame
  <2>3. CASE Next
    BY <2>1, <2>3, ApartStep, IdsStep
  <2>4. QED
    BY <2>1, <2>2, <2>3
<1>3. QED
  BY <1>1, <1>2, TypedAlways, PTL DEF Spec

(* The counts by which the dump and the parser find the lexeme of a token  *)
(* agree with the vectors, and the lexemes of numbers and strings are      *)
(* their spelling.                                                         *)
THEOREM LexemesAgree == Spec => []LexemesMatchTokens
<1>1. NumbersMatch /\ StringsMatch /\ IdsMatch => LexemesMatchTokens
  BY DEF NumbersMatch, StringsMatch, IdsMatch, LexemesMatchTokens
<1>2. QED
  BY <1>1, NumbersAndStringsMatch, IdentifiersMatch, PTL

(* Tokens overlap only behind a number or a raw letter, and any other      *)
(* identifier is spelled as it is written.                                 *)
THEOREM IdentifiersAsWritten == Spec => []IdentifiersSpelledAsWritten
<1>1. Apart /\ IdsMatch => IdentifiersSpelledAsWritten
  BY DEF Apart, IdsMatch, IdentifiersSpelledAsWritten
<1>2. QED
  BY <1>1, IdentifiersMatch, PTL
-----------------------------------------------------------------------------
(* Keywords: behind a number without a suffix the identifier code has the  *)
(* first letter twice, so a keyword may be written with one letter less.   *)

KeywordSpelling(k) == IF text[k.from] \in Alpha THEN SubSeq(text, k.from, k.to)
                      ELSE <<text[k.from + 1]>> \o SubSeq(text, k.from + 1, k.to)
KeywordsSpelled ==
  \A k \in DOMAIN toks : toks[k].id = "keyword" => KeywordSpelling(toks[k]) \in Keywords

LEMMA KeywordHere ==
  ASSUME Typed, Identifier
  PROVE  \E q \in Nat :
           /\ q >= 1
           /\ Push(IF Spelling(q) \in Keywords THEN "keyword" ELSE "id", q - 1)
           /\ \A k : k.from = next - 1 /\ k.to = q - 1 => KeywordSpelling(k) = Spelling(q)
<1>1. TypeOK /\ Position
  BY DEF Typed
<1>2. PICK q \in Nat :
        /\ q \in next..(Len(text) + 1) /\ q >= 2 /\ next \in Nat /\ next >= 2 /\ c \in Alpha
        /\ pc = "identifier" /\ Char(next - 1) \notin {"eof", "ff"}
        /\ c = Char(next - 1) => text[next - 1] = c
        /\ Push(IF Spelling(q) \in Keywords THEN "keyword" ELSE "id", q - 1)
  BY <1>1, IdentifierHere
<1>3. CASE c = Char(next - 1)
  <2>1. text \in Seq(Chars) /\ Len(text) \in Nat /\ text[next - 1] = c
    BY <1>1, <1>2, <1>3, TextHere
  <2>2. next - 1 \in 1..Len(text) /\ q - 1 \in (next - 1)..Len(text) /\ (next - 1) + 1 = next
    BY <1>2, <2>1
  <2>3. SubSeq(text, next - 1, q - 1) = <<text[next - 1]>> \o SubSeq(text, (next - 1) + 1, q - 1)
    BY <2>1, <2>2, SubSeqRecursiveFirst
  <2>4. Spelling(q) = SubSeq(text, next - 1, q - 1)
    BY <2>1, <2>2, <2>3 DEF Spelling
  <2>5. q >= 1
    BY <1>2
  <2>6. QED
    BY <1>2, <2>1, <2>4, <2>5 DEF KeywordSpelling
<1>4. CASE BehindNumber
  <2>1. c = Char(next) /\ Char(next - 1) \in Digits \cup {"."}
    BY <1>4 DEF BehindNumber
  <2>2. text[next] = c
    <3>1. Char(next) \notin {"eof", "ff"}
      BY <1>2, <2>1, Alphabet
    <3>2. QED
      BY <1>1, <1>2, <2>1, <3>1, CharHere
  <2>3. text[next - 1] \notin Alpha
    <3>1. text[next - 1] = Char(next - 1)
      BY <1>1, <1>2, ScanFrom
    <3>2. QED
      BY <2>1, <3>1, Alphabet DEF Alpha, Digits
  <2>4. (next - 1) + 1 = next /\ q >= 1
    BY <1>2
  <2>5. QED
    BY <1>2, <2>2, <2>3, <2>4 DEF KeywordSpelling, Spelling
<1>5. QED
  BY <1>1, <1>2, <1>3, <1>4 DEF Position

(* Only the identifier code makes a keyword.                               *)
LEMMA NoOtherKeyword ==
  ASSUME Typed, Next, ~Identifier
  PROVE  \/ UNCHANGED toks
         \/ \E t \in TokenIds \ {"keyword"}, to \in Nat : Push(t, to)
         \/ Slash
<1>1. TypeOK /\ Position
  BY DEF Typed
<1>2. next - 1 \in Nat /\ next \in Nat /\ Len(text) \in Nat
  BY <1>1, TextHere DEF TypeOK
<1>3. CharTokens \cup {"newline", "line_comment", "block_comment", "num_literal", "str_literal"}
        \subseteq TokenIds \ {"keyword"}
  BY Alphabet DEF TokenIds, KeywordOrLexeme
<1>4. CASE CharToken \/ Newline
  BY <1>2, <1>3, <1>4 DEF CharToken, Newline, Case
<1>5. CASE LineComment \/ BlockComment
  <2>1. /\ LineCommentEnds # {} => Min(LineCommentEnds) \in Nat
        /\ BlockCommentEnds # {} => Min(BlockCommentEnds) \in Nat
    BY <1>1, <1>2, CommentEndsHere
  <2>2. QED
    BY <1>3, <1>5, <2>1 DEF LineComment, BlockComment
<1>6. CASE StringLiteral
  <2>1. StringEnds # {} => Min(StringEnds) \in Nat
    BY <1>1, <1>2, CommentEndsHere
  <2>2. QED
    BY <1>2, <1>3, <1>6, <2>1 DEF StringLiteral
<1>7. CASE NumberLiteral
  <2>1. NumberEnd \in Nat /\ NumberEnd >= 2
    BY <1>1, <1>7, NumberHere
  <2>2. NumberEnd - 1 \in Nat
    BY <2>1
  <2>3. QED
    BY <1>3, <1>7, <2>1, <2>2 DEF NumberLiteral
<1>8. CASE Blank \/ NoIdentifier \/ EndOfFile \/ EndUnseen \/ Slash
  BY <1>8 DEF Blank, NoIdentifier, EndOfFile, EndUnseen
<1>9. QED
  BY <1>4, <1>5, <1>6, <1>7, <1>8 DEF Next

LEMMA KeywordsKept ==
  ASSUME KeywordsSpelled, UNCHANGED given, DOMAIN toks \subseteq DOMAIN toks',
         \A k \in DOMAIN toks : toks'[k] = toks[k],
         \A k \in DOMAIN toks' \ DOMAIN toks :
           toks'[k].id = "keyword" => KeywordSpelling(toks'[k]) \in Keywords
  PROVE  KeywordsSpelled'
<1>1. ASSUME NEW k \in DOMAIN toks', toks'[k].id = "keyword"
      PROVE  KeywordSpelling(toks'[k]) \in Keywords
  BY <1>1 DEF KeywordsSpelled
<1>2. ASSUME NEW k \in DOMAIN toks'
      PROVE  KeywordSpelling(toks[k])' = KeywordSpelling(toks'[k])
  BY DEF KeywordSpelling, given
<1>3. QED
  BY <1>1, <1>2 DEF KeywordsSpelled

LEMMA KeywordsStep ==
  ASSUME Typed, KeywordsSpelled, Next
  PROVE  KeywordsSpelled'
<1>1. UNCHANGED given /\ DOMAIN toks = 1..Len(toks) /\ Len(toks) \in Nat
  BY StepGiven, KindsHere
<1>2. CASE UNCHANGED toks
  BY <1>1, <1>2, KeywordsKept
<1>3. CASE \E t \in TokenIds \ {"keyword"}, to \in Nat : Push(t, to)
  <2>1. PICK t \in TokenIds, to \in Nat : Push(t, to) /\ t # "keyword"
    BY <1>3
  <2>2. /\ DOMAIN toks' = 1..(Len(toks) + 1) /\ \A k \in 1..Len(toks) : toks'[k] = toks[k]
        /\ toks'[Len(toks) + 1].id = t
    BY <1>1, <2>1, KindsOfPush
  <2>3. DOMAIN toks \subseteq DOMAIN toks'
        /\ \A k \in DOMAIN toks' \ DOMAIN toks : k = Len(toks) + 1
    BY <1>1, <2>2
  <2>4. QED
    BY <1>1, <2>1, <2>2, <2>3, KeywordsKept
<1>4. CASE Slash
  <2>1. /\ DOMAIN toks' = 1..(Len(toks) + 2) /\ \A k \in 1..Len(toks) : toks'[k] = toks[k]
    BY <1>1, <1>4, KindsOfSlash
  <2>2. toks'[Len(toks) + 1].id = "forward_slash" /\ toks'[Len(toks) + 2].id \in Chars \cup {"id"}
    BY <1>4, SlashTokens DEF Typed
  <2>3. "keyword" \notin Chars \cup {"id"}
    BY Alphabet
  <2>4. DOMAIN toks \subseteq DOMAIN toks'
        /\ \A k \in DOMAIN toks' \ DOMAIN toks : k = Len(toks) + 1 \/ k = Len(toks) + 2
    BY <1>1, <2>1
  <2>5. QED
    BY <1>1, <2>1, <2>2, <2>3, <2>4, KeywordsKept
<1>5. CASE Identifier
  <2>1. PICK q \in Nat :
          /\ q >= 1
          /\ Push(IF Spelling(q) \in Keywords THEN "keyword" ELSE "id", q - 1)
          /\ \A k : k.from = next - 1 /\ k.to = q - 1 => KeywordSpelling(k) = Spelling(q)
    BY <1>5, KeywordHere
  <2> DEFINE t == IF Spelling(q) \in Keywords THEN "keyword" ELSE "id"
  <2>2. t \in TokenIds /\ q - 1 \in Nat /\ (t = "keyword" => Spelling(q) \in Keywords)
    BY <2>1 DEF TokenIds, KeywordOrLexeme
  <2>3. Push(t, q - 1)
    BY <2>1
  <2> HIDE DEF t
  <2>4. /\ DOMAIN toks' = 1..(Len(toks) + 1) /\ \A k \in 1..Len(toks) : toks'[k] = toks[k]
        /\ toks'[Len(toks) + 1].id = t /\ toks'[Len(toks) + 1].from = next - 1
        /\ toks'[Len(toks) + 1].to = q - 1
    BY <1>1, <2>2, <2>3, KindsOfPush
  <2>5. DOMAIN toks \subseteq DOMAIN toks'
        /\ \A k \in DOMAIN toks' \ DOMAIN toks : k = Len(toks) + 1
    BY <1>1, <2>4
  <2>6. KeywordSpelling(toks'[Len(toks) + 1]) = Spelling(q)
    BY <2>1, <2>4
  <2>7. QED
    BY <1>1, <2>2, <2>4, <2>5, <2>6, KeywordsKept
<1>6. QED
  BY <1>2, <1>3, <1>4, <1>5, NoOtherKeyword

(* There are at least as many tokens id as names.                          *)
LEMMA NamesWithinIds ==
  ASSUME Typed, IdsMatch
  PROVE  Len(ids) <= Cardinality({k \in DOMAIN toks : toks[k].id = "id"})
<1> DEFINE S == {k \in DOMAIN toks : toks[k].id = "id"}
<1>1. S \in SUBSET (1..Len(toks)) /\ Len(toks) \in Nat /\ IdTokens \subseteq S
  BY KindsHere DEF IdTokens, Named
<1> HIDE DEF S
<1>2. IsFiniteSet(S)
  BY <1>1, RankHere
<1>3. Cardinality(IdTokens) <= Cardinality(S)
  BY <1>1, <1>2, FS_Subset
<1>4. QED
  BY <1>3 DEF IdsMatch, S

-----------------------------------------------------------------------------
(* How far lex() can read: past the end of the text, but not further than  *)
(* the two characters that tell it of the end.                             *)

Reached == /\ pc = "switch" => next <= Len(text) + 3
           /\ pc = "identifier" => next <= Len(text) + 2

LEMMA ReachedStart == Start => Reached
BY LenProperties DEF Start, Reached

(* A case of the switch leaves the next character where it was or reads    *)
(* forward; the end of the loop reads at least one.                        *)
LEMMA StepReads ==
  ASSUME Typed, Reached, Next
  PROVE  /\ UNCHANGED given /\ next' \in Nat
         /\ \/ pc = "switch" /\ pc' = "identifier" /\ next <= next' /\ next' <= Len(text) + 2
            \/ pc = "identifier" /\ pc' = "switch" /\ next < next' /\ next' <= Len(text) + 3
            \/ pc \in {"switch", "identifier"} /\ pc' \in {"done", "aborted", "hung"}
<1>0. /\ TypeOK /\ Position /\ next \in Nat /\ next >= 2 /\ Len(text) \in Nat
      /\ UNCHANGED given
  BY TextHere, StepGiven DEF Typed, TypeOK, Position
<1>1. CASE Blank \/ CharToken \/ Newline
  <2>1. pc = "switch" /\ pc' = "identifier" /\ next' = next /\ c = Char(next - 1)
    BY <1>0, <1>1 DEF Blank, CharToken, Newline, Case, EndCase, Goto, Position
  <2>2. next - 1 <= Len(text)
    <3>1. CASE Blank
      BY <1>0, <3>1 DEF Blank, PastEnd
    <3>2. CASE CharToken \/ Newline
      <4>1. c \notin {"eof", "ff"}
        BY <3>2, Alphabet DEF CharToken, Newline, Case
      <4>2. next \in 2..(Len(text) + 1)
        BY <1>0, <2>1, <4>1, ScanFrom
      <4> QED BY <1>0, <4>2
    <3> QED BY <1>1, <3>1, <3>2
  <2> QED BY <1>0, <2>1, <2>2
<1>2. CASE LineComment \/ BlockComment \/ StringLiteral
  <2>1. pc = "switch" /\ pc' \in {"identifier", "aborted", "hung"}
    BY <1>2 DEF LineComment, BlockComment, StringLiteral, Case, EndCase, Goto
  <2>2. CASE pc' = "identifier"
    <3>1. PICK q \in Nat : next <= q /\ q <= Len(text) /\ next' = q + 1
      BY <1>0, <1>2, <2>2, CommentEndsHere
         DEF LineComment, BlockComment, StringLiteral, ReadTo, Goto
    <3> QED BY <1>0, <2>1, <2>2, <3>1
  <2>3. CASE pc' \in {"aborted", "hung"}
    <3>1. next' = next
      BY <1>2, <2>3 DEF LineComment, BlockComment, StringLiteral, EndCase, Goto
    <3> QED BY <1>0, <2>1, <2>3, <3>1
  <2> QED BY <2>1, <2>2, <2>3
<1>3. CASE Slash
  <2>1. pc = "switch" /\ pc' = "identifier" /\ next' = next + 1 /\ Char(next - 1) = "/"
    BY <1>0, <1>3 DEF Slash, Case, EndCase, Goto, ReadTo, Position
  <2>2. next \in 2..(Len(text) + 1)
    BY <1>0, <2>1, ScanFrom
  <2> QED BY <1>0, <2>1, <2>2
<1>4. CASE NumberLiteral
  <2> DEFINE q == NumberEnd
  <2>1. /\ q \in next..(Len(text) + 1) /\ q \in Nat /\ q >= 2
        /\ pc = "switch" /\ pc' = "identifier"
        /\ ReadTo(q) \/ ReadToUnget(q)
    BY <1>0, <1>4, NumberHere
  <2> HIDE DEF q
  <2>2. next' = q \/ next' = q + 1
    BY <2>1 DEF ReadTo, ReadToUnget, Ungot
  <2> QED BY <1>0, <2>1, <2>2
<1>5. CASE Identifier
  <2> DEFINE q == IdentifierEnd
  <2>1. /\ q \in next..(Len(text) + 1) /\ q \in Nat /\ pc = "identifier" /\ pc' = "switch"
        /\ Ungot(q) = q \/ Ungot(q) = q + 1
        /\ ReadAfter(Ungot(q))
    BY <1>0, <1>5, IdentifierHere
  <2> HIDE DEF q
  <2>2. next' = q + 1 \/ next' = q + 2
    BY <2>1 DEF ReadAfter
  <2> QED BY <1>0, <2>1, <2>2
<1>6. CASE NoIdentifier
  <2>1. pc = "identifier" /\ pc' = "switch" /\ next' = next + 1
    BY <1>6 DEF NoIdentifier, Goto, ReadAfter
  <2> QED BY <1>0, <2>1 DEF Reached
<1>7. CASE EndOfFile \/ EndUnseen
  BY <1>0, <1>7 DEF EndOfFile, EndUnseen, Case, Goto
<1> QED BY <1>1, <1>2, <1>3, <1>4, <1>5, <1>6, <1>7 DEF Next

LEMMA ReachedStep ==
  ASSUME Typed, Reached, [Next]_vars
  PROVE  Reached'
<1>1. CASE UNCHANGED vars
  BY <1>1 DEF vars, given, Reached
<1>2. CASE Next
  <2>1. Len(text') = Len(text)
    BY <1>2, StepReads DEF given
  <2> QED BY <1>2, <2>1, StepReads DEF Reached
<1> QED BY <1>1, <1>2

LEMMA LessToRead ==
  ASSUME NEW n \in Nat, NEW i \in Nat, NEW j \in Nat, i <= j, j <= n
  PROVE  /\ 2 * (n - i) \in Nat /\ 2 * (n - j) \in Nat /\ 2 * (n - j) <= 2 * (n - i)
         /\ i < j => 2 * (n - j) + 2 <= 2 * (n - i)
OBVIOUS

LEMMA StepLowers ==
  ASSUME Typed, Reached, Next
  PROVE  Left' < Left /\ {Left, Left'} \subseteq Nat
<1>1. next \in Nat /\ Len(text) \in Nat /\ next' \in Nat /\ Len(text') = Len(text)
  BY TextHere, StepReads DEF Typed, TypeOK, given
<1>2. CASE pc = "switch" /\ pc' = "identifier" /\ next <= next' /\ next' <= Len(text) + 2
  <2> DEFINE l == 2 * (Len(text) + 3 - next)
             r == 2 * (Len(text) + 3 - next')
  <2>1. Left = l + 2 /\ Left' = r + 1
    BY <1>1, <1>2 DEF Left, Halted
  <2>2. l \in Nat /\ r \in Nat /\ r <= l
    BY <1>1, <1>2, LessToRead
  <2> HIDE DEF l, r
  <2> QED BY <2>1, <2>2
<1>3. CASE pc = "identifier" /\ pc' = "switch" /\ next < next' /\ next' <= Len(text) + 3
  <2> DEFINE l == 2 * (Len(text) + 3 - next)
             r == 2 * (Len(text) + 3 - next')
  <2>1. Left = l + 1 /\ Left' = r + 2
    BY <1>1, <1>3 DEF Left, Halted
  <2>2. l \in Nat /\ r \in Nat /\ r + 2 <= l
    BY <1>1, <1>3, LessToRead
  <2> HIDE DEF l, r
  <2> QED BY <2>1, <2>2
<1>4. CASE pc \in {"switch", "identifier"} /\ pc' \in {"done", "aborted", "hung"}
  <2>1. Left' = 0 /\ (Left = 2 * (Len(text) + 3 - next) + 2 \/ Left = 2 * (Len(text) + 3 - next) + 1)
    BY <1>4 DEF Left, Halted
  <2>2. next <= Len(text) + 3
    BY <1>1, <1>4 DEF Reached
  <2> QED BY <1>1, <2>1, <2>2
<1> QED BY <1>2, <1>3, <1>4, StepReads

(* On every text each step of lex() lowers the number of steps it can have *)
(* left: it returns, aborts or stands before a lexeme that does not end    *)
(* (lex.cpp:143).                                                          *)
THEOREM LexingTerminates == Spec => EachStepReadsOn
<1>1. Init => Typed /\ Reached
  BY TypedInit, InitStart, ReachedStart
<1>2. Typed /\ Reached /\ [Next]_vars => Typed' /\ Reached'
  BY TypedStep, ReachedStep
<1>3. Typed /\ Reached /\ [Next]_vars => [Left' < Left /\ {Left, Left'} \subseteq Nat]_vars
  BY StepLowers
<1> QED BY <1>1, <1>2, <1>3, PTL DEF Spec, EachStepReadsOn

-----------------------------------------------------------------------------
(* A closed text holds what every inner loop waits for.                    *)

LEMMA ClosedHere ==
  ASSUME Typed, Closed, signed, pc = "switch"
  PROVE  /\ c # "quote" /\ c # "ff"
         /\ c = "/" => Char(next) # "*"
         /\ c = "/" /\ Char(next) = "/" => LineCommentEnds # {}
<1>1. /\ TypeOK /\ Position /\ c = Char(next - 1) /\ next \in Nat /\ next >= 2
      /\ Len(text) \in Nat /\ DOMAIN text = 1..Len(text)
  BY TextHere DEF Typed, TypeOK, Position
<1>2. c # "quote"
  <2>1. ASSUME c = "quote" PROVE FALSE
    <3>1. next - 1 \in DOMAIN text /\ text[next - 1] = "quote"
      BY <1>1, <2>1, CharHere
    <3> QED BY <3>1 DEF Closed
  <2> QED BY <2>1
<1>3. c # "ff"
  BY <1>1 DEF Char, NoByte
<1>4. ASSUME c = "/"
      PROVE  Char(next) # "*" /\ next - 1 \in DOMAIN text
  <2>1. next - 1 \in DOMAIN text /\ Char(next - 1) = "/"
    BY <1>1, <1>4, CharHere
  <2>2. Char((next - 1) + 1) # "*"
    BY <2>1 DEF Closed
  <2>3. (next - 1) + 1 = next
    BY <1>1
  <2> QED BY <2>1, <2>2, <2>3
<1>5. ASSUME Char(next) = "/" PROVE LineCommentEnds # {}
  <2>1. next \in 1..Len(text) /\ text[next] = "/"
    BY <1>1, <1>5, CharHere
  <2>2. text[Len(text)] = "nl"
    BY <1>1, <2>1 DEF Closed
  <2>3. next # Len(text)
    BY <2>1, <2>2
  <2>4. \A n \in Nat : next \in 1..n /\ next # n => n \in (next + 1)..n
    BY <1>1
  <2>5. Len(text) \in (next + 1)..Len(text)
    BY <1>1, <2>1, <2>3, <2>4
  <2> QED BY <2>2, <2>5 DEF LineCommentEnds
<1> QED BY <1>2, <1>3, <1>4, <1>5

LEMMA OpenStep ==
  ASSUME Typed, OnlyOpenTextsHang, [Next]_vars
  PROVE  OnlyOpenTextsHang'
<1>1. UNCHANGED given
  BY StepGiven DEF vars
<1>2. Closed' <=> Closed
  BY <1>1 DEF given, Closed, Char, NoByte
<1>3. ASSUME signed, Closed PROVE pc' \notin {"hung", "aborted"}
  <2>1. pc \notin {"hung", "aborted"}
    BY <1>3 DEF OnlyOpenTextsHang
  <2>2. CASE LineComment
    BY <1>3, <2>2, ClosedHere DEF LineComment, Case, EndCase, Goto
  <2>3. CASE BlockComment \/ StringLiteral \/ EndUnseen
    BY <1>3, <2>3, ClosedHere DEF BlockComment, StringLiteral, EndUnseen, Case
  <2>4. CASE \/ Blank \/ CharToken \/ Newline \/ Slash \/ NumberLiteral
             \/ Identifier \/ NoIdentifier \/ EndOfFile
    BY <2>4 DEF Blank, CharToken, Newline, Slash, NumberLiteral, Identifier, NoIdentifier,
       EndOfFile, EndCase, Goto
  <2>5. CASE UNCHANGED vars
    BY <2>1, <2>5 DEF vars
  <2> QED BY <2>2, <2>3, <2>4, <2>5 DEF Next
<1>4. ASSUME ~signed PROVE pc' # "done"
  <2>1. pc # "done"
    BY <1>4 DEF OnlyOpenTextsHang
  <2>2. CASE EndOfFile
    <3>1. Char(next - 1) = "eof"
      BY <2>2 DEF EndOfFile, Case, Typed, Position
    <3> QED BY <1>4, <3>1, CharHere DEF Typed
  <2>3. CASE LineComment \/ BlockComment \/ StringLiteral \/ EndUnseen
    BY <2>3 DEF LineComment, BlockComment, StringLiteral, EndUnseen, EndCase, Goto
  <2>4. CASE \/ Blank \/ CharToken \/ Newline \/ Slash \/ NumberLiteral
             \/ Identifier \/ NoIdentifier
    BY <2>4 DEF Blank, CharToken, Newline, Slash, NumberLiteral, Identifier, NoIdentifier,
       EndCase, Goto
  <2>5. CASE UNCHANGED vars
    BY <2>1, <2>5 DEF vars
  <2> QED BY <2>2, <2>3, <2>4, <2>5 DEF Next
<1> QED BY <1>1, <1>2, <1>3, <1>4 DEF OnlyOpenTextsHang, given

(* Where char is signed lex() gets through every text that ends in a       *)
(* newline and opens no string and no block comment; where it is unsigned  *)
(* it returns on none (lex.cpp:143, 158, 168, 195).                        *)
THEOREM ClosedTextsAreLexed == Spec => []OnlyOpenTextsHang
<1>1. Init => OnlyOpenTextsHang
  BY DEF Init, OnlyOpenTextsHang
<1>2. Typed /\ OnlyOpenTextsHang /\ [Next]_vars => OnlyOpenTextsHang'
  BY OpenStep
<1> QED BY <1>1, <1>2, TypedAlways, PTL DEF Spec

-----------------------------------------------------------------------------
(* All of it, of any call of lex() that starts as Start says.              *)

CallState ==
  /\ Typed /\ LocationsNeverGoBack /\ AllLexed /\ LineState
  /\ NumbersMatch /\ StringsMatch /\ Apart /\ IdsMatch
  /\ OnlyOpenTextsHang /\ Reached

LEMMA CallStart == Start => CallState
<1>1. SUFFICES ASSUME Start PROVE CallState
  OBVIOUS
<1>2. OnlyOpenTextsHang
  BY <1>1 DEF Start, OnlyOpenTextsHang
<1>3. QED
  BY <1>1, <1>2, TypedStart, LocationsStart, LexedStart, LinesStart, MatchStart, IdsStart,
     ReachedStart DEF CallState

LEMMA CallStep == CallState /\ [Next]_vars => CallState'
<1>1. SUFFICES ASSUME CallState, [Next]_vars PROVE CallState'
  OBVIOUS
<1>2. Typed' /\ AllLexed' /\ LineState' /\ OnlyOpenTextsHang' /\ Reached'
  BY <1>1, TypedStep, LexedStep, LinesStep, OpenStep, ReachedStep DEF CallState
<1>3. LocationsNeverGoBack'
  BY <1>1, <1>2, LocationsStep DEF CallState
<1>4. NumbersMatch' /\ StringsMatch'
  BY <1>1, MatchStep, MatchSame DEF CallState
<1>5. Apart' /\ IdsMatch'
  BY <1>1, ApartStep, IdsStep, IdsSame DEF CallState
<1>6. QED
  BY <1>2, <1>3, <1>4, <1>5 DEF CallState

LEMMA CallLeft == CallState => Left \in Nat
<1>1. SUFFICES ASSUME CallState PROVE Left \in Nat
  OBVIOUS
<1>2. next \in Nat /\ Len(text) \in Nat /\ (~Halted => next <= Len(text) + 3)
  BY <1>1, TextHere DEF CallState, Typed, TypeOK, Reached, Halted
<1>3. ~Halted => 2 * (Len(text) + 3 - next) \in Nat
  BY <1>2
<1>4. QED
  BY <1>3 DEF Left

LEMMA CallLowers == CallState /\ Next => Left' < Left
BY StepLowers DEF CallState

LEMMA CallPromises ==
  ASSUME CallState
  PROVE  /\ LexemesMatchTokens /\ NothingLost /\ IdentifiersSpelledAsWritten
         /\ LocationsExact /\ OnlyOpenTextsHang
<1>1. LineNumbersExact
  BY DEF CallState, LineState, LineNumbersExact, EndedBy
<1>2. NothingLost
  BY LexedCovers DEF CallState
<1>3. LexemesMatchTokens
  BY DEF CallState, NumbersMatch, StringsMatch, IdsMatch, LexemesMatchTokens
<1>4. IdentifiersSpelledAsWritten
  BY DEF CallState, Apart, IdsMatch, IdentifiersSpelledAsWritten
<1>5. QED
  BY <1>1, <1>2, <1>3, <1>4 DEF CallState, LocationsExact

-----------------------------------------------------------------------------
(* Plain texts, without numbers, strings and slashes: their tokens are     *)
(* single characters and words of letters, and stand in order.             *)

Plain == \A i \in DOMAIN text : text[i] \notin Digits \cup {"quote", "/", ".", "ff"}

Shaped(k) ==
  /\ k.from \in 1..Len(text) /\ k.to \in k.from..Len(text)
  /\ \/ /\ k.to = k.from /\ text[k.from] \notin Alpha
        /\ k.id \in CharTokens \cup {"newline"}
        /\ text[k.from] = IF k.id = "newline" THEN "nl" ELSE k.id
     \/ k.id \in {"id", "keyword"} /\ \A j \in k.from..k.to : text[j] \in Alpha
InOrder == \A k, l \in DOMAIN toks : k < l => toks[k].to < toks[l].from
PlainTokens == (\A k \in DOMAIN toks : Shaped(toks[k])) /\ InOrder

(* How far the tokens reach.                                               *)
PlainState ==
  Plain =>
    /\ PlainTokens
    /\ pc = "switch" => \A k \in DOMAIN toks : toks[k].to < next - 1
    /\ pc = "identifier" =>
         \A k \in DOMAIN toks : IF c \in Alpha THEN toks[k].to < next - 1
                                               ELSE toks[k].to <= next - 1

LEMMA PlainStart == ASSUME Start PROVE PlainState
<1>1. toks = <<>> /\ DOMAIN <<>> = {}
  BY EmptySeq DEF Start
<1> QED BY <1>1 DEF PlainState, PlainTokens, InOrder

(* The only cases a plain text has.                                        *)
LEMMA PlainCases ==
  ASSUME Typed, Plain, Next
  PROVE  /\ UNCHANGED given /\ next \in Nat /\ Len(text) \in Nat
         /\ \/ /\ UNCHANGED toks
               /\ \/ pc = "switch" /\ pc' = "identifier" /\ UNCHANGED next
                  \/ pc = "identifier" /\ pc' = "switch" /\ next' = next + 1
                  \/ pc' \notin {"switch", "identifier"}
            \/ /\ pc = "switch" /\ pc' = "identifier" /\ UNCHANGED <<c, next>>
               /\ next - 1 \in 1..Len(text) /\ text[next - 1] = c /\ c \notin Alpha
               /\ \E t \in CharTokens \cup {"newline"} :
                    Push(t, next - 1) /\ c = IF t = "newline" THEN "nl" ELSE t
            \/ /\ pc = "identifier" /\ pc' = "switch" /\ c \in Alpha
               /\ \E q \in next..(Len(text) + 1), t \in {"id", "keyword"} :
                    /\ Push(t, q - 1) /\ next' \in Nat /\ next' >= q + 1 /\ next - 1 \in 1..Len(text)
                    /\ \A j \in (next - 1)..(q - 1) : text[j] \in Alpha
<1>1. /\ TypeOK /\ Position /\ UNCHANGED given /\ next \in Nat /\ next >= 2
      /\ Len(text) \in Nat /\ DOMAIN text = 1..Len(text)
  BY StepGiven, TextHere DEF Typed, TypeOK, Position
<1>2. ASSUME NEW i PROVE Char(i) \notin Digits \cup {"quote", "/", "."}
  <2>1. Char(i) \in {"eof", "ff"} \/ (i \in DOMAIN text /\ text[i] = Char(i))
    BY <1>1, CharHere
  <2>2. (Digits \cup {"quote", "/", "."}) \cap {"eof", "ff"} = {}
    BY DEF Digits
  <2> QED BY <2>1, <2>2 DEF Plain, Digits
<1>3. /\ pc \in {"switch", "identifier"} => c = Char(next - 1)
      /\ pc = "switch" => c \notin Digits \cup {"quote", "/", "."}
  BY <1>1, <1>2 DEF Position, BehindNumber
<1>4. ~LineComment /\ ~BlockComment /\ ~Slash /\ ~StringLiteral /\ ~NumberLiteral
  BY <1>3 DEF LineComment, BlockComment, Slash, StringLiteral, NumberLiteral, Case
<1>5. CASE Blank \/ NoIdentifier \/ EndOfFile \/ EndUnseen
  <2>1. UNCHANGED toks
    BY <1>5 DEF Blank, NoIdentifier, EndOfFile, EndUnseen
  <2>2. \/ pc = "switch" /\ pc' = "identifier" /\ UNCHANGED next
        \/ pc = "identifier" /\ pc' = "switch" /\ next' = next + 1
        \/ pc' \notin {"switch", "identifier"}
    BY <1>5 DEF Blank, NoIdentifier, EndOfFile, EndUnseen, Case, EndCase, Goto, ReadAfter
  <2> QED BY <1>1, <2>1, <2>2
<1>6. CASE CharToken \/ Newline
  <2>1. /\ pc = "switch" /\ pc' = "identifier" /\ UNCHANGED <<c, next>>
        /\ \E t \in CharTokens \cup {"newline"} :
             Push(t, next - 1) /\ c = IF t = "newline" THEN "nl" ELSE t
    BY <1>6, Alphabet DEF CharToken, Newline, Case, EndCase, Goto
  <2>2. c \notin Alpha \cup {"eof", "ff"}
    BY <1>6, Alphabet DEF CharToken, Newline, Case
  <2>3. next - 1 \in 1..Len(text) /\ text[next - 1] = c
    BY <1>1, <1>3, <2>1, <2>2, CharHere
  <2> QED BY <1>1, <2>1, <2>2, <2>3
<1>7. CASE Identifier
  <2>1. PICK q \in next..(Len(text) + 1), t \in {"id", "keyword"} :
          /\ q \in Nat /\ pc = "identifier" /\ pc' = "switch" /\ c \in Alpha
          /\ text[next - 1] = c /\ Char(next - 1) \notin {"eof", "ff"}
          /\ \A j \in next..(q - 1) : Char(j) \in Alnum /\ text[j] = Char(j)
          /\ Push(t, q - 1)
          /\ \E u \in Nat : u >= q /\ ReadAfter(u)
    BY <1>1, <1>3, <1>7, IdentifierHere
  <2>2. next - 1 \in 1..Len(text)
    BY <1>1, <2>1, CharHere
  <2>3. ASSUME NEW j \in (next - 1)..(q - 1) PROVE text[j] \in Alpha
    <3>1. j = next - 1 \/ j \in next..(q - 1)
      BY <1>1
    <3> QED BY <1>2, <2>1, <3>1 DEF Alnum
  <2>4. next' \in Nat /\ next' >= q + 1
    BY <2>1 DEF ReadAfter
  <2> QED BY <1>1, <2>1, <2>2, <2>3, <2>4
<1> QED BY <1>4, <1>5, <1>6, <1>7 DEF Next

(* A token behind all others, up to the characters read.                   *)
LEMMA PlainPush ==
  ASSUME Typed, PlainTokens, UNCHANGED given, NEW t \in TokenIds, NEW to \in Nat, Push(t, to),
         \A k \in DOMAIN toks : toks[k].to < next - 1, next - 1 <= to,
         \A k : k.id = t /\ k.from = next - 1 /\ k.to = to => Shaped(k)
  PROVE  PlainTokens' /\ \A k \in DOMAIN toks' : toks'[k].to \in Nat /\ toks'[k].to <= to
<1> DEFINE n == Len(toks)
<1>1. /\ n \in Nat /\ DOMAIN toks = 1..n /\ DOMAIN toks' = 1..(n + 1)
      /\ \A k \in 1..n : toks'[k] = toks[k] /\ toks[k].to \in Nat
      /\ toks'[n + 1].id = t /\ toks'[n + 1].from = next - 1 /\ toks'[n + 1].to = to
      /\ next \in Nat
  BY KindsHere, KindsOfPush, LineTypes DEF Tokens
<1> HIDE DEF n
<1>2. \A k \in 1..(n + 1) : k = n + 1 \/ k \in 1..n
  BY <1>1
<1>3. \A r : Shaped(r)' <=> Shaped(r)
  BY DEF Shaped, given
<1>4. \A k \in DOMAIN toks' : Shaped(toks'[k])
  BY <1>1, <1>2 DEF PlainTokens
<1>5. (\A k \in DOMAIN toks : Shaped(toks[k]))'
  BY <1>4 DEF Shaped, given
<1>6. InOrder'
  <2>1. ASSUME NEW k \in DOMAIN toks', NEW l \in DOMAIN toks', k < l
        PROVE  toks'[k].to < toks'[l].from
    <3>1. k \in 1..n
      BY <1>1, <2>1
    <3>2. CASE l = n + 1
      BY <1>1, <3>1, <3>2
    <3>3. CASE l \in 1..n
      BY <1>1, <2>1, <3>1, <3>3 DEF PlainTokens, InOrder
    <3> QED BY <1>1, <1>2, <3>2, <3>3
  <2> QED BY <2>1 DEF InOrder
<1>7. ASSUME NEW k \in DOMAIN toks' PROVE toks'[k].to \in Nat /\ toks'[k].to <= to
  <2>1. CASE k = n + 1
    BY <1>1, <2>1
  <2>2. CASE k \in 1..n
    <3>1. toks[k].to < next - 1 /\ toks[k].to \in Nat /\ toks'[k] = toks[k]
      BY <1>1, <2>2
    <3> QED BY <1>1, <3>1
  <2> QED BY <1>1, <1>2, <2>1, <2>2
<1> QED BY <1>5, <1>6, <1>7 DEF PlainTokens

LEMMA PlainStep ==
  ASSUME Typed, PlainState, Next
  PROVE  PlainState'
<1>1. UNCHANGED given
  BY StepGiven
<1> SUFFICES ASSUME Plain PROVE PlainState'
  BY <1>1 DEF PlainState, Plain, given
<1>2. /\ next \in Nat /\ Len(text) \in Nat /\ DOMAIN toks = 1..Len(toks)
      /\ \A k \in DOMAIN toks : toks[k].to \in Nat
      /\ CharTokens \cup {"newline", "id", "keyword"} \subseteq TokenIds
      /\ "newline" \notin CharTokens
  BY PlainCases, KindsHere, LineTypes, Alphabet DEF Tokens, TokenIds, KeywordOrLexeme, CharTokens
<1>3. CASE /\ UNCHANGED toks
           /\ \/ pc = "switch" /\ pc' = "identifier" /\ UNCHANGED next
              \/ pc = "identifier" /\ pc' = "switch" /\ next' = next + 1
              \/ pc' \notin {"switch", "identifier"}
  <2>1. PlainTokens'
    BY <1>1, <1>3 DEF PlainState, PlainTokens, InOrder, Shaped, given
  <2>2. \A k \in DOMAIN toks : toks[k].to < next - 1 => toks[k].to <= next - 1
    BY <1>2
  <2>3. pc = "identifier" => \A k \in DOMAIN toks : toks[k].to <= next - 1
    BY <2>2 DEF PlainState
  <2>4. pc' = "identifier" => pc = "switch" /\ next' = next /\ \A k \in DOMAIN toks : toks[k].to < next - 1
    BY <1>3 DEF PlainState
  <2>5. pc' = "switch" => pc = "identifier" /\ next' = next + 1
    BY <1>3
  <2>6. pc' = "switch" => \A k \in DOMAIN toks : toks[k].to < next' - 1
    BY <1>2, <2>3, <2>5
  <2> QED BY <1>3, <2>1, <2>2, <2>4, <2>6 DEF PlainState
<1>4. CASE /\ pc = "switch" /\ pc' = "identifier" /\ UNCHANGED <<c, next>>
           /\ next - 1 \in 1..Len(text) /\ text[next - 1] = c /\ c \notin Alpha
           /\ \E t \in CharTokens \cup {"newline"} :
                Push(t, next - 1) /\ c = IF t = "newline" THEN "nl" ELSE t
  <2>1. PICK t \in CharTokens \cup {"newline"} :
          Push(t, next - 1) /\ c = IF t = "newline" THEN "nl" ELSE t
    BY <1>4
  <2>2. ASSUME NEW k, k.id = t, k.from = next - 1, k.to = next - 1 PROVE Shaped(k)
    BY <1>2, <1>4, <2>1, <2>2 DEF Shaped
  <2>3. PlainTokens' /\ \A k \in DOMAIN toks' : toks'[k].to <= next - 1
    <3>1. \A k \in DOMAIN toks : toks[k].to < next - 1
      BY <1>4 DEF PlainState
    <3>2. t \in TokenIds /\ next - 1 \in Nat /\ next - 1 <= next - 1 /\ PlainTokens
      BY <1>2, <1>4 DEF PlainState
    <3> QED BY <1>1, <2>1, <2>2, <3>1, <3>2, PlainPush
  <2> QED BY <1>4, <2>3 DEF PlainState
<1>5. CASE /\ pc = "identifier" /\ pc' = "switch" /\ c \in Alpha
           /\ \E q \in next..(Len(text) + 1), t \in {"id", "keyword"} :
                /\ Push(t, q - 1) /\ next' \in Nat /\ next' >= q + 1 /\ next - 1 \in 1..Len(text)
                /\ \A j \in (next - 1)..(q - 1) : text[j] \in Alpha
  <2>1. PICK q \in next..(Len(text) + 1), t \in {"id", "keyword"} :
          /\ Push(t, q - 1) /\ next' \in Nat /\ next' >= q + 1 /\ next - 1 \in 1..Len(text)
          /\ \A j \in (next - 1)..(q - 1) : text[j] \in Alpha
    BY <1>5
  <2>2. q - 1 \in Nat /\ next - 1 <= q - 1 /\ q - 1 \in (next - 1)..Len(text)
    BY <1>2, <2>1
  <2>3. ASSUME NEW k, k.id = t, k.from = next - 1, k.to = q - 1 PROVE Shaped(k)
    BY <2>1, <2>2, <2>3 DEF Shaped
  <2>4. PlainTokens' /\ \A k \in DOMAIN toks' : toks'[k].to \in Nat /\ toks'[k].to <= q - 1
    <3>1. \A k \in DOMAIN toks : toks[k].to < next - 1
      BY <1>5 DEF PlainState
    <3>2. t \in TokenIds /\ PlainTokens
      BY <1>2 DEF PlainState
    <3> QED BY <1>1, <2>1, <2>2, <2>3, <3>1, <3>2, PlainPush
  <2>6. \A k \in DOMAIN toks' : toks'[k].to < next' - 1
    BY <1>2, <2>1, <2>2, <2>4
  <2> QED BY <1>5, <2>4, <2>6 DEF PlainState
<1> QED BY <1>3, <1>4, <1>5, PlainCases

(* At the end of a plain text every character but blanks is in a token.    *)
Covered == \A i \in DOMAIN text : Lexed(i)

LEMMA PlainCovered ==
  ASSUME Typed, Plain, AllLexed, pc = "done"
  PROVE  Covered
<1>1. next \in Nat /\ next >= 2 /\ Len(text) \in Nat /\ DOMAIN text = 1..Len(text)
  BY TextHere DEF Typed, TypeOK, Position
<1>2. next - 1 > Len(text)
  <2>1. next - 1 <= Len(text) => next - 1 \in DOMAIN text
    BY <1>1
  <2>2. PastEnd \/ text[next - 1] = "ff"
    BY DEF AllLexed
  <2> QED BY <1>1, <2>1, <2>2 DEF Plain, PastEnd
<1>3. \A i \in 1..Len(text) : i \in 1..(next - 2)
  BY <1>1, <1>2
<1> QED BY <1>1, <1>3 DEF Covered, AllLexed

(* What has been lexed, whatever lex() does next.                          *)
PlainLexed == /\ text \in Seq(Chars) /\ toks \in Seq(Tokens)
              /\ PlainTokens /\ Covered

LEMMA PlainTypes ==
  ASSUME PlainLexed
  PROVE  /\ Len(text) \in Nat /\ DOMAIN text = 1..Len(text)
         /\ Len(toks) \in Nat /\ DOMAIN toks = 1..Len(toks)
         /\ \A k \in DOMAIN toks : toks[k].from \in Nat /\ toks[k].to \in Nat
<1>1. toks \in Seq(Tokens) /\ text \in Seq(Chars)
  BY DEF PlainLexed
<1>2. \A k \in DOMAIN toks : toks[k] \in Tokens
  BY <1>1, ElementOfSeq, LenProperties
<1> QED BY <1>1, <1>2, LenProperties DEF Tokens

LEMMA CharLexed ==
  ASSUME PlainLexed, NEW i \in DOMAIN text, text[i] \notin Blanks \cup Ignored
  PROVE  \E k \in DOMAIN toks : i \in toks[k].from..toks[k].to
BY DEF PlainLexed, Covered, Lexed

(* A character that is no letter is a token of its own.                    *)
LEMMA TokenOfChar ==
  ASSUME PlainLexed, NEW i \in DOMAIN text, text[i] \notin Blanks \cup Ignored \cup Alpha
  PROVE  \E k \in DOMAIN toks :
           /\ toks[k].from = i /\ toks[k].to = i
           /\ text[i] = IF toks[k].id = "newline" THEN "nl" ELSE toks[k].id
<1>1. PICK k \in DOMAIN toks : i \in toks[k].from..toks[k].to
  BY CharLexed
<1>2. Shaped(toks[k])
  BY DEF PlainLexed, PlainTokens
<1>3. ~\A j \in toks[k].from..toks[k].to : text[j] \in Alpha
  BY <1>1
<1>4. /\ toks[k].to = toks[k].from
      /\ text[toks[k].from] = IF toks[k].id = "newline" THEN "nl" ELSE toks[k].id
  BY <1>2, <1>3 DEF Shaped
<1>5. toks[k].from = i
  BY <1>1, <1>4, PlainTypes
<1> QED BY <1>4, <1>5

(* Tokens without one in between are neighbours.                           *)
LEMMA NoneBetween ==
  ASSUME PlainLexed, NEW k \in DOMAIN toks, NEW l \in DOMAIN toks,
         toks[l].from = toks[k].to + 1
  PROVE  l = k + 1
<1>1. /\ Len(toks) \in Nat /\ DOMAIN toks = 1..Len(toks)
      /\ \A m \in DOMAIN toks : /\ toks[m].from \in Nat /\ toks[m].to \in Nat
                               /\ toks[m].from <= toks[m].to
  BY PlainTypes DEF PlainLexed, PlainTokens, Shaped
<1>2. \A m, n \in DOMAIN toks : m < n => toks[m].to < toks[n].from
  BY DEF PlainLexed, PlainTokens, InOrder
<1>3. ~(l < k)
  <2>1. l < k => toks[l].to < toks[k].from
    BY <1>2
  <2> QED BY <1>1, <2>1
<1>4. l # k
  BY <1>1
<1>5. ASSUME k + 1 < l PROVE FALSE
  <2>1. k + 1 \in DOMAIN toks /\ k < k + 1
    BY <1>1, <1>5
  <2>2. toks[k].to < toks[k + 1].from /\ toks[k + 1].to < toks[l].from
    BY <1>2, <1>5, <2>1
  <2> QED BY <1>1, <2>1, <2>2
<1> QED BY <1>1, <1>3, <1>4, <1>5

(* The word in front of a token.                                           *)
LEMMA WordBefore ==
  ASSUME PlainLexed, NEW k \in DOMAIN toks, toks[k].id \in CharTokens,
         toks[k].from > 1, text[toks[k].from - 1] \in Alpha
  PROVE  /\ k - 1 \in DOMAIN toks /\ toks[k - 1].id \in {"id", "keyword"}
         /\ toks[k - 1].to = toks[k].from - 1 /\ toks[k - 1].from \in 1..toks[k - 1].to
<1>1. /\ Len(text) \in Nat /\ DOMAIN text = 1..Len(text) /\ DOMAIN toks = 1..Len(toks)
      /\ Len(toks) \in Nat
      /\ \A m \in DOMAIN toks : toks[m].from \in Nat /\ toks[m].to \in Nat
      /\ \A m \in DOMAIN toks : Shaped(toks[m])
  BY PlainTypes DEF PlainLexed, PlainTokens
<1> DEFINE i == toks[k].from - 1
<1>2. i \in DOMAIN text /\ i \in Nat /\ i + 1 = toks[k].from
  BY <1>1 DEF Shaped
<1>3. text[i] \in Alpha /\ text[i + 1] \notin Alpha
  <2>1. toks[k].id \notin {"id", "keyword"}
    BY Alphabet
  <2> QED BY <1>1, <1>2, <2>1 DEF Shaped
<1> HIDE DEF i
<1>4. PICK m \in DOMAIN toks : i \in toks[m].from..toks[m].to
  BY <1>2, <1>3, Alphabet, CharLexed
<1>5. /\ toks[m].id \in {"id", "keyword"} /\ toks[m].from \in 1..toks[m].to
      /\ \A j \in toks[m].from..toks[m].to : text[j] \in Alpha
  <2>1. ASSUME toks[m].to = toks[m].from, text[toks[m].from] \notin Alpha PROVE FALSE
    <3>1. i = toks[m].from
      BY <1>1, <1>4, <2>1
    <3> QED BY <1>3, <2>1, <3>1
  <2> QED BY <1>1, <2>1 DEF Shaped
<1>6. toks[m].to = i
  <2>1. i + 1 \notin toks[m].from..toks[m].to
    BY <1>3, <1>5
  <2> QED BY <1>1, <1>2, <1>4, <2>1
<1>7. k = m + 1
  BY <1>2, <1>6, NoneBetween
<1> QED BY <1>1, <1>2, <1>5, <1>6, <1>7

(* A text that ends in a ";" and a newline ends in their tokens.           *)
LEMMA LastTokens ==
  ASSUME PlainLexed, NEW s \in CharTokens,
         Len(text) >= 2, text[Len(text)] = "nl", text[Len(text) - 1] = s
  PROVE  /\ Len(toks) >= 2 /\ toks[Len(toks)].id = "newline"
         /\ toks[Len(toks) - 1].id = s
<1>1. /\ Len(text) \in Nat /\ DOMAIN text = 1..Len(text) /\ DOMAIN toks = 1..Len(toks)
      /\ Len(toks) \in Nat
      /\ \A m \in DOMAIN toks : Shaped(toks[m])
  BY PlainTypes DEF PlainLexed, PlainTokens
<1>2. ({"nl"} \cup CharTokens) \cap (Blanks \cup Ignored \cup Alpha) = {} /\ s # "nl"
  BY Zenon, Alphabet DEF Blanks, Ignored, Alpha, CharTokens
<1>3. PICK a \in DOMAIN toks :
        /\ toks[a].from = Len(text) /\ toks[a].to = Len(text)
        /\ "nl" = IF toks[a].id = "newline" THEN "nl" ELSE toks[a].id
  <2>1. Len(text) \in DOMAIN text
    BY <1>1
  <2> QED BY <1>2, <2>1, TokenOfChar
<1>4. PICK b \in DOMAIN toks :
        /\ toks[b].from = Len(text) - 1 /\ toks[b].to = Len(text) - 1
        /\ s = IF toks[b].id = "newline" THEN "nl" ELSE toks[b].id
  <2>1. Len(text) - 1 \in DOMAIN text
    BY <1>1
  <2> QED BY <1>2, <2>1, TokenOfChar
<1>5. toks[a].id = "newline" /\ toks[b].id = s
  <2>1. toks[a].id # "nl"
    BY <1>1, Alphabet DEF Shaped
  <2> QED BY <1>2, <1>3, <1>4, <2>1
<1>6. a = b + 1
  <2>1. toks[a].from = toks[b].to + 1
    BY <1>1, <1>3, <1>4
  <2> QED BY <2>1, NoneBetween
<1>7. ASSUME a < Len(toks) PROVE FALSE
  <2>1. Len(toks) \in DOMAIN toks
    BY <1>1, <1>7
  <2>2. toks[a].to < toks[Len(toks)].from /\ toks[Len(toks)].from \in 1..Len(text)
    BY <1>1, <1>7, <2>1 DEF PlainLexed, PlainTokens, InOrder, Shaped
  <2> QED BY <1>1, <1>3, <2>2
<1>8. a = Len(toks)
  BY <1>1, <1>7
<1> QED BY <1>1, <1>5, <1>6, <1>8

(* A word is spelled as it is written.                                     *)
LEMMA WordSpelled ==
  ASSUME PlainLexed, NEW k \in DOMAIN toks, toks[k].id \in {"id", "keyword"}
  PROVE  /\ toks[k].from \in DOMAIN text /\ toks[k].to \in toks[k].from..Len(text)
         /\ KeywordSpelling(toks[k]) = SubSeq(text, toks[k].from, toks[k].to)
<1>1. Shaped(toks[k]) /\ DOMAIN text = 1..Len(text)
  BY PlainTypes DEF PlainLexed, PlainTokens
<1>2. {"id", "keyword"} \cap (CharTokens \cup {"newline"}) = {}
  BY Alphabet DEF CharTokens
<1>3. toks[k].from \in toks[k].from..toks[k].to
  BY <1>1, PlainTypes DEF Shaped
<1> QED BY <1>1, <1>2, <1>3 DEF Shaped, KeywordSpelling

(* Where there is a token id, there is a name.                             *)
LEMMA PlainNames ==
  ASSUME Typed, Plain, PlainState, IdsMatch, NEW k \in DOMAIN toks, toks[k].id = "id"
  PROVE  Len(ids) \in Nat /\ Len(ids) >= 1
<1>1. Shaped(toks[k]) /\ DOMAIN text = 1..Len(text) /\ Len(text) \in Nat
  BY TextHere DEF PlainState, PlainTokens, Typed
<1>2. "id" \notin CharTokens \cup {"newline"}
  BY DEF CharTokens
<1>3. toks[k].from \in DOMAIN text /\ text[toks[k].from] \in Alpha
  BY <1>1, <1>2 DEF Shaped
<1>4. Char(toks[k].from) # "eof"
  BY <1>3, Alphabet DEF Char
<1>5. k \in IdTokens
  BY <1>4 DEF IdTokens, Named
<1>6. IsFiniteSet(IdTokens)
  <2>1. IsFiniteSet(1..Len(toks))
    BY KindsHere, FS_Interval
  <2> QED BY <2>1, KindsHere, FS_Subset
<1>7. Cardinality(IdTokens) \in Nat /\ Cardinality(IdTokens) # 0
  BY <1>5, <1>6, FS_CardinalityType, FS_EmptySet
<1> QED BY <1>7 DEF IdsMatch

=============================================================================
