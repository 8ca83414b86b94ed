---------------------------- MODULE LexingProofs ----------------------------
(***************************************************************************)
(* Lexer makes of every text what the function of Lexing says.             *)
(***************************************************************************)
EXTENDS Lexing, LexerProofs

Results == [toks : Seq(TokenIds), names : Seq(Seq(Alnum))]

Glue(a, b) == Prepend(a.toks, a.names, b)
Kind(k)    == [toks |-> <<k>>, names |-> <<>>]
Name(s)    == [toks |-> <<"id">>, names |-> <<s>>]

LEMMA JoinTwice ==
  ASSUME NEW S, NEW a \in Seq(S), NEW b \in Seq(S), NEW d \in Seq(S)
  PROVE  (a \o b) \o d = a \o (b \o d)
OBVIOUS

LEMMA GlueType ==
  ASSUME NEW a \in Results, NEW b \in Results
  PROVE  /\ Glue(a, b) \in Results
         /\ Glue(a, b).toks = a.toks \o b.toks /\ Glue(a, b).names = a.names \o b.names
<1>1. /\ a.toks \in Seq(TokenIds) /\ a.names \in Seq(Seq(Alnum))
      /\ b.toks \in Seq(TokenIds) /\ b.names \in Seq(Seq(Alnum))
  BY DEF Results
<1>2. a.toks \o b.toks \in Seq(TokenIds) /\ a.names \o b.names \in Seq(Seq(Alnum))
  BY <1>1, ConcatProperties
<1> QED BY <1>2 DEF Glue, Prepend, Results

LEMMA GlueTwice ==
  ASSUME NEW a \in Results, NEW b \in Results, NEW d \in Results
  PROVE  Glue(a, Glue(b, d)) = Glue(Glue(a, b), d)
<1>1. PICK k \in Seq(TokenIds), s \in Seq(Seq(Alnum)) : a.toks = k /\ a.names = s
  BY DEF Results
<1>2. PICK l \in Seq(TokenIds), r \in Seq(Seq(Alnum)) : b.toks = l /\ b.names = r
  BY DEF Results
<1>3. PICK m \in Seq(TokenIds), u \in Seq(Seq(Alnum)) : d.toks = m /\ d.names = u
  BY DEF Results
<1>4. (k \o l) \o m = k \o (l \o m)
  BY JoinTwice, SMTT(30)
<1>5. (s \o r) \o u = s \o (r \o u)
  BY JoinTwice, SMTT(30)
<1> QED BY <1>1, <1>2, <1>3, <1>4, <1>5 DEF Glue, Prepend

LEMMA GlueNothing ==
  ASSUME NEW a \in Results
  PROVE  /\ Glue(a, Nothing) = a /\ Glue(Nothing, a) = a /\ Nothing \in Results
<1>1. PICK k \in Seq(TokenIds), s \in Seq(Seq(Alnum)) : a = [toks |-> k, names |-> s]
  BY DEF Results
<1>2. k \o <<>> = k /\ s \o <<>> = s /\ <<>> \o k = k /\ <<>> \o s = s
  BY ConcatEmptySeq
<1> QED BY <1>1, <1>2 DEF Glue, Prepend, Nothing, Results

LEMMA SmallResults ==
  /\ \A k \in TokenIds : Kind(k) \in Results
  /\ \A s \in Seq(Alnum) : Name(s) \in Results
  /\ "id" \in TokenIds /\ CharTokens \subseteq TokenIds
  /\ {"keyword", "newline", "num_literal", "str_literal", "line_comment",
      "block_comment", "forward_slash"} \subseteq TokenIds
BY Alphabet DEF Kind, Name, Results, TokenIds, KeywordOrLexeme

-----------------------------------------------------------------------------
(* The characters of a text, and what a scan of it finds.                  *)

LEMMA ByteHere ==
  ASSUME NEW t \in Seq(Chars), NEW i
  PROVE  /\ Byte(t, i) \in Chars \cup {"eof"} /\ Byte(t, i) # "ff"
         /\ Byte(t, i) # "eof" => i \in 1..Len(t) /\ t[i] = Byte(t, i)
         /\ i \in 1..Len(t) /\ t[i] # "ff" => Byte(t, i) = t[i]
         /\ Len(t) \in Nat /\ DOMAIN t = 1..Len(t)
<1>1. Len(t) \in Nat /\ DOMAIN t = 1..Len(t) /\ \A j \in 1..Len(t) : t[j] \in Chars
  BY LenProperties, ElementOfSeq
<1> QED BY <1>1, Alphabet DEF Byte

LEMMA EndOfRunHere ==
  ASSUME NEW t \in Seq(Chars), NEW p \in 1..(Len(t) + 1), NEW S, "eof" \notin S
  PROVE  /\ EndOfRun(t, p, S) \in p..(Len(t) + 1) /\ EndOfRun(t, p, S) \in Nat
         /\ Byte(t, EndOfRun(t, p, S)) \notin S
         /\ \A j \in p..(EndOfRun(t, p, S) - 1) : Byte(t, j) \in S
<1> DEFINE n == Len(t) + 1
           T == {i \in p..n : Byte(t, i) \notin S}
<1>1. n \in Nat /\ n \notin 1..Len(t) /\ p \in 1..n
  BY ByteHere
<1>2. Byte(t, n) = "eof"
  BY <1>1, ByteHere
<1>3. T \in SUBSET Nat /\ n \in T /\ EndOfRun(t, p, S) = Min(T)
  BY <1>1, <1>2 DEF EndOfRun
<1>4. Min(T) \in T /\ Min(T) \in Nat /\ \A j \in T : Min(T) <= j
  BY <1>3, MinIsLeast
<1> DEFINE m == EndOfRun(t, p, S)
<1>5. m \in p..n /\ m \in Nat /\ Byte(t, m) \notin S
  BY <1>3, <1>4
<1>6. \A j \in p..n : Byte(t, j) \notin S => m <= j
  BY <1>3, <1>4
<1> HIDE DEF m, T, n
<1>7. ASSUME NEW j \in p..(m - 1)
      PROVE  Byte(t, j) \in S
  <2>1. j \in p..n /\ ~(m <= j)
    BY <1>1, <1>5
  <2> QED BY <1>6, <2>1
<1> QED BY <1>5, <1>7 DEF m, n

LEMMA RunIsWord ==
  ASSUME NEW t \in Seq(Chars), NEW ch \in Alnum, NEW p \in 1..(Len(t) + 1)
  PROVE  <<ch>> \o SubSeq(t, p, EndOfRun(t, p, Alnum) - 1) \in Seq(Alnum)
<1> DEFINE q == EndOfRun(t, p, Alnum)
<1>1. /\ q \in p..(Len(t) + 1) /\ q \in Nat /\ Len(t) \in Nat
      /\ \A j \in p..(q - 1) : Byte(t, j) \in Alnum
  BY EndOfRunHere, ByteHere, Alphabet
<1> HIDE DEF q
<1>2. \A j \in p..(q - 1) : j \in 1..Len(t) /\ t[j] \in Alnum
  <2>1. \A j \in p..(q - 1) : Byte(t, j) # "eof"
    BY <1>1, Alphabet
  <2> QED BY <1>1, <2>1, ByteHere
<1>3. SubSeq(t, p, q - 1) \in Seq(Alnum)
  <2>1. SubSeq(t, p, q - 1) = [i \in 1..((q - 1) - p + 1) |-> t[p + i - 1]]
    BY <1>1 
  <2>2. \A i \in 1..((q - 1) - p + 1) : p + i - 1 \in p..(q - 1)
    BY <1>1
  <2> QED BY <1>1, <1>2, <2>1, <2>2
<1>4. <<ch>> \in Seq(Alnum)
  OBVIOUS
<1> QED BY <1>3, <1>4, ConcatProperties DEF q

-----------------------------------------------------------------------------
(* A text is lexed piece by piece: what is made of it from a position on   *)
(* is a piece, and what is made of the rest behind it.  A piece counts no  *)
(* fewer ids than it has names.                                            *)

IdsAt(k) == Cardinality({i \in DOMAIN k : k[i] = "id"})
Pieces   == {a \in Results : Len(a.names) <= IdsAt(a.toks)}

LEMMA IdsFinite ==
  ASSUME NEW k \in Seq(TokenIds)
  PROVE  IsFiniteSet({i \in DOMAIN k : k[i] = "id"}) /\ IdsAt(k) \in Nat
<1>1. DOMAIN k = 1..Len(k) /\ Len(k) \in Nat
  BY LenProperties
<1>2. IsFiniteSet(1..Len(k))
  BY <1>1, FS_Interval
<1>3. IsFiniteSet({i \in DOMAIN k : k[i] = "id"})
  BY <1>1, <1>2, FS_Subset
<1> QED BY <1>3, FS_CardinalityType DEF IdsAt

LEMMA IdsOfJoin ==
  ASSUME NEW k \in Seq(TokenIds), NEW l \in Seq(TokenIds)
  PROVE  IdsAt(k \o l) = IdsAt(k) + IdsAt(l)
<1> DEFINE n == Len(k)
           K == {i \in DOMAIN k : k[i] = "id"}
           M == {i \in DOMAIN l : l[i] = "id"}
           T == {i \in (n + 1)..(n + Len(l)) : l[i - n] = "id"}
           U == {i \in DOMAIN (k \o l) : (k \o l)[i] = "id"}
           f == [i \in M |-> i + n]
<1>1. /\ n \in Nat /\ Len(l) \in Nat /\ DOMAIN k = 1..n /\ DOMAIN l = 1..Len(l)
      /\ k \o l \in Seq(TokenIds) /\ DOMAIN (k \o l) = 1..(n + Len(l))
      /\ \A i \in 1..(n + Len(l)) : (k \o l)[i] = IF i <= n THEN k[i] ELSE l[i - n]
  BY LenProperties, ConcatProperties
<1>2. IsFiniteSet(K) /\ IsFiniteSet(M)
  BY IdsFinite
<1>3. U = K \cup T /\ K \cap T = {}
  <2>1. K \in SUBSET (1..n) /\ T \in SUBSET ((n + 1)..(n + Len(l)))
    BY <1>1
  <2>2. \A i \in 1..n : i \in U <=> i \in K
    BY <1>1
  <2>3. \A i \in (n + 1)..(n + Len(l)) : i \in U <=> i \in T
    BY <1>1
  <2>4. U \in SUBSET (1..(n + Len(l)))
    BY <1>1
  <2>5. \A i \in 1..(n + Len(l)) : i \in 1..n \/ i \in (n + 1)..(n + Len(l))
    BY <1>1
  <2>6. \A i \in 1..n : i \in 1..(n + Len(l)) /\ i \notin (n + 1)..(n + Len(l))
    BY <1>1
  <2>7. (n + 1)..(n + Len(l)) \subseteq 1..(n + Len(l))
    BY <1>1
  <2> HIDE DEF K, T, U, n
  <2> QED BY <2>1, <2>2, <2>3, <2>4, <2>5, <2>6, <2>7
<1>4. f \in Bijection(M, T)
  <2>1. \A i \in M : i \in 1..Len(l) /\ i + n \in (n + 1)..(n + Len(l)) /\ (i + n) - n = i
    BY <1>1
  <2>2. f \in [M -> T]
    BY <2>1
  <2>3. \A i, j \in M : f[i] = f[j] => i = j
    BY <1>1, <2>1
  <2>4. \A x \in T : \E i \in M : f[i] = x
    <3>1. SUFFICES ASSUME NEW x \in T PROVE x - n \in M /\ f[x - n] = x
      OBVIOUS
    <3>2. x - n \in 1..Len(l) /\ (x - n) + n = x /\ l[x - n] = "id"
      BY <1>1
    <3> QED BY <1>1, <3>2
  <2> HIDE DEF f, M, T
  <2> QED BY <2>2, <2>3, <2>4 DEF Bijection, Injection, Surjection, IsInjective
<1>5. IsFiniteSet(T) /\ Cardinality(T) = Cardinality(M)
  BY <1>2, <1>4, FS_Bijection DEF ExistsBijection
<1>6. Cardinality(K \cup T) = Cardinality(K) + Cardinality(T)
  <2>1. Cardinality(K) \in Nat /\ Cardinality(T) \in Nat /\ Cardinality({}) = 0
    BY <1>2, <1>5, FS_CardinalityType, FS_EmptySet
  <2> HIDE DEF K, T
  <2>2. Cardinality(K \cup T) = Cardinality(K) + Cardinality(T) - Cardinality(K \cap T)
    BY <1>2, <1>5, FS_Union
  <2>3. Cardinality(K \cap T) = 0
    BY <1>3, <2>1
  <2> QED BY <2>1, <2>2, <2>3
<1> QED BY <1>3, <1>5, <1>6 DEF IdsAt

LEMMA GluePieces ==
  ASSUME NEW a \in Pieces, NEW b \in Pieces
  PROVE  Glue(a, b) \in Pieces
<1>1. /\ a \in Results /\ b \in Results /\ Glue(a, b) \in Results
      /\ Glue(a, b).toks = a.toks \o b.toks /\ Glue(a, b).names = a.names \o b.names
  BY GlueType DEF Pieces
<1>2. /\ a.toks \in Seq(TokenIds) /\ b.toks \in Seq(TokenIds)
      /\ a.names \in Seq(Seq(Alnum)) /\ b.names \in Seq(Seq(Alnum))
  BY <1>1 DEF Results
<1>3. /\ IdsAt(a.toks \o b.toks) = IdsAt(a.toks) + IdsAt(b.toks)
      /\ IdsAt(a.toks) \in Nat /\ IdsAt(b.toks) \in Nat
  BY <1>2, IdsOfJoin, IdsFinite
<1>4. /\ Len(a.names \o b.names) = Len(a.names) + Len(b.names)
      /\ Len(a.names) \in Nat /\ Len(b.names) \in Nat
  BY <1>2, ConcatProperties, LenProperties
<1>5. Len(a.names) <= IdsAt(a.toks) /\ Len(b.names) <= IdsAt(b.toks)
  BY DEF Pieces
<1> DEFINE x == Len(a.names)
           y == Len(b.names)
           v == IdsAt(a.toks)
           w == IdsAt(b.toks)
<1>6. x + y <= v + w
  <2>1. x \in Nat /\ y \in Nat /\ v \in Nat /\ w \in Nat /\ x <= v /\ y <= w
    BY <1>3, <1>4, <1>5, Zenon
  <2> HIDE DEF x, y, v, w
  <2> QED BY <2>1
<1>7. Len(Glue(a, b).names) <= IdsAt(Glue(a, b).toks)
  BY <1>1, <1>3, <1>4, <1>6
<1> QED BY <1>1, <1>7 DEF Pieces

LEMMA SmallPieces ==
  /\ \A k \in TokenIds : Kind(k) \in Pieces
  /\ \A s \in Seq(Alnum) : Name(s) \in Pieces
  /\ Nothing \in Pieces
<1>1. ASSUME NEW k \in TokenIds
      PROVE  Kind(k) \in Pieces
  <2>1. Kind(k) \in Results /\ Kind(k).toks \in Seq(TokenIds) /\ Len(Kind(k).names) = 0
    BY SmallResults DEF Kind
  <2>2. IdsAt(Kind(k).toks) \in Nat
    BY <2>1, IdsFinite, Zenon
  <2>3. Len(Kind(k).names) <= IdsAt(Kind(k).toks)
    BY <2>1, <2>2
  <2> QED BY <2>1, <2>3 DEF Pieces
<1>2. ASSUME NEW s \in Seq(Alnum)
      PROVE  Name(s) \in Pieces
  <2>1. Name(s) \in Results /\ Name(s).toks = <<"id">> /\ Len(Name(s).names) = 1
    BY SmallResults DEF Name
  <2>2. {i \in DOMAIN <<"id">> : <<"id">>[i] = "id"} = {1}
    OBVIOUS
  <2>3. IdsAt(<<"id">>) = 1
    BY <2>2, FS_Singleton DEF IdsAt
  <2>4. Len(Name(s).names) <= IdsAt(Name(s).toks)
    BY <2>1, <2>3
  <2> QED BY <2>1, <2>4 DEF Pieces
<1>3. Nothing \in Pieces
  <2>1. Nothing \in Results /\ Nothing.toks \in Seq(TokenIds) /\ Len(Nothing.names) = 0
    BY GlueNothing DEF Nothing, Results
  <2>2. IdsAt(Nothing.toks) \in Nat
    BY <2>1, IdsFinite, Zenon
  <2>3. Len(Nothing.names) <= IdsAt(Nothing.toks)
    BY <2>1, <2>2
  <2> QED BY <2>1, <2>3 DEF Pieces
<1> QED BY <1>1, <1>2, <1>3

-----------------------------------------------------------------------------
(* The first piece of what is made of a text, operator by operator.        *)

LEMMA WordForm ==
  ASSUME NEW t \in Seq(Chars), NEW ch, NEW p \in Nat \ {0},
         ch \in Alpha => p <= Len(t) + 1
  PROVE  \E a \in Pieces, q \in Nat :
           /\ q >= p
           /\ \A f : f[q] \in Results => LexWord(t, f, ch, p) = Glue(a, f[q])
<1>1. CASE ch \notin Alpha
  <2>1. \A f : f[p] \in Results => LexWord(t, f, ch, p) = Glue(Nothing, f[p])
    BY <1>1, GlueNothing DEF LexWord
  <2> QED BY <2>1, SmallPieces
<1>2. CASE ch \in Alpha
  <2> DEFINE q == EndOfRun(t, p, Alnum)
             s == <<ch>> \o SubSeq(t, p, q - 1)
             a == IF s \in Keywords THEN Kind("keyword") ELSE Name(s)
  <2>1. p \in 1..(Len(t) + 1)
    BY <1>2, ByteHere
  <2>2. q \in p..(Len(t) + 1) /\ q \in Nat /\ s \in Seq(Alnum)
    BY <1>2, <2>1, EndOfRunHere, RunIsWord, Alphabet
  <2>3. Behind(t, q) \in Nat /\ Behind(t, q) >= p
    BY <2>2 DEF Behind
  <2>4. a \in Pieces
    BY <2>2, SmallPieces, SmallResults
  <2>5. \A f : LexWord(t, f, ch, p) = Glue(a, f[Behind(t, q)])
    BY <1>2 DEF LexWord, Glue, Kind, Name
  <2> QED BY <2>3, <2>4, <2>5
<1> QED BY <1>1, <1>2

LEMMA ToForm ==
  ASSUME NEW t \in Seq(Chars), NEW k \in TokenIds, NEW p \in Nat,
         NEW ends \in SUBSET ((p + 1)..Len(t))
  PROVE  \/ \A f : LexTo(f, k, ends) = Nothing
         \/ \E q \in Nat : q > p /\ \A f : LexTo(f, k, ends) = Glue(Kind(k), f[q])
<1>1. CASE ends = {}
  BY <1>1 DEF LexTo
<1>2. CASE ends # {}
  <2>1. Min(ends) \in ends /\ Min(ends) \in Nat /\ Min(ends) >= p + 1
    <3>1. ends \in SUBSET Nat
      BY ByteHere
    <3>2. Min(ends) \in ends /\ Min(ends) \in Nat
      BY <1>2, <3>1, MinIsLeast
    <3>3. \A i \in ends : i >= p + 1
      BY ByteHere
    <3> QED BY <3>2, <3>3
  <2>2. Min(ends) + 1 \in Nat /\ Min(ends) + 1 > p
    BY <2>1
  <2>3. \A f : LexTo(f, k, ends) = Glue(Kind(k), f[Min(ends) + 1])
    BY <1>2 DEF LexTo, Glue, Kind
  <2> QED BY <2>2, <2>3
<1> QED BY <1>1, <1>2

(* A piece in front of another.                                            *)
LEMMA LongerForm ==
  ASSUME NEW a \in Pieces, NEW b \in Pieces
  PROVE  /\ Glue(a, b) \in Pieces
         /\ \A m \in Results : Glue(a, Glue(b, m)) = Glue(Glue(a, b), m)
BY GluePieces, GlueTwice DEF Pieces

LEMMA NumberForm ==
  ASSUME NEW t \in Seq(Chars), NEW p \in 1..(Len(t) + 1)
  PROVE  \E a \in Pieces, q \in Nat :
           /\ q >= p
           /\ \A f : f[q] \in Results => LexNumber(t, f, p) = Glue(a, f[q])
<1> DEFINE e == EndOfRun(t, p, Digits \cup {"."})
           n == IF Byte(t, e) \in Suffixes THEN e + 1 ELSE Behind(t, e)
<1>1. e \in p..(Len(t) + 1) /\ e \in Nat /\ Len(t) \in Nat
  BY EndOfRunHere, ByteHere, Alphabet
<1>2. n \in Nat \ {0} /\ n >= p
  BY <1>1 DEF Behind
<1>3. Byte(t, e) \in Alpha => n <= Len(t) + 1
  <2>1. SUFFICES ASSUME Byte(t, e) \in Alpha PROVE e + 1 <= Len(t) + 1
    BY <1>1 DEF Behind
  <2>2. e \in 1..Len(t)
    BY <2>1, ByteHere, Alphabet
  <2> QED BY <1>1, <2>2
<1> HIDE DEF n
<1>4. PICK b \in Pieces, q \in Nat :
        /\ q >= n
        /\ \A f : f[q] \in Results => LexWord(t, f, Byte(t, e), n) = Glue(b, f[q])
  BY <1>2, <1>3, WordForm
<1>5. \A f : LexNumber(t, f, p)
               = Glue(Kind("num_literal"), LexWord(t, f, Byte(t, e), n))
  BY DEF LexNumber, Glue, Kind, n
<1>6. Kind("num_literal") \in Pieces
  BY SmallPieces, SmallResults
<1>7. q >= p
  BY <1>2, <1>4
<1> HIDE DEF e
<1>8. \A f : f[q] \in Results
               => LexNumber(t, f, p) = Glue(Glue(Kind("num_literal"), b), f[q])
  BY <1>4, <1>5, <1>6, LongerForm
<1>9. Glue(Kind("num_literal"), b) \in Pieces
  BY <1>6, LongerForm
<1> QED BY <1>7, <1>8, <1>9

LEMMA SlashForm ==
  ASSUME NEW t \in Seq(Chars), NEW p \in 1..Len(t)
  PROVE  \/ \A f : LexSlash(t, f, p) = Nothing
         \/ \E a \in Pieces, q \in Nat :
              /\ q > p
              /\ \A f : f[q] \in Results => LexSlash(t, f, p) = Glue(a, f[q])
<1>1. Len(t) \in Nat /\ p \in Nat \ {0} /\ p + 1 \in Nat
  BY ByteHere
<1>2. CASE Byte(t, p + 1) = "/"
  <2> DEFINE ends == {i \in (p + 2)..Len(t) : t[i] = "nl"}
  <2>1. \A f : LexSlash(t, f, p) = LexTo(f, "line_comment", ends)
    BY <1>2 DEF LexSlash
  <2>2. ends \in SUBSET ((p + 1)..Len(t))
    BY <1>1
  <2>3. "line_comment" \in TokenIds /\ Kind("line_comment") \in Pieces
    BY SmallPieces, SmallResults
  <2> HIDE DEF ends
  <2>4. \/ \A f : LexTo(f, "line_comment", ends) = Nothing
        \/ \E q \in Nat : /\ q > p
                          /\ \A f : LexTo(f, "line_comment", ends)
                                      = Glue(Kind("line_comment"), f[q])
    BY <1>1, <2>2, <2>3, ToForm
  <2> QED BY <2>1, <2>3, <2>4
<1>3. CASE Byte(t, p + 1) = "*"
  <2>1. \A f : LexSlash(t, f, p) = LexTo(f, "block_comment", CommentEnds(t, p))
    BY <1>3 DEF LexSlash
  <2>2. CommentEnds(t, p) \in SUBSET ((p + 1)..Len(t))
    BY <1>1 DEF CommentEnds
  <2>3. "block_comment" \in TokenIds /\ Kind("block_comment") \in Pieces
    BY SmallPieces, SmallResults
  <2>4. \/ \A f : LexTo(f, "block_comment", CommentEnds(t, p)) = Nothing
        \/ \E q \in Nat : /\ q > p
                          /\ \A f : LexTo(f, "block_comment", CommentEnds(t, p))
                                      = Glue(Kind("block_comment"), f[q])
    BY <1>1, <2>2, <2>3, ToForm
  <2> QED BY <2>1, <2>3, <2>4
<1>4. CASE Byte(t, p + 1) \notin {"/", "*"}
  <2> DEFINE ch == Byte(t, p + 1)
             b == Glue(Kind("forward_slash"), Kind(RawToken(ch)))
  <2>1. RawToken(ch) \in TokenIds /\ "forward_slash" \in TokenIds
    BY ByteHere, SmallResults DEF RawToken, TokenIds
  <2>2. b \in Pieces /\ b = [toks |-> <<"forward_slash", RawToken(ch)>>, names |-> <<>>]
    <3>1. Kind("forward_slash") \in Pieces /\ Kind(RawToken(ch)) \in Pieces
      BY <2>1, SmallPieces
    <3>2. b \in Pieces
      BY <3>1, GluePieces
    <3> QED BY <2>1, <3>2 DEF Glue, Prepend, Kind
  <2>3. ch \in Alpha => p + 2 <= Len(t) + 1
    <3>1. ch \in Alpha => p + 1 \in 1..Len(t)
      BY ByteHere, Alphabet
    <3> QED BY <1>1, <3>1
  <2> HIDE DEF b
  <2>4. p + 2 \in Nat \ {0}
    BY <1>1
  <2>5. PICK a \in Pieces, q \in Nat :
          /\ q >= p + 2
          /\ \A f : f[q] \in Results => LexWord(t, f, ch, p + 2) = Glue(a, f[q])
    BY <2>3, <2>4, WordForm
  <2>6. \A f : LexSlash(t, f, p) = Glue(b, LexWord(t, f, ch, p + 2))
    BY <1>4, <2>2 DEF LexSlash, Glue
  <2>7. \A f : f[q] \in Results => LexSlash(t, f, p) = Glue(Glue(b, a), f[q])
    BY <2>2, <2>5, <2>6, LongerForm
  <2>8. Glue(b, a) \in Pieces /\ q > p
    BY <1>1, <2>2, <2>5, LongerForm
  <2> QED BY <2>7, <2>8
<1> QED BY <1>2, <1>3, <1>4

QuoteEnds(t, p) == {i \in (p + 1)..Len(t) : t[i] = "quote"}

(* The cases of the switch exclude one another.                            *)
LEMMA AtCases ==
  ASSUME NEW t, NEW f, NEW p, NEW ch, ch = Byte(t, p)
  PROVE  /\ ch = "eof" => LexAt(t, f, p) = Nothing
         /\ ch \in CharTokens => LexAt(t, f, p) = Glue(Kind(ch), f[p + 1])
         /\ ch = "nl" => LexAt(t, f, p) = Glue(Kind("newline"), f[p + 1])
         /\ ch = "quote" =>
              LexAt(t, f, p) = LexTo(f, "str_literal", QuoteEnds(t, p))
         /\ ch = "/" => LexAt(t, f, p) = LexSlash(t, f, p)
         /\ ch \in Digits \cup {"."} => LexAt(t, f, p) = LexNumber(t, f, p + 1)
         /\ ch \notin {"eof", "nl", "quote", "/", "."} \cup CharTokens \cup Digits =>
              LexAt(t, f, p) = LexWord(t, f, ch, p + 1)
<1> DEFINE D == Digits \cup {"."}
<1>1. /\ {"eof", "nl", "quote", "/"} \cap (CharTokens \cup D) = {}
      /\ CharTokens \cap D = {}
  BY DEF CharTokens, Digits
<1>2. LexAt(t, f, p) =
        CASE ch = "eof" -> Nothing
          [] ch \in CharTokens -> Glue(Kind(ch), f[p + 1])
          [] ch = "nl"    -> Glue(Kind("newline"), f[p + 1])
          [] ch = "quote" -> LexTo(f, "str_literal", QuoteEnds(t, p))
          [] ch = "/"     -> LexSlash(t, f, p)
          [] ch \in D -> LexNumber(t, f, p + 1)
          [] OTHER -> LexWord(t, f, ch, p + 1)
  BY Zenon DEF LexAt, QuoteEnds, Glue, Kind
<1>3. ch \notin {"eof", "nl", "quote", "/", "."} \cup CharTokens \cup Digits
        <=> ch \notin {"eof", "nl", "quote", "/"} /\ ch \notin CharTokens /\ ch \notin D
  OBVIOUS
<1> HIDE DEF D
<1> QED BY <1>1, <1>2, <1>3 DEF D

LEMMA AtForm ==
  ASSUME NEW t \in Seq(Chars), NEW p \in Nat
  PROVE  \/ \A f : LexAt(t, f, p) = Nothing
         \/ \E a \in Pieces, q \in Nat :
              /\ q > p
              /\ \A f : f[q] \in Results => LexAt(t, f, p) = Glue(a, f[q])
<1> DEFINE ch == Byte(t, p)
<1>0. /\ ch # "eof" => p \in 1..Len(t)
      /\ Len(t) \in Nat /\ p + 1 \in Nat \ {0} /\ p + 1 > p
  BY ByteHere
<1>1. CASE ch = "eof"
  BY <1>1, AtCases, SMT
<1>2. CASE ch \in CharTokens
  <2>1. Kind(ch) \in Pieces
    BY <1>2, SmallPieces, SmallResults
  <2>2. \A f : LexAt(t, f, p) = Glue(Kind(ch), f[p + 1])
    BY <1>2, AtCases, SMTT(30)
  <2> HIDE DEF ch
  <2> QED BY <1>0, <2>1, <2>2
<1>3. CASE ch = "nl"
  <2>1. Kind("newline") \in Pieces
    BY SmallPieces, SmallResults
  <2>2. \A f : LexAt(t, f, p) = Glue(Kind("newline"), f[p + 1])
    BY <1>3, AtCases, SMT
  <2> HIDE DEF ch
  <2> QED BY <1>0, <2>1, <2>2
<1>4. CASE ch = "quote"
  <2>1. \A f : LexAt(t, f, p) = LexTo(f, "str_literal", QuoteEnds(t, p))
    BY <1>4, AtCases, SMT
  <2>2. QuoteEnds(t, p) \in SUBSET ((p + 1)..Len(t))
    BY DEF QuoteEnds
  <2>3. /\ "str_literal" \in TokenIds /\ Kind("str_literal") \in Pieces
    BY SmallPieces, SmallResults
  <2>4. \/ \A f : LexTo(f, "str_literal", QuoteEnds(t, p)) = Nothing
        \/ \E q \in Nat : /\ q > p
                          /\ \A f : LexTo(f, "str_literal", QuoteEnds(t, p))
                                      = Glue(Kind("str_literal"), f[q])
    BY <2>2, <2>3, ToForm
  <2> HIDE DEF ch
  <2> QED BY <2>1, <2>3, <2>4
<1>5. CASE ch = "/"
  <2>1. \A f : LexAt(t, f, p) = LexSlash(t, f, p)
    BY <1>5, AtCases, SMT
  <2>2. p \in 1..Len(t)
    BY <1>0, <1>5
  <2> HIDE DEF ch
  <2> QED BY <2>1, <2>2, SlashForm
<1>6. CASE ch \in Digits \cup {"."}
  <2>1. \A f : LexAt(t, f, p) = LexNumber(t, f, p + 1)
    BY <1>6, AtCases, SMT
  <2>2. ch # "eof" /\ p + 1 \in 1..(Len(t) + 1)
    BY <1>0, <1>6, Alphabet
  <2> HIDE DEF ch
  <2>3. PICK a \in Pieces, q \in Nat :
          /\ q >= p + 1
          /\ \A f : f[q] \in Results => LexNumber(t, f, p + 1) = Glue(a, f[q])
    BY <2>2, NumberForm
  <2>4. q > p
    BY <2>3
  <2> QED BY <2>1, <2>3, <2>4
<1>7. CASE ch \notin {"eof", "nl", "quote", "/", "."} \cup CharTokens \cup Digits
  <2>1. \A f : LexAt(t, f, p) = LexWord(t, f, ch, p + 1)
    BY <1>7, AtCases, SMT
  <2>2. p + 1 \in Nat \ {0} /\ (ch \in Alpha => p + 1 <= Len(t) + 1)
    BY <1>0, <1>7
  <2> HIDE DEF ch
  <2>3. PICK a \in Pieces, q \in Nat :
          /\ q >= p + 1
          /\ \A f : f[q] \in Results => LexWord(t, f, ch, p + 1) = Glue(a, f[q])
    BY <2>2, WordForm
  <2>4. q > p
    BY <2>3
  <2> QED BY <2>1, <2>3, <2>4
<1> HIDE DEF ch
<1> QED BY <1>1, <1>2, <1>3, <1>4, <1>5, <1>6, <1>7

-----------------------------------------------------------------------------
(* LexRest is the function its equation says: what is made of the last n   *)
(* characters of a text is known once it is for the n - 1 behind them.     *)

LEMMA AtType ==
  ASSUME NEW t \in Seq(Chars), NEW p \in Nat, NEW f,
         \A q \in Nat : q > p => f[q] \in Pieces
  PROVE  LexAt(t, f, p) \in Pieces
<1>1. CASE LexAt(t, f, p) = Nothing
  BY <1>1, SmallPieces
<1>2. CASE \E a \in Pieces, q \in Nat :
             /\ q > p
             /\ \A g : g[q] \in Results => LexAt(t, g, p) = Glue(a, g[q])
  <2>1. PICK a \in Pieces, q \in Nat :
          q > p /\ (f[q] \in Results => LexAt(t, f, p) = Glue(a, f[q]))
    BY <1>2, Zenon
  <2>2. f[q] \in Pieces /\ f[q] \in Results
    BY <2>1 DEF Pieces
  <2> QED BY <2>1, <2>2, GluePieces
<1> QED BY <1>1, <1>2, AtForm, Zenon

LEMMA AtSame ==
  ASSUME NEW t \in Seq(Chars), NEW p \in Nat, NEW f, NEW g,
         \A q \in Nat : q > p => f[q] \in Pieces /\ g[q] = f[q]
  PROVE  LexAt(t, f, p) = LexAt(t, g, p)
<1>1. CASE \A h : LexAt(t, h, p) = Nothing
  BY <1>1, Zenon
<1>2. CASE \E a \in Pieces, q \in Nat :
             /\ q > p
             /\ \A h : h[q] \in Results => LexAt(t, h, p) = Glue(a, h[q])
  <2>1. PICK a \in Pieces, q \in Nat :
          q > p /\ \A h : h[q] \in Results => LexAt(t, h, p) = Glue(a, h[q])
    BY <1>2, Zenon
  <2>2. f[q] \in Results /\ g[q] = f[q]
    BY <2>1 DEF Pieces
  <2>3. LexAt(t, f, p) = Glue(a, f[q]) /\ LexAt(t, g, p) = Glue(a, g[q])
    BY <2>1, <2>2, Zenon
  <2> QED BY <2>2, <2>3
<1> QED BY <1>1, <1>2, AtForm, Zenon

LEMMA RestExists ==
  ASSUME NEW t \in Seq(Chars)
  PROVE  \E g : g = [p \in Nat |-> LexAt(t, g, p)]
<1> DEFINE n == Len(t)
           Solves(g, k) == /\ g \in [Nat -> Pieces]
                           /\ \A p \in Nat : p + k > n => g[p] = LexAt(t, g, p)
           S == {k \in Nat : \E g : Solves(g, k)}
<1>0. n \in Nat
  BY ByteHere
<1>1. 0 \in S
  <2> DEFINE none == [p \in Nat |-> Nothing]
  <2>1. none \in [Nat -> Pieces]
    BY SmallPieces
  <2>2. ASSUME NEW p \in Nat, p > n
        PROVE  LexAt(t, none, p) = Nothing
    <3>1. Byte(t, p) = "eof"
      BY <1>0, <2>2, ByteHere
    <3> QED BY <3>1, AtCases, SMT
  <2>3. \A p \in Nat : p + 0 > n => none[p] = LexAt(t, none, p)
    <3> HIDE DEF n
    <3>1. \A p \in Nat : p + 0 = p
      OBVIOUS
    <3>2. \A p \in Nat : none[p] = Nothing
      OBVIOUS
    <3> HIDE DEF none
    <3> QED BY <2>2, <3>1, <3>2
  <2>4. Solves(none, 0)
    BY <2>1, <2>3
  <2> HIDE DEF Solves
  <2> QED BY <2>4
<1>2. ASSUME NEW k \in S
      PROVE  k + 1 \in S
  <2>1. PICK g : Solves(g, k)
    OBVIOUS
  <2> DEFINE h == [p \in Nat |-> IF p + k > n THEN g[p] ELSE LexAt(t, g, p)]
  <2>2. k \in Nat /\ g \in [Nat -> Pieces]
    BY <2>1
  <2>3. \A p \in Nat : LexAt(t, g, p) \in Pieces
    BY <2>2, AtType
  <2>4. h \in [Nat -> Pieces]
    BY <2>2, <2>3
  <2>5. \A p \in Nat : p + k > n => h[p] = g[p]
    OBVIOUS
  <2>6. \A p \in Nat : h[p] = LexAt(t, g, p)
    BY <2>1
  <2>7. ASSUME NEW p \in Nat, p + (k + 1) > n
        PROVE  LexAt(t, h, p) = LexAt(t, g, p)
    <3>1. \A q \in Nat : q > p => q + k > n
      BY <1>0, <2>2, <2>7
    <3>2. \A q \in Nat : q > p => g[q] \in Pieces /\ h[q] = g[q]
      BY <2>2, <2>5, <3>1
    <3> HIDE DEF h
    <3> QED BY <3>2, AtSame
  <2> HIDE DEF h
  <2>8. \A p \in Nat : p + (k + 1) > n => h[p] = LexAt(t, h, p)
    BY <2>6, <2>7
  <2>9. Solves(h, k + 1)
    BY <2>4, <2>8
  <2> HIDE DEF Solves
  <2> QED BY <2>2, <2>9
<1>3. S \in SUBSET Nat
  OBVIOUS
<1> HIDE DEF S
<1>4. S = Nat
  BY <1>1, <1>2, <1>3, Induction
<1>5. n + 1 \in S
  BY <1>0, <1>4
<1>6. PICK g : Solves(g, n + 1)
  BY <1>5 DEF S
<1>7. \A p \in Nat : g[p] = LexAt(t, g, p)
  BY <1>0, <1>6
<1>8. g \in [Nat -> Pieces]
  BY <1>6
<1> QED BY <1>7, <1>8

LEMMA RestEquation ==
  ASSUME NEW t \in Seq(Chars)
  PROVE  /\ LexRest(t) = [p \in Nat |-> LexAt(t, LexRest(t), p)]
         /\ \A p \in Nat : LexRest(t)[p] = LexAt(t, LexRest(t), p)
<1> DEFINE R == CHOOSE g : g = [p \in Nat |-> LexAt(t, g, p)]
<1>1. LexRest(t) = R
  BY DEF LexRest
<1>2. R = [p \in Nat |-> LexAt(t, R, p)]
  BY RestExists
<1> HIDE DEF R
<1>3. \A p \in Nat : R[p] = LexAt(t, R, p)
  BY <1>2
<1> QED BY <1>1, <1>2, <1>3

(* What is made of any rest of a text has its types, and no more names     *)
(* than ids.                                                               *)
LEMMA RestType ==
  ASSUME NEW t \in Seq(Chars), NEW p \in Nat
  PROVE  LexRest(t)[p] \in Pieces
<1> DEFINE n == Len(t)
           R == LexRest(t)
           S == {k \in Nat : \A q \in Nat : q + k > n => R[q] \in Pieces}
<1>0. n \in Nat /\ \A q \in Nat : R[q] = LexAt(t, R, q)
  BY ByteHere, RestEquation
<1> HIDE DEF R, n
<1>1. 0 \in S
  <2>1. SUFFICES ASSUME NEW q \in Nat, q + 0 > n PROVE R[q] \in Pieces
    OBVIOUS
  <2>2. q \notin 1..Len(t)
    BY <1>0, <2>1 DEF n
  <2>3. Byte(t, q) = "eof"
    BY <2>2, ByteHere
  <2>4. R[q] = Nothing
    BY <1>0, <2>3, AtCases, SMT
  <2> QED BY <2>4, SmallPieces
<1>2. ASSUME NEW k \in S
      PROVE  k + 1 \in S
  <2>1. SUFFICES ASSUME NEW q \in Nat, q + (k + 1) > n PROVE R[q] \in Pieces
    OBVIOUS
  <2>2. \A r \in Nat : r > q => r + k > n
    BY <1>0, <2>1
  <2>3. \A r \in Nat : r > q => R[r] \in Pieces
    BY <2>2
  <2> QED BY <1>0, <2>3, AtType
<1>3. S \in SUBSET Nat
  OBVIOUS
<1> HIDE DEF S
<1>4. S = Nat
  BY <1>1, <1>2, <1>3, Induction
<1>5. n + 1 \in S /\ p + (n + 1) > n
  BY <1>0, <1>4
<1>6. R[p] \in Pieces
  BY <1>5 DEF S
<1> QED BY <1>6 DEF R

LEMMA LexOfType ==
  ASSUME NEW t \in Seq(Chars)
  PROVE  LexOf(t) \in Results /\ Len(LexOf(t).names) <= IdsAt(LexOf(t).toks)
BY RestType DEF LexOf, Pieces

-----------------------------------------------------------------------------
(* What has been made grows by the tokens and the names a step pushes.     *)

KindsOf(s) == [k \in DOMAIN s |-> s[k].id]

LEMMA KindsOfAppend ==
  ASSUME NEW s \in Seq(Tokens), NEW x \in Tokens
  PROVE  /\ KindsOf(s) \in Seq(TokenIds) /\ x.id \in TokenIds
         /\ KindsOf(Append(s, x)) = KindsOf(s) \o <<x.id>>
<1> DEFINE n == Len(s)
           a == Append(s, x)
           k == KindsOf(s)
<1>1. /\ n \in Nat /\ DOMAIN s = 1..n /\ a \in Seq(Tokens) /\ Len(a) = n + 1
      /\ DOMAIN a = 1..(n + 1) /\ a[n + 1] = x /\ \A i \in 1..n : a[i] = s[i]
  BY LenProperties, AppendProperties
<1>2. x.id \in TokenIds /\ \A i \in 1..n : s[i].id \in TokenIds
  <2>1. \A y \in Tokens : y.id \in TokenIds
    BY DEF Tokens
  <2>2. \A i \in 1..n : s[i] \in Tokens
    BY <1>1, ElementOfSeq
  <2> QED BY <2>1, <2>2
<1>3. k \in Seq(TokenIds) /\ Len(k) = n /\ \A i \in 1..n : k[i] = s[i].id
  BY <1>1, <1>2 DEF KindsOf
<1>4. /\ KindsOf(a) \in Seq(TokenIds) /\ Len(KindsOf(a)) = n + 1
      /\ \A i \in 1..(n + 1) : KindsOf(a)[i] = a[i].id
  <2>1. \A i \in 1..(n + 1) : a[i].id \in TokenIds
    BY <1>1, <1>2
  <2> HIDE DEF a
  <2> QED BY <1>1, <2>1 DEF KindsOf
<1> HIDE DEF n, a, k
<1>5. /\ k \o <<x.id>> \in Seq(TokenIds) /\ Len(k \o <<x.id>>) = n + 1
      /\ \A i \in 1..(n + 1) : (k \o <<x.id>>)[i] = IF i <= n THEN k[i] ELSE x.id
  BY <1>1, <1>2, <1>3
<1>6. \A i \in 1..(n + 1) : KindsOf(a)[i] = (k \o <<x.id>>)[i]
  <2>0. n \in Nat
    BY <1>1
  <2>1. \A i \in 1..(n + 1) : \/ i \in 1..n /\ i <= n
                              \/ i = n + 1 /\ ~(i <= n)
    BY <2>0
  <2> QED BY <1>1, <1>3, <1>4, <1>5, <2>1
<1>7. KindsOf(a) = k \o <<x.id>>
  BY <1>4, <1>5, <1>6, SeqEqual
<1> QED BY <1>2, <1>3, <1>7 DEF a, k

LEMMA MadeType == ASSUME TypeOK PROVE Made \in Results /\ Made.toks = KindsOf(toks)
<1>1. toks \in Seq(Tokens) /\ ids \in Seq(Seq(Alnum))
  BY DEF TypeOK, Tokens
<1>2. KindsOf(toks) \in Seq(TokenIds)
  <2>1. DOMAIN toks = 1..Len(toks) /\ Len(toks) \in Nat
    BY <1>1, LenProperties
  <2>2. \A i \in 1..Len(toks) : toks[i].id \in TokenIds
    <3>1. \A y \in Tokens : y.id \in TokenIds
      BY DEF Tokens
    <3>2. \A i \in 1..Len(toks) : toks[i] \in Tokens
      BY <1>1, <2>1, ElementOfSeq
    <3> QED BY <3>1, <3>2
  <2> QED BY <2>1, <2>2 DEF KindsOf
<1> QED BY <1>1, <1>2 DEF Made, KindsOf, Results

LEMMA MadePush ==
  ASSUME TypeOK, Position, NEW t \in TokenIds, NEW to \in Nat, Push(t, to)
  PROVE  /\ ids' = ids => Made' = Glue(Made, Kind(t))
         /\ \A s : t = "id" /\ ids' = Append(ids, s) => Made' = Glue(Made, Name(s))
<1>1. toks \in Seq(Tokens) /\ Token(t, loc, next - 1, to) \in Tokens
  <2>1. next - 1 \in Nat /\ loc \in [line : Nat, col : Nat] /\ toks \in Seq(Tokens)
    BY DEF TypeOK, Position, Tokens
  <2> QED BY <2>1, TokenType
<1>2. toks' = Append(toks, Token(t, loc, next - 1, to))
  BY DEF Push
<1>3. Token(t, loc, next - 1, to).id = t
  BY DEF Token
<1>4. KindsOf(toks') = KindsOf(toks) \o <<t>>
  BY <1>1, <1>2, <1>3, KindsOfAppend
<1>5. Made' = [toks |-> KindsOf(toks'), names |-> ids']
  BY DEF Made, KindsOf
<1>6. Made = [toks |-> KindsOf(toks), names |-> ids] /\ ids \in Seq(Seq(Alnum))
  BY DEF Made, KindsOf, TypeOK
<1>7. ids' = ids => Made' = Glue(Made, Kind(t))
  <2>1. ids \o <<>> = ids
    BY <1>6, ConcatEmptySeq
  <2> QED BY <1>4, <1>5, <1>6, <2>1 DEF Glue, Prepend, Kind
<1>8. \A s : t = "id" /\ ids' = Append(ids, s) => Made' = Glue(Made, Name(s))
  <2>1. \A s : Append(ids, s) = ids \o <<s>>
    BY <1>6
  <2> QED BY <1>4, <1>5, <1>6, <2>1 DEF Glue, Prepend, Name
<1> QED BY <1>7, <1>8

LEMMA MadeSlash ==
  ASSUME TypeOK, Position, Slash
  PROVE  Made' = Glue(Made, Glue(Kind("forward_slash"), Kind(RawToken(Char(next)))))
<1>1. /\ toks' = Append(Append(toks, SlashToken), Raw)
      /\ toks \in Seq(Tokens) /\ Append(toks, SlashToken) \in Seq(Tokens)
      /\ SlashToken \in Tokens /\ Raw \in Tokens
      /\ SlashToken.id = "forward_slash" /\ Raw.id = RawToken(Char(next))
  BY SlashTokens
<1> DEFINE raw == RawToken(Char(next))
           k == KindsOf(toks)
<1>2. /\ KindsOf(toks') = KindsOf(Append(toks, SlashToken)) \o <<raw>>
      /\ KindsOf(Append(toks, SlashToken)) = k \o <<"forward_slash">>
      /\ k \in Seq(TokenIds) /\ raw \in TokenIds
  BY <1>1, KindsOfAppend
<1>3. ids' = ids
  BY DEF Slash, lexemes
<1>4. /\ Made' = [toks |-> KindsOf(toks'), names |-> ids']
      /\ Made = [toks |-> k, names |-> ids] /\ ids \in Seq(Seq(Alnum))
  BY DEF Made, KindsOf, TypeOK
<1>5. ids \o <<>> = ids
  BY <1>4, ConcatEmptySeq
<1> HIDE DEF raw, k
<1>6. Made' = Glue(Glue(Made, Kind("forward_slash")), Kind(raw))
  BY <1>2, <1>3, <1>4, <1>5 DEF Glue, Prepend, Kind
<1>7. Kind("forward_slash") \in Results /\ Kind(raw) \in Results /\ Made \in Results
  BY <1>2, SmallResults, MadeType
<1> QED BY <1>6, <1>7, GlueTwice DEF raw

LEMMA MadeKept == ASSUME UNCHANGED <<toks, ids>> PROVE Made' = Made
BY DEF Made

-----------------------------------------------------------------------------
(* What has been made, and what the function makes of the rest, is what it *)
(* makes of the text: at the top of the loop of what begins with c, at the *)
(* identifier code of the word c may begin and what is behind it.          *)

Rest == LexRest(text)
Coming ==
  /\ signed /\ pc = "switch" => Glue(Made, Rest[next - 1]) = LexOf(text)
  /\ signed /\ pc = "identifier" => Glue(Made, LexWord(text, Rest, c, next)) = LexOf(text)
  /\ LexesTheText

LEMMA SignedChar ==
  ASSUME TypeOK, signed, NEW i
  PROVE  Char(i) = Byte(text, i)
BY DEF Char, NoByte, Byte

LEMMA RunIsScan ==
  ASSUME TypeOK, signed, NEW p, NEW S
  PROVE  EndOfRun(text, p, S) = Min({i \in p..(Len(text) + 1) : Char(i) \notin S})
<1>1. {i \in p..(Len(text) + 1) : Byte(text, i) \notin S}
        = {i \in p..(Len(text) + 1) : Char(i) \notin S}
  BY SignedChar
<1> QED BY <1>1, Zenon DEF EndOfRun

LEMMA RestHere ==
  ASSUME TypeOK, NEW p \in Nat
  PROVE  Rest[p] \in Results /\ Rest[p] = LexAt(text, Rest, p)
BY RestType, RestEquation DEF TypeOK, Rest, Pieces

LEMMA WordHere ==
  ASSUME TypeOK, NEW ch, NEW p \in Nat \ {0}, ch \in Alpha => p <= Len(text) + 1
  PROVE  LexWord(text, Rest, ch, p) \in Results
<1>1. text \in Seq(Chars)
  BY DEF TypeOK
<1>2. PICK a \in Pieces, q \in Nat :
        \A f : f[q] \in Results => LexWord(text, f, ch, p) = Glue(a, f[q])
  BY <1>1, WordForm
<1>3. LexWord(text, Rest, ch, p) = Glue(a, Rest[q]) /\ Rest[q] \in Results
  BY <1>2, RestHere, Zenon
<1>4. a \in Results
  BY DEF Pieces
<1> QED BY <1>3, <1>4, GlueType

LEMMA NoWord ==
  ASSUME NEW ch, ch \notin Alpha, NEW p
  PROVE  LexWord(text, Rest, ch, p) = Rest[p]
BY DEF LexWord

LEMMA GoesOn ==
  ASSUME TypeOK, NEW a \in Results, NEW m \in Results, Made' = Glue(Made, a)
  PROVE  Glue(Made', m) = Glue(Made, Glue(a, m))
BY MadeType, GlueTwice

LEMMA AtSwitch ==
  ASSUME TypeOK, Position, Coming, signed, pc = "switch"
  PROVE  /\ c = Byte(text, next - 1) /\ next \in Nat \ {0} /\ (next - 1) + 1 = next
         /\ Glue(Made, LexAt(text, Rest, next - 1)) = LexOf(text)
<1>1. next \in Nat /\ next >= 2 /\ next - 1 \in Nat /\ (next - 1) + 1 = next
  BY DEF TypeOK, Position
<1>2. c = Byte(text, next - 1)
  BY SignedChar DEF Position
<1>3. Rest[next - 1] = LexAt(text, Rest, next - 1)
  BY <1>1, RestHere
<1> QED BY <1>1, <1>2, <1>3 DEF Coming

(* A case of the switch that leaves what the function says to come.        *)
LEMMA ToIdentifier ==
  ASSUME pc' = "identifier", text' = text,
         signed' => Glue(Made', LexWord(text, Rest, c', next')) = LexOf(text)
  PROVE  Coming'
<1>1. Rest' = Rest /\ LexOf(text)' = LexOf(text)
  BY DEF Rest
<1> QED BY <1>1 DEF Coming, LexesTheText

LEMMA SimpleComing ==
  ASSUME TypeOK, Position, Coming, Blank \/ CharToken \/ Newline
  PROVE  Coming'
<1>1. /\ pc = "switch" /\ pc' = "identifier" /\ text' = text /\ signed' = signed
      /\ c' = c /\ next' = next /\ ids' = ids
  BY DEF Blank, CharToken, Newline, Case, EndCase, Goto, given, lexemes
<1>2. SUFFICES ASSUME signed
               PROVE  Glue(Made', LexWord(text, Rest, c, next)) = LexOf(text)
  BY <1>1, ToIdentifier
<1>3. /\ c = Byte(text, next - 1) /\ next \in Nat \ {0} /\ (next - 1) + 1 = next
      /\ Glue(Made, LexAt(text, Rest, next - 1)) = LexOf(text)
  BY <1>1, <1>2, AtSwitch
<1>4. Position /\ next - 1 \in Nat /\ Rest[next] \in Results
  BY <1>3, RestHere
<1>5. CASE Blank
  <2>1. c \in Blanks \cup Ignored \cup Alpha /\ Made' = Made
    BY <1>1, <1>5, MadeKept DEF Blank, Case
  <2>2. c # "eof"
    BY <2>1, Alphabet DEF Blanks, Ignored
  <2>3. c \notin {"eof", "nl", "quote", "/", "."} \cup CharTokens \cup Digits
    BY <2>1 DEF Blanks, Ignored, Alpha, CharTokens, Digits
  <2>4. LexAt(text, Rest, next - 1) = LexWord(text, Rest, c, next)
    BY <1>3, <2>3, AtCases, SMT
  <2> QED BY <1>3, <2>1, <2>4
<1>6. CASE CharToken
  <2>1. c \in CharTokens /\ Push(c, next - 1) /\ c \in TokenIds
    BY <1>6, SmallResults DEF CharToken, Case
  <2>2. Made' = Glue(Made, Kind(c)) /\ Kind(c) \in Results
    BY <1>1, <1>4, <2>1, MadePush, SmallResults
  <2>3. LexAt(text, Rest, next - 1) = Glue(Kind(c), Rest[next])
    <3>1. c = Byte(text, next - 1) /\ c \in CharTokens
      BY <1>3, <2>1
    <3>2. LexAt(text, Rest, next - 1) = Glue(Kind(c), Rest[(next - 1) + 1])
      BY <3>1, AtCases, SMT
    <3> QED BY <1>3, <3>2
  <2>4. LexWord(text, Rest, c, next) = Rest[next]
    BY <2>1, Alphabet, NoWord
  <2> QED BY <1>3, <1>4, <2>2, <2>3, <2>4, GoesOn
<1>7. CASE Newline
  <2>1. c = "nl" /\ Push("newline", next - 1) /\ "newline" \in TokenIds
    BY <1>7, SmallResults DEF Newline, Case
  <2>2. Made' = Glue(Made, Kind("newline")) /\ Kind("newline") \in Results
    BY <1>1, <1>4, <2>1, MadePush, SmallResults
  <2>3. LexAt(text, Rest, next - 1) = Glue(Kind("newline"), Rest[next])
    <3>1. Byte(text, next - 1) = "nl"
      BY <1>3, <2>1
    <3>2. LexAt(text, Rest, next - 1) = Glue(Kind("newline"), Rest[(next - 1) + 1])
      BY <3>1, AtCases, SMT
    <3> QED BY <1>3, <3>2
  <2>4. LexWord(text, Rest, c, next) = Rest[next]
    BY <2>1, NoWord DEF Alpha
  <2> QED BY <1>3, <1>4, <2>2, <2>3, <2>4, GoesOn
<1> QED BY <1>5, <1>6, <1>7

(* A lexeme that ends with the character at q.                             *)
LEMMA LexemeComing ==
  ASSUME TypeOK, Position, Coming, NEW k \in TokenIds, NEW q \in Nat, q >= next,
         pc = "switch", pc' = "identifier", UNCHANGED <<given, ids>>,
         Push(k, q), ReadTo(q), Char(q) \notin Alpha,
         signed => LexAt(text, Rest, next - 1) = Glue(Kind(k), Rest[q + 1])
  PROVE  Coming'
<1>1. text' = text /\ signed' = signed /\ ids' = ids /\ c' = Char(q) /\ next' = q + 1
  BY DEF given, ReadTo
<1>2. SUFFICES ASSUME signed
               PROVE  Glue(Made', LexWord(text, Rest, c', next')) = LexOf(text)
  BY <1>1, ToIdentifier
<1>3. Glue(Made, LexAt(text, Rest, next - 1)) = LexOf(text)
  BY <1>2, AtSwitch
<1>4. Made' = Glue(Made, Kind(k)) /\ Kind(k) \in Results
  BY <1>1, MadePush, SmallResults
<1>5. LexWord(text, Rest, c', next') = Rest[q + 1] /\ Rest[q + 1] \in Results
  BY <1>1, NoWord, RestHere
<1> QED BY <1>2, <1>3, <1>4, <1>5, GoesOn

LEMMA StringComing ==
  ASSUME TypeOK, Position, Coming, StringLiteral
  PROVE  Coming'
<1>1. /\ pc = "switch" /\ c = "quote" /\ UNCHANGED <<given, ids>>
      /\ next \in Nat /\ next >= 2 /\ (next - 1) + 1 = next /\ next - 1 \in Nat
  BY DEF StringLiteral, Case, TypeOK, Position
<1>2. CASE StringEnds # {}
  <2> DEFINE q == Min(StringEnds)
  <2>1. /\ pc' = "identifier" /\ Push("str_literal", q) /\ ReadTo(q)
    BY <1>2 DEF StringLiteral, EndCase, Goto
  <2>2. q \in next..Len(text) /\ Char(q) = "quote" /\ Len(text) \in Nat
    BY <1>2, CommentEndsHere, TextHere
  <2>3. q \in Nat /\ q >= next /\ Char(q) \notin Alpha
    BY <1>1, <2>2 DEF Alpha
  <2>4. ASSUME signed
        PROVE  LexAt(text, Rest, next - 1) = Glue(Kind("str_literal"), Rest[q + 1])
    <3>1. c = Byte(text, next - 1)
      BY <1>1, <2>4, AtSwitch
    <3>2. LexAt(text, Rest, next - 1)
            = LexTo(Rest, "str_literal", QuoteEnds(text, next - 1))
      BY <1>1, <3>1, AtCases, SMTT(30)
    <3>3. QuoteEnds(text, next - 1) = StringEnds
      BY <1>1 DEF QuoteEnds, StringEnds
    <3> QED BY <1>2, <3>2, <3>3 DEF LexTo, Glue, Kind
  <2>5. "str_literal" \in TokenIds
    BY SmallResults
  <2> HIDE DEF q
  <2> QED BY <1>1, <2>1, <2>3, <2>4, <2>5, LexemeComing
<1>3. CASE StringEnds = {}
  <2>1. pc' = "hung"
    BY <1>3 DEF StringLiteral, Goto
  <2> QED BY <2>1 DEF Coming, LexesTheText
<1> QED BY <1>2, <1>3

LEMMA CommentComing ==
  ASSUME TypeOK, Position, Coming, LineComment \/ BlockComment
  PROVE  Coming'
<1>1. /\ pc = "switch" /\ c = "/" /\ UNCHANGED <<given, ids>>
      /\ next \in Nat /\ next >= 2 /\ (next - 1) + 1 = next /\ next - 1 \in Nat
      /\ (next - 1) + 2 = next + 1 /\ (next - 1) + 3 = next + 2
  BY DEF LineComment, BlockComment, Case, TypeOK, Position, lexemes
<1>2. /\ "line_comment" \in TokenIds /\ "block_comment" \in TokenIds
      /\ "nl" \notin Alpha /\ "/" \notin Alpha /\ Len(text) \in Nat
  BY SmallResults, TextHere DEF Alpha
<1>3. signed => LexAt(text, Rest, next - 1) = LexSlash(text, Rest, next - 1)
  <2>1. SUFFICES ASSUME signed
                 PROVE  LexAt(text, Rest, next - 1) = LexSlash(text, Rest, next - 1)
    OBVIOUS
  <2>2. c = Byte(text, next - 1) /\ c = "/"
    BY <1>1, <2>1, AtSwitch
  <2> QED BY <2>2, AtCases, SMT
<1>4. CASE LineComment /\ LineCommentEnds # {}
  <2> DEFINE q == Min(LineCommentEnds)
  <2>1. /\ pc' = "identifier" /\ Push("line_comment", q) /\ ReadTo(q) /\ Char(next) = "/"
    BY <1>4 DEF LineComment, EndCase, Goto
  <2>2. q \in (next + 1)..Len(text) /\ Char(q) = "nl"
    BY <1>4, CommentEndsHere
  <2>3. q \in Nat /\ q >= next /\ Char(q) \notin Alpha
    BY <1>1, <1>2, <2>2
  <2>4. ASSUME signed
        PROVE  LexAt(text, Rest, next - 1) = Glue(Kind("line_comment"), Rest[q + 1])
    <3>1. Byte(text, (next - 1) + 1) = "/"
      BY <1>1, <2>1, <2>4, SignedChar
    <3> DEFINE ends == {i \in ((next - 1) + 2)..Len(text) : text[i] = "nl"}
    <3>2. LexSlash(text, Rest, next - 1) = LexTo(Rest, "line_comment", ends)
      BY <3>1 DEF LexSlash
    <3>3. ends = LineCommentEnds
      BY <1>1 DEF LineCommentEnds
    <3> HIDE DEF ends
    <3> QED BY <1>3, <1>4, <2>4, <3>2, <3>3 DEF LexTo, Glue, Kind
  <2> HIDE DEF q
  <2> QED BY <1>1, <1>2, <2>1, <2>3, <2>4, LexemeComing
<1>5. CASE /\ BlockComment
           /\ BlockCommentEnds # {} /\ ~AbortsBefore(Min(BlockCommentEnds))
  <2> DEFINE q == Min(BlockCommentEnds)
  <2>1. /\ pc' = "identifier" /\ Push("block_comment", q) /\ ReadTo(q) /\ Char(next) = "*"
    BY <1>5 DEF BlockComment, EndCase, Goto
  <2>2. q \in (next + 2)..Len(text) /\ Char(q) = "/"
    BY <1>5, CommentEndsHere
  <2>3. q \in Nat /\ q >= next /\ Char(q) \notin Alpha
    BY <1>1, <1>2, <2>2
  <2>4. ASSUME signed
        PROVE  LexAt(text, Rest, next - 1) = Glue(Kind("block_comment"), Rest[q + 1])
    <3>1. Byte(text, (next - 1) + 1) = "*"
      BY <1>1, <2>1, <2>4, SignedChar
    <3>2. LexSlash(text, Rest, next - 1)
            = LexTo(Rest, "block_comment", CommentEnds(text, next - 1))
      BY <3>1 DEF LexSlash
    <3>3. CommentEnds(text, next - 1) = BlockCommentEnds
      <4>1. \A i : Byte(text, i) = Char(i)
        BY <2>4, SignedChar
      <4> QED BY <1>1, <4>1 DEF CommentEnds, BlockCommentEnds, OpensRun
    <3> QED BY <1>3, <1>5, <2>4, <3>2, <3>3 DEF LexTo, Glue, Kind
  <2> HIDE DEF q
  <2> QED BY <1>1, <1>2, <2>1, <2>3, <2>4, LexemeComing
<1>6. CASE pc' \in {"hung", "aborted"}
  BY <1>6 DEF Coming, LexesTheText
<1>7. \/ LineComment /\ LineCommentEnds # {}
      \/ /\ BlockComment
         /\ BlockCommentEnds # {} /\ ~AbortsBefore(Min(BlockCommentEnds))
      \/ pc' \in {"hung", "aborted"}
  BY Zenon DEF LineComment, BlockComment, Goto
<1> QED BY <1>4, <1>5, <1>6, <1>7

LEMMA SlashComing ==
  ASSUME TypeOK, Position, Coming, Slash
  PROVE  Coming'
<1>1. /\ pc = "switch" /\ pc' = "identifier" /\ c = "/" /\ text' = text
      /\ signed' = signed /\ c' = Char(next) /\ next' = next + 1
      /\ Char(next) \notin {"/", "*"}
      /\ next \in Nat /\ next >= 2 /\ next - 1 \in Nat
      /\ (next - 1) + 1 = next /\ (next - 1) + 2 = next + 1
  BY DEF Slash, Case, EndCase, Goto, ReadTo, given, TypeOK, Position
<1> DEFINE ch == Char(next)
           k == Kind("forward_slash")
           r == Kind(RawToken(ch))
           w == LexWord(text, Rest, ch, next + 1)
<1>2. SUFFICES ASSUME signed PROVE Glue(Made', w) = LexOf(text)
  BY <1>1, ToIdentifier
<1>3. c = Byte(text, next - 1) /\ Glue(Made, LexAt(text, Rest, next - 1)) = LexOf(text)
  BY <1>1, <1>2, AtSwitch
<1>4. LexAt(text, Rest, next - 1) = LexSlash(text, Rest, next - 1)
  <2>1. c = Byte(text, next - 1) /\ c = "/"
    BY <1>1, <1>3
  <2> QED BY <2>1, AtCases, SMT
<1>5. LexSlash(text, Rest, next - 1)
        = Prepend(<<"forward_slash", RawToken(ch)>>, <<>>, w)
  <2>1. Byte(text, (next - 1) + 1) = ch
    BY <1>1, <1>2, SignedChar
  <2> QED BY <1>1, <2>1 DEF LexSlash
<1>6. k \in Results /\ r \in Results /\ Glue(k, r) \in Results
  <2>1. RawToken(ch) \in TokenIds /\ "forward_slash" \in TokenIds
    BY SlashTokens, SmallResults DEF TokenIds
  <2> QED BY <2>1, SmallResults, GlueType
<1>7. Glue(k, r) = [toks |-> <<"forward_slash", RawToken(ch)>>, names |-> <<>>]
  BY DEF Glue, Prepend, Kind
<1>8. LexSlash(text, Rest, next - 1) = Glue(Glue(k, r), w)
  BY <1>5, <1>7 DEF Glue
<1>9. w \in Results
  <2>1. ch \in Alpha => next + 1 <= Len(text) + 1
    <3>1. ch \in Alpha => next \in 1..Len(text)
      BY CharHere, Alphabet
    <3> QED BY <1>1, <3>1, TextHere
  <2>2. next + 1 \in Nat \ {0}
    BY <1>1
  <2> QED BY <2>1, <2>2, WordHere
<1>10. Made' = Glue(Made, Glue(k, r))
  BY MadeSlash
<1> HIDE DEF k, r, w
<1> QED BY <1>3, <1>4, <1>6, <1>8, <1>9, <1>10, GoesOn

LEMMA NumberComing ==
  ASSUME TypeOK, Position, Coming, NumberLiteral
  PROVE  Coming'
<1> DEFINE q == NumberEnd
           k == Kind("num_literal")
           n == IF Char(q) \in Suffixes THEN q + 1 ELSE Ungot(q)
           w == LexWord(text, Rest, Char(q), n)
<1>1. /\ pc = "switch" /\ pc' = "identifier" /\ c \in Digits \cup {"."}
      /\ text' = text /\ signed' = signed /\ ids' = ids
      /\ c' = Char(q) /\ next' = n
      /\ \E to : Push("num_literal", to) /\ to \in {q, q - 1}
  BY DEF NumberLiteral, Case, EndCase, Goto, ReadTo, ReadToUnget, given
<1>2. /\ next \in 2..(Len(text) + 1) /\ q \in next..(Len(text) + 1) /\ q \in Nat
      /\ Len(text) \in Nat /\ next \in Nat /\ next - 1 \in Nat /\ (next - 1) + 1 = next
  <2>1. next \in 2..(Len(text) + 1) /\ Len(text) \in Nat
    BY NumberStart, TextHere DEF NumberLiteral
  <2> QED BY <2>1, NumberEndHere
<1>3. SUFFICES ASSUME signed PROVE Glue(Made', w) = LexOf(text)
  BY <1>1, ToIdentifier
<1>4. c = Byte(text, next - 1) /\ Glue(Made, LexAt(text, Rest, next - 1)) = LexOf(text)
  BY <1>1, <1>3, AtSwitch
<1>5. LexAt(text, Rest, next - 1) = LexNumber(text, Rest, next)
  <2>1. LexAt(text, Rest, next - 1) = LexNumber(text, Rest, (next - 1) + 1)
    <3>1. c = Byte(text, next - 1) /\ c \in Digits \cup {"."}
      BY <1>1, <1>4
    <3> QED BY <3>1, AtCases, SMT
  <2> QED BY <1>2, <2>1
<1>6. LexNumber(text, Rest, next) = Glue(k, w)
  <2>1. \A i : Byte(text, i) = Char(i)
    BY <1>3, SignedChar
  <2>2. EndOfRun(text, next, Digits \cup {"."}) = q
    BY <1>3, RunIsScan, Zenon DEF NumberEnd
  <2> HIDE DEF q
  <2>3. Behind(text, q) = Ungot(q)
    BY <2>1 DEF Behind, Ungot
  <2> QED BY <2>1, <2>2, <2>3 DEF LexNumber, Glue, Kind
<1>7. n \in Nat \ {0} /\ (Char(q) \in Alpha => n <= Len(text) + 1)
  <2>1. Char(q) \in Alpha => q \in 1..Len(text)
    BY CharHere, Alphabet
  <2> HIDE DEF q
  <2> QED BY <1>2, <2>1 DEF Ungot
<1>8. w \in Results
  BY <1>7, WordHere
<1>9. Made' = Glue(Made, k) /\ k \in Results
  <2>1. PICK to \in {q, q - 1} : Push("num_literal", to)
    BY <1>1
  <2>2. to \in Nat /\ "num_literal" \in TokenIds
    <3> HIDE DEF q
    <3> QED BY <1>2, SmallResults
  <2> QED BY <1>1, <2>1, <2>2, MadePush, SmallResults
<1> HIDE DEF k, w
<1> QED BY <1>4, <1>5, <1>6, <1>8, <1>9, GoesOn

(* The identifier code, and the end of the loop.                           *)
LEMMA LoopComing ==
  ASSUME TypeOK, Position, Coming, Identifier \/ NoIdentifier
  PROVE  Coming'
<1>1. /\ pc = "identifier" /\ pc' = "switch" /\ text' = text /\ signed' = signed
      /\ next \in Nat /\ next >= 2
  BY DEF Identifier, NoIdentifier, Goto, given, TypeOK, Position
<1>2. Rest' = Rest /\ LexOf(text)' = LexOf(text)
  BY <1>1 DEF Rest
<1>3. SUFFICES ASSUME signed PROVE Glue(Made', Rest[next' - 1]) = LexOf(text)
  BY <1>1, <1>2 DEF Coming, LexesTheText
<1>4. Glue(Made, LexWord(text, Rest, c, next)) = LexOf(text)
  BY <1>1, <1>3 DEF Coming
<1>5. CASE NoIdentifier
  <2>1. c \notin Alpha /\ next' = next + 1 /\ Made' = Made
    BY <1>5, MadeKept DEF NoIdentifier, ReadAfter, lexemes
  <2>2. next' - 1 = next
    BY <1>1, <2>1
  <2> QED BY <1>4, <2>1, <2>2, NoWord
<1>6. CASE Identifier
  <2> DEFINE q == IdentifierEnd
             s == Spelling(q)
  <2>1. /\ c \in Alpha /\ Push(IF s \in Keywords THEN "keyword" ELSE "id", q - 1)
        /\ StoreId(s) /\ next' = Ungot(q) + 1
    BY <1>6 DEF Identifier, ReadAfter
  <2>2. /\ next \in 2..(Len(text) + 1) /\ q \in next..(Len(text) + 1) /\ q \in Nat
        /\ Len(text) \in Nat
    <3>1. next \in 2..(Len(text) + 1) /\ Len(text) \in Nat
      BY <1>1, <2>1, IdentifierStart, TextHere
    <3> QED BY <3>1, IdentifierEndHere
  <2>3. \A i : Byte(text, i) = Char(i)
    BY <1>3, SignedChar
  <2>4. EndOfRun(text, next, Alnum) = q
    BY <1>3, RunIsScan, Zenon DEF IdentifierEnd
  <2>5. s \in Seq(Alnum) /\ s = <<c>> \o SubSeq(text, next, q - 1)
    <3>1. next \in 1..(Len(text) + 1) /\ c \in Alnum /\ text \in Seq(Chars)
      BY <2>1, <2>2, Alphabet DEF TypeOK
    <3>2. <<c>> \o SubSeq(text, next, EndOfRun(text, next, Alnum) - 1) \in Seq(Alnum)
      BY <3>1, RunIsWord
    <3> QED BY <2>4, <3>2 DEF Spelling
  <2>6. next' - 1 = Ungot(q) /\ Ungot(q) \in Nat /\ q - 1 \in Nat
    <3> HIDE DEF q
    <3> QED BY <2>1, <2>2 DEF Ungot
  <2>7. Behind(text, q) = Ungot(q)
    BY <2>3 DEF Behind, Ungot
  <2>8. Rest[Ungot(q)] \in Results
    BY <2>6, RestHere
  <2> HIDE DEF q, s
  <2>9. CASE s \in Keywords
    <3>1. Push("keyword", q - 1) /\ ids' = ids /\ "keyword" \in TokenIds
      BY <2>1, <2>9, SmallResults DEF StoreId
    <3>2. Made' = Glue(Made, Kind("keyword")) /\ Kind("keyword") \in Results
      BY <2>6, <3>1, MadePush, SmallResults
    <3>3. LexWord(text, Rest, c, next) = Glue(Kind("keyword"), Rest[Ungot(q)])
      BY <2>1, <2>4, <2>5, <2>7, <2>9 DEF LexWord, Glue, Kind
    <3> QED BY <1>4, <2>6, <2>8, <3>2, <3>3, GoesOn
  <2>10. CASE s \notin Keywords
    <3>1. Push("id", q - 1) /\ ids' = Append(ids, s) /\ "id" \in TokenIds
      BY <2>1, <2>10, SmallResults DEF StoreId
    <3>2. Made' = Glue(Made, Name(s)) /\ Name(s) \in Results
      BY <2>5, <2>6, <3>1, MadePush, SmallResults
    <3>3. LexWord(text, Rest, c, next) = Glue(Name(s), Rest[Ungot(q)])
      BY <2>1, <2>4, <2>5, <2>7, <2>10 DEF LexWord, Glue, Name
    <3> QED BY <1>4, <2>6, <2>8, <3>2, <3>3, GoesOn
  <2> QED BY <2>9, <2>10
<1> QED BY <1>5, <1>6

LEMMA EndComing ==
  ASSUME TypeOK, Position, Coming, EndOfFile \/ EndUnseen
  PROVE  Coming'
<1>1. CASE EndUnseen
  BY <1>1 DEF EndUnseen, Goto, Coming, LexesTheText
<1>2. CASE EndOfFile
  <2>1. pc = "switch" /\ pc' = "done" /\ c = "eof" /\ text' = text /\ Made' = Made
    BY <1>2, MadeKept DEF EndOfFile, Case, Goto, given, lexemes
  <2>2. signed
    BY <2>1, CharHere DEF Position
  <2>3. c = Byte(text, next - 1) /\ Glue(Made, LexAt(text, Rest, next - 1)) = LexOf(text)
    BY <2>1, <2>2, AtSwitch
  <2>4. LexAt(text, Rest, next - 1) = Nothing
    <3>1. Byte(text, next - 1) = "eof"
      BY <2>1, <2>3
    <3> QED BY <3>1, AtCases, SMT
  <2>5. Made = LexOf(text)
    BY <2>3, <2>4, MadeType, GlueNothing
  <2> QED BY <2>1, <2>5 DEF Coming, LexesTheText
<1> QED BY <1>1, <1>2

LEMMA ComingStep ==
  ASSUME Typed, Coming, [Next]_vars
  PROVE  Coming'
<1>1. CASE UNCHANGED vars
  <2>1. UNCHANGED <<text, signed, pc, c, next>> /\ Made' = Made
    BY <1>1, MadeKept DEF vars, given, lexemes
  <2> QED BY <2>1 DEF Coming, LexesTheText, Rest
<1>2. CASE Next
  BY <1>2, SimpleComing, StringComing, CommentComing, SlashComing, NumberComing,
     LoopComing, EndComing DEF Next, Typed
<1> QED BY <1>1, <1>2

LEMMA ComingStart == ASSUME Start PROVE Coming
<1>1. pc = "switch" /\ next = 2 /\ text \in Seq(Chars) /\ Made = Nothing
  BY DEF Start, Made, Nothing
<1>2. Rest[1] \in Results
  BY <1>1, RestType DEF Rest, Pieces
<1> QED BY <1>1, <1>2, GlueNothing DEF Coming, LexesTheText, Rest, LexOf

(* lex() makes of every text what the function of Lexing says, token for   *)
(* token and name for name, whatever the keywords (lex.cpp:140-260).       *)
THEOREM LexingIsAFunction == Spec => []LexesTheText
<1>1. Init => Coming
  BY InitStart, ComingStart
<1>2. Typed /\ Coming /\ [Next]_vars => Coming'
  BY ComingStep
<1>3. Coming => LexesTheText
  BY DEF Coming
<1> QED BY <1>1, <1>2, <1>3, TypedAlways, PTL DEF Spec
=============================================================================
