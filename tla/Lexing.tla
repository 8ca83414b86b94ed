------------------------------- MODULE Lexing --------------------------------
(***************************************************************************)
(* What lex() of fe/lex/lex.cpp makes of a text, where char is signed, as  *)
(* a function of the text: the ids of its tokens and the lexed_ids.  It is *)
(* the specification of what Lexer does step by step, and knows no current *)
(* character, no ungetc and no two halves of an iteration, only the        *)
(* position from which on a rest of the text is lexed.                     *)
(***************************************************************************)
EXTENDS Lexer

Byte(t, i) == IF i \in DOMAIN t /\ t[i] # "ff" THEN t[i] ELSE "eof"

Nothing == [toks |-> <<>>, names |-> <<>>]
Prepend(kinds, spelled, made) == [toks  |-> kinds \o made.toks,
                                  names |-> spelled \o made.names]

EndOfRun(t, p, S) == Min({i \in p..(Len(t) + 1) : Byte(t, i) \notin S})
(* fgetc is past the byte 0xFF that ends a run as the end of the file does. *)
Behind(t, q) == IF Byte(t, q) = "eof" THEN q + 1 ELSE q

(* A lexeme up to the first of these ends; there may be none.              *)
LexTo(rest, kind, ends) ==
  IF ends = {} THEN Nothing ELSE Prepend(<<kind>>, <<>>, rest[Min(ends) + 1])

(* A word of ch and the characters from p on, if ch is a letter.           *)
LexWord(t, rest, ch, p) ==
  IF ch \notin Alpha THEN rest[p]
  ELSE LET q == EndOfRun(t, p, Alnum)
           s == <<ch>> \o SubSeq(t, p, q - 1)
       IN IF s \in Keywords
          THEN Prepend(<<"keyword">>, <<>>, rest[Behind(t, q)])
          ELSE Prepend(<<"id">>, <<s>>, rest[Behind(t, q)])

(* Its last character, and one that ends it without being part of it,      *)
(* comes again as the first character of a word.                           *)
LexNumber(t, rest, p) ==
  LET q == EndOfRun(t, p, Digits \cup {"."})
  IN Prepend(<<"num_literal">>, <<>>,
             LexWord(t, rest, Byte(t, q),
                     IF Byte(t, q) \in Suffixes THEN q + 1 ELSE Behind(t, q)))

(* The ends of the comment that a star behind p begins.                    *)
CommentEnds(t, p) ==
  {q \in (p + 3)..Len(t) :
     /\ t[q] = "/"
     /\ \E i \in (p + 2)..(q - 1) :
          /\ i = p + 2 \/ Byte(t, i - 1) # "*"
          /\ (q - i) % 2 = 1 /\ \A j \in i..(q - 1) : Byte(t, j) = "*"}

LexSlash(t, rest, p) ==
  CASE Byte(t, p + 1) = "/" ->
         LexTo(rest, "line_comment", {i \in (p + 2)..Len(t) : t[i] = "nl"})
    [] Byte(t, p + 1) = "*" -> LexTo(rest, "block_comment", CommentEnds(t, p))
    [] OTHER -> Prepend(<<"forward_slash", RawToken(Byte(t, p + 1))>>, <<>>,
                        LexWord(t, rest, Byte(t, p + 1), p + 2))

LexAt(t, rest, p) ==
  LET ch == Byte(t, p) IN
  CASE ch = "eof" -> Nothing
    [] ch \in CharTokens -> Prepend(<<ch>>, <<>>, rest[p + 1])
    [] ch = "nl"    -> Prepend(<<"newline">>, <<>>, rest[p + 1])
    [] ch = "quote" -> LexTo(rest, "str_literal",
                             {i \in (p + 1)..Len(t) : t[i] = "quote"})
    [] ch = "/"     -> LexSlash(t, rest, p)
    [] ch \in Digits \cup {"."} -> LexNumber(t, rest, p + 1)
    [] OTHER -> LexWord(t, rest, ch, p + 1)

(* What is made of t from a position on, and as a whole.                   *)
LexRest(t) == LET rest[p \in Nat] == LexAt(t, rest, p) IN rest
LexOf(t)   == LexRest(t)[1]

-----------------------------------------------------------------------------
(* What has been made so far.                                              *)
Made == [toks |-> [k \in DOMAIN toks |-> toks[k].id], names |-> ids]

(* lex() makes of a text what the function does: neither ungetc nor the    *)
(* character a case leaves to the identifier code, nor where the getc() of *)
(* the loop is, makes any other token or name of it (lex.cpp:140-260).     *)
LexesTheText == pc = "done" => Made = LexOf(text)
=============================================================================
