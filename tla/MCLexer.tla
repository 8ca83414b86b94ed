------------------------------ MODULE MCLexer -------------------------------
(* Source files for the lexer: every short text over an alphabet with a    *)
(* character of each case, longer ones over the characters of comments, of *)
(* strings and numbers, and of identifiers and keywords.                   *)
EXTENDS Lexing

Words(A, n) == UNION {[1..m -> A] : m \in 0..n}

MCTexts == Words({"nl", " ", ";", "/", "*", "quote", "0", ".", "f", "x"}, 4)
             \cup Words({"nl", "/", "*", "x"}, 6)
             \cup Words({"nl", "quote", "1", "d", "#"}, 5)
             \cup Words({"nl", "d", "o", "_", "/"}, 5)
             \cup Words({"nl", "ff", "/", "*", "0", "x"}, 4)
MCKeywords == {<<"d", "o">>}

(* The counterexample runs: two lines, and a number with a suffix.         *)
FewTexts == {<<"1", "nl", ";", "nl">>, <<"x", "=", "0", ".", "0", "f", ";", "nl">>}
=============================================================================
