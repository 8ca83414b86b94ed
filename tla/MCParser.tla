------------------------------ MODULE MCParser ------------------------------
(* Token streams for the parser, in three families that meet the three     *)
(* loops of a declaration: attributes, specifiers and declarators.         *)
EXTENDS Parser

Words(A, n) == UNION {[1..m -> A] : m \in 0..n}
Then(S, E)  == {s \o e : s \in S, e \in E}

Terminator == <<"semicolon", "newline">>

AttributeStreams ==
  Then(Then({<<"l_square", "l_square">>},
            Words({"id", "comma", "colon", "l_paren", "r_square"}, 3)),
       {<<>>, <<"r_square", "r_square">> \o Terminator})

SpecifierStreams ==
  Then(Words({"int", "long", "double", "short"}, 4)
         \cup Words({"long", "signed", "static", "inline", "_BitInt"}, 2),
       {<<>>, <<"id">> \o Terminator})

DeclaratorStreams ==
  Then(Words({"id", "int", "l_paren", "r_paren", "asterisk"}, 4),
       {<<"semicolon">>, Terminator})

MCStreams == AttributeStreams \cup SpecifierStreams \cup DeclaratorStreams
               \cup {<<>>, <<"id", "l_paren">>, <<"number", "l_curly">>}

(* Nothing mapped past the end; tokens an earlier file may have left there. *)
MCSlacks == {<<>>, <<"l_paren", "id", "r_paren">>, <<"id", "semicolon">>,
             <<"r_square", "r_square", "asterisk">>}

(* The counterexample runs: a few ordinary declarations.                   *)
FewStreams == {<<"int", "id", "l_paren", "r_paren", "semicolon", "newline">>,
               <<"l_square", "l_square", "id", "comma", "id", "r_square",
                 "r_square", "id", "semicolon", "newline">>}
FewSlacks == {<<>>}
=============================================================================
