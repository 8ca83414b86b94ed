------------------------------ MODULE MCDriver ------------------------------
(* Command lines for the driver, in four families: any few arguments;      *)
(* feature flags; files that do not open; and several files behind options. *)
EXTENDS Driver

Words(A, n) == UNION {[1..m -> A] : m \in 0..n}
Then(S, E)  == {s \o e : s \in S, e \in E}

MCContents ==
  [f \in {"a.c", "b.c", "one.c", "slash.c", "locked.c"} |->
     CASE f = "a.c"     -> [toks  |-> <<"other", "id", "id", "other">>,
                            names |-> <<"f", "g">>]
       [] f = "locked.c" -> [toks |-> <<"id">>, names |-> <<"v">>]
       [] f = "b.c"     -> [toks  |-> <<"id", "other", "id", "id">>,
                            names |-> <<"u", "v", "w">>]
       [] f = "one.c"   -> [toks |-> <<"id", "other">>, names |-> <<"main">>]
       [] f = "slash.c" -> [toks |-> <<"raw", "id">>, names |-> <<>>]]
MCNames       == {"f", "g", "u", "v", "w", "main", "line", "column", "token"}
MCDirectories == {"src"}
MCWritable    == {"out.txt", "b.c", "missing.c"}
MCDumpContent == [toks  |-> <<"id", "other", "id", "other", "id", "other">>,
                  names |-> <<"line", "column", "token">>]
MCHidden      == {"hidden.c"}
MCUnreadable  == {"hidden.c", "locked.c"}
MCFlagBits    == [v \in {"0,0x0", "3,0x1f", "12"} |->
                    CASE v = "0,0x0"  -> <<0, 0>>
                      [] v = "3,0x1f" -> <<3, 31>>
                      [] v = "12"     -> <<12, 18>>]
MCCommaless   == {"12"}

Sources == {"a.c", "b.c", "one.c", "slash.c", "missing.c", "src"}
Single  == {"", "-h", "-v", "-L", "a.c", "missing.c", SetFlag, StopAt, LexOut,
            "--output-file", "3,0x1f"}

MCArguments ==
  Words(Single, 3)
    \cup Then(Words({SetFlag, "3,0x1f", "12", "--output-file",
                "-fexample-int-option", "-fdebug-parser"}, 4),
              {<<>>, <<"a.c">>})
    \cup Then({<<>>, <<"-L">>}, Words({"a.c", "locked.c", "hidden.c", "missing.c", "src"}, 3))
    \cup Then(Then(Then({<<>>, <<"-L">>},
                       {<<>>, <<LexOut, "out.txt">>, <<LexOut, "nowhere/out">>,
                        <<LexOut, "b.c">>, <<LexOut, "missing.c">>}),
                  {<<>>, <<StopAt, "lex">>, <<StopAt, "parse">>}),
             Words(Sources, 3))

(* The counterexample runs: two files; a feature flag.                     *)
FewArguments == {<<"a.c", "b.c">>, <<SetFlag, "3,0x1f", "a.c">>}
=============================================================================
