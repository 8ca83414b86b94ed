----------------------------- MODULE MCCompile ------------------------------
(* Source files and command lines for the whole compiler.  Two spellings   *)
(* of two letters stand for keywords; behind a number one of them needs    *)
(* only one.                                                               *)
EXTENDS Compile, TLC

MCKeywordOf == (<<"d", "o">> :> "int") @@ (<<"x", "x">> :> "signed")

Source(chars, kinds, spelled) ==
  [text |-> chars, content |-> [toks |-> kinds, names |-> spelled]]

(* Declarations; tokens that no declaration begins with; an attribute, a   *)
(* comment and a string that do not end; a file without its last newline,  *)
(* and one that begins with a byte 0xFF.                                   *)
Files == [f \in {"fn.c", "names.c", "one.c", "none.c", "attr.c", "slash.c",
                 "comment.c", "string.c", "num.c", "cut.c", "signs.c", "lines.c", "byte.c",
                 "locked.c"} |->
  CASE f = "fn.c" ->
         Source(<<"d", "o", " ", "*", "f", "(", "x", ")", ";", "nl">>,
                <<"other", "other", "id", "other", "id", "other", "other", "other">>,
                <<<<"f">>, <<"x">>>>)
    [] f = "names.c" ->
         Source(<<"x", "_", " ", "*", "d", ",", "f", ";", "nl">>,
                <<"id", "other", "id", "other", "id", "other", "other">>,
                <<<<"x", "_">>, <<"d">>, <<"f">>>>)
    [] f = "one.c" ->
         Source(<<"d", "o", " ", "x", "(", ")", ";", "nl">>,
                <<"other", "id", "other", "other", "other", "other">>, <<<<"x">>>>)
    [] f = "lines.c" ->
         Source(<<"f", ";", "nl", ";", "nl", "x", "}", ";", "nl">>,
                <<"id", "other", "other", "other", "other", "id", "other", "other", "other">>,
                <<<<"f">>, <<"x">>>>)
    [] f = "locked.c" -> Source(<<"f", ";", "nl">>, <<"id", "other", "other">>, <<<<"f">>>>)
    [] f = "none.c" -> Source(<<>>, <<>>, <<>>)
    [] f = "attr.c" ->
         Source(<<"[", "[", "f", ",", "x", "]", "]", ";", "nl">>,
                <<"other", "other", "id", "other", "id", "other", "other", "other", "other">>,
                <<<<"f">>, <<"x">>>>)
    [] f = "slash.c" ->
         Source(<<"/", "x", ";", "f", ";", "nl">>,
                <<"raw", "raw", "id", "other", "id", "other", "other">>,
                <<<<"x">>, <<"f">>>>)
    [] f = "comment.c" -> Source(<<"f", "/", "*", "x">>, <<"id">>, <<<<"f">>>>)
    [] f = "string.c"  -> Source(<<"quote", "x", ";", "nl">>, <<>>, <<>>)
    [] f = "num.c" ->
         Source(<<"d", "o", " ", "0", "x", " ", "0", "f", ";", "nl">>,
                <<"other", "other", "other", "other", "id", "other", "other">>,
                <<<<"f">>>>)
    [] f = "byte.c" -> Source(<<"ff", "x", ";", "nl">>, <<>>, <<>>)
    [] f = "cut.c" -> Source(<<"d", "o">>, <<"other">>, <<>>)
    [] f = "signs.c" ->
         Source(<<"x", "x", " ", "x", "x", " ", "d", ";", "nl">>,
                <<"other", "other", "id", "other", "other">>, <<<<"d">>>>)]

MCSources   == [f \in DOMAIN Files |-> Files[f].text]
MCDump      == Source(<<" ", "x", ":", "d", "nl", "0", ":", "1", " ", "_", "nl">>,
                      <<"id", "other", "id", "other", "other", "other", "other",
                        "id", "other">>,
                      <<<<"x">>, <<"d">>, <<"_">>>>)
MCDumpText    == MCDump.text
MCDirectories == {"src"}
MCWritable    == {"names.c"}
MCHidden      == {"hidden.c"}
MCUnreadable  == {"hidden.c", "locked.c"}
MCFlagBits    == ("0,0x0" :> <<0, 0>>) @@ ("1" :> <<1, 1>>)
MCCommaless   == {"1"}

Options == {<<>>, <<"-L">>, <<"-L", "--lex-output-file", "names.c">>,
            <<"-fstop-after-phase", "lex">>, <<"-fstop-after-phase", "parse">>}
Names   == (DOMAIN Files \ MCUnreadable) \cup {"src", "gone.c"}
MCArguments == {o \o f : o \in Options,
                         f \in UNION {[1..n -> Names] : n \in 0..2}}
                 \cup [1..3 -> {"fn.c", "names.c", "lines.c", "none.c"}]
                 \cup {<<"-h">>, <<"-L", "-fset-feature-flag">>, <<"fn.c", "locked.c">>,
                       <<"fn.c", "hidden.c">>, <<"gone.c", "hidden.c">>,
                       <<"-fset-feature-flag", "1", "--output-file", "-fset-feature-flag">>}

(* What is made of the files by hand is what Lexing says of them.          *)
ASSUME FilesAsLexed ==
  /\ \A f \in DOMAIN Files : Contents[f] = Files[f].content
  /\ DumpContent = MCDump.content
=============================================================================
