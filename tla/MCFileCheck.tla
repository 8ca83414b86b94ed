---------------------------- MODULE MCFileCheck -----------------------------
(* Match files and command lines for the test tool.                        *)
EXTENDS FileCheck, TLC

Texts(A, n) == UNION {[1..m -> A] : m \in 0..n}

CheckA == <<"/", "/", " ", "CHECK:", " ", "a", "nl">>
NextB  == <<"/", "/", "CHECK-NEXT:", "b", "nl">>

(* Lines that hold a directive, none, two, one in the text of another, or  *)
(* text that a check may find before its own directive; the last line may  *)
(* lack its newline.                                                       *)
MatchLines == {CheckA, NextB,
               <<"/", "/", "CHECK-NEXT:", "a", " ", "nl">>,
               <<"/", "/", "/", "CHECK:", "b", "a", "nl", "nl">>,
               <<"/", "/", "CHECK:", " ", "nl">>,
               <<"b", "/", "/", "CHECK:", "/", "/", "CHECK-NEXT:", "b", "nl">>,
               <<"a", " ", "b", "nl">>}
Unended == {<<>>, <<"/", "/", "CHECK:", "b">>, <<"a">>}
MatchFiles == {l \o m \o n \o u : l \in MatchLines, m \in MatchLines,
                                  n \in MatchLines \cup {<<>>}, u \in Unended}
                \cup {c \o t : c \in {<<>>, CheckA},
                               t \in Texts({"/", " ", "CHECK:", "CHECK-NEXT:", "nl", "a"}, 5)}

Plain     == [command : {<<"m">>}, files : {("m" :> t) : t \in MatchFiles}]
Arguments == {"--input-file", "--input-filename", "--input-file=in", "--input-file=",
              "--input-file=gone", "--verbose", "--", "in", "other"}
Command   == {<<>>} \cup {<<f>> \o a : f \in {"m", "gone"},
                                     a \in UNION {[1..n -> Arguments] : n \in 0..3}}
Commanded == [command : Command, files : {("m" :> CheckA) @@ ("in" :> <<"b">>)}]

(* The test of a compiler whose output lacks the text of the check.        *)
FewRuns == [command : {<<"m", "--input-file", "in">>},
            files : {("m" :> CheckA) @@ ("in" :> <<"b">>)}]

MCRuns   == Plain \cup Commanded
MCInline == ("--input-file=in" :> "in") @@ ("--input-file=" :> "")
              @@ ("--input-file=gone" :> "gone")
=============================================================================
