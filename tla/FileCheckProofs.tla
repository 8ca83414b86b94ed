-------------------------- MODULE FileCheckProofs ---------------------------
(***************************************************************************)
(* What holds of FileCheck for all command lines and files.                *)
(***************************************************************************)
EXTENDS FileCheck, MinTheorems, SequenceTheorems

(* Past finds a position if it starts within the match file or at its end. *)
LEMMA PastHere ==
  ASSUME matchFile \in Seq(Chars), NEW i \in 1..(Len(matchFile) + 1),
         NEW chars \in SUBSET Chars
  PROVE  /\ Past(i, chars) \in i..(Len(matchFile) + 1)
         /\ Char(Past(i, chars)) \notin chars
         /\ \A k \in i..(Past(i, chars) - 1) : Char(k) \in chars
<1> DEFINE n == Len(matchFile)
           S == {j \in i..(n + 1) : Char(j) \notin chars}
<1>1. n \in Nat /\ DOMAIN matchFile = 1..n
  OBVIOUS
<1>2. Char(n + 1) \notin chars
  <2>1. Char(n + 1) = "end"
    BY <1>1 DEF Char
  <2>2. "end" \notin Chars
    BY DEF Chars, Words, Directives
  <2>3. QED
    BY <2>1, <2>2
<1>3. S \in SUBSET Nat /\ S # {}
  BY <1>1, <1>2
<1>4. PICK j \in S : \A k \in S : j <= k
  BY <1>3, MinIsLeast
<1>5. \A k \in i..(j - 1) : Char(k) \in chars
  BY <1>1, <1>4
<1>6. \E p \in i..(n + 1) : Char(p) \notin chars /\ \A k \in i..(p - 1) : Char(k) \in chars
  BY <1>4, <1>5
<1>7. QED
  BY <1>6 DEF Past

LEMMA MatchFits ==
  ASSUME matchFile \in Seq(Chars), NEW i \in Nat, Matches(i)
  PROVE  i + 1 <= Len(matchFile)
<1>1. Len(matchFile) \in Nat /\ DOMAIN matchFile = 1..Len(matchFile)
  BY LenProperties
<1>2. Char(i + 1) # "end"
  BY DEF Matches
<1>3. i + 1 \in DOMAIN matchFile
  BY <1>2 DEF Char
<1>4. QED
  BY <1>1, <1>3

(* Where the parts of a match stand.                                       *)
LEMMA MatchHere ==
  ASSUME TypeOK, NEW i \in 1..Len(matchFile), Matches(i)
  PROVE  /\ i < TextAt(i) /\ TextAt(i) < TextEnd(i) /\ TextEnd(i) < MatchEnd(i)
         /\ MatchEnd(i) <= Len(matchFile) + 1
         /\ TextAt(i) \in Nat /\ TextEnd(i) \in Nat /\ MatchEnd(i) \in Nat
         /\ Char(DirectiveAt(i)) \in Directives
<1> DEFINE n == Len(matchFile)
<1>1. matchFile \in Seq(Chars) /\ n \in Nat /\ DOMAIN matchFile = 1..n
  BY LenProperties DEF TypeOK
<1>2. /\ {" "} \subseteq Chars /\ {"nl"} \subseteq Chars /\ Words \cup {" "} \subseteq Chars
      /\ "nl" \notin Words \cup {" "} /\ " " \notin Words
      /\ "end" \notin Words /\ "end" \notin Directives
  BY DEF Chars, Words, Directives
<1>3. \A k \in Nat : k > n => Char(k) = "end"
  BY <1>1 DEF Char
<1>4. i + 1 <= n
  <2>1. Char(i + 1) = "/"
    BY DEF Matches
  <2>2. QED
    BY <1>1, <1>3, <2>1
<1>p. \A k \in 1..(n + 1), cs \in SUBSET Chars :
        Past(k, cs) \in k..(n + 1) /\ Char(Past(k, cs)) \notin cs
  BY <1>1, PastHere
<1>5. DirectiveAt(i) \in (i + 2)..(n + 1)
  <2>1. i + 2 \in 1..(n + 1)
    BY <1>1, <1>4
  <2>2. QED
    BY <2>1, <1>2, <1>p DEF DirectiveAt
<1>6. DirectiveAt(i) <= n /\ Char(DirectiveAt(i)) \in Directives
  <2>1. Char(DirectiveAt(i)) \in Directives
    BY DEF Matches
  <2>2. DirectiveAt(i) \in Nat /\ ~(DirectiveAt(i) > n)
    <3>1. DirectiveAt(i) \in Nat
      BY <1>1, <1>5
    <3>2. DirectiveAt(i) > n => Char(DirectiveAt(i)) = "end"
      BY <1>3, <3>1
    <3>3. QED
      BY <1>2, <2>1, <3>1, <3>2
  <2>3. QED
    BY <1>1, <2>1, <2>2
<1>7. TextAt(i) \in (DirectiveAt(i) + 1)..(n + 1)
  <2>1. DirectiveAt(i) + 1 \in 1..(n + 1)
    BY <1>1, <1>5, <1>6
  <2>2. QED
    BY <2>1, <1>2, <1>p DEF TextAt
<1>8. TextEnd(i) \in TextAt(i)..(n + 1)
  <2>1. TextAt(i) \in 1..(n + 1)
    BY <1>1, <1>5, <1>7
  <2>2. QED
    BY <2>1, <1>2, <1>p DEF TextEnd
<1>9. TextEnd(i) # TextAt(i)
  <2>1. Char(TextAt(i)) \in Words /\ Char(TextEnd(i)) = "nl"
    BY DEF Matches
  <2>2. QED
    BY <1>2, <2>1
<1>10. TextEnd(i) \in 1..(n + 1)
  BY <1>1, <1>5, <1>7, <1>8
<1>11. MatchEnd(i) \in TextEnd(i)..(n + 1) /\ Char(MatchEnd(i)) \notin {"nl"}
  BY <1>2, <1>10, <1>p DEF MatchEnd
<1>12. MatchEnd(i) # TextEnd(i)
  BY <1>11 DEF Matches
<1>13. QED
  BY <1>1, <1>5, <1>6, <1>7, <1>8, <1>9, <1>10, <1>11, <1>12

(* The text of a check stands in the match file m.                         *)
PlacedIn(c, m) == /\ c.at >= 1 /\ c.at + Len(c.text) <= Len(m) + 1
                  /\ SubSeq(m, c.at, c.at + Len(c.text) - 1) = c.text
Placed(c) == PlacedIn(c, matchFile)

LEMMA CheckHere ==
  ASSUME TypeOK, NEW i \in 1..Len(matchFile), Matches(i)
  PROVE  /\ Check(i) \in Checks /\ Placed(Check(i))
         /\ Check(i).at = TextAt(i) /\ Check(i).at + Len(Check(i).text) = TextEnd(i)
         /\ MatchEnd(i) \in 1..(Len(matchFile) + 1)
<1> DEFINE n == Len(matchFile)
           a == TextAt(i)
           e == TextEnd(i)
           t == SubSeq(matchFile, a, e - 1)
<1>1. /\ a \in Nat /\ e \in Nat /\ MatchEnd(i) \in Nat /\ Char(DirectiveAt(i)) \in Directives
      /\ i < a /\ a < e /\ e < MatchEnd(i) /\ MatchEnd(i) <= n + 1
  BY MatchHere
<1>2. matchFile \in Seq(Chars) /\ n \in Nat
  BY LenProperties DEF TypeOK
<1>3. t \in Seq(Chars) /\ Len(t) = e - a
  <2>1. \A k \in a..(e - 1) : matchFile[k] \in Chars
    BY <1>1, <1>2, ElementOfSeq
  <2>2. a \in Int /\ e - 1 \in Int /\ a <= e - 1
    BY <1>1
  <2> HIDE DEF a, e
  <2>3. QED
    BY <1>1, <2>1, <2>2, SubSeqProperties
<1>4. Check(i) = [style |-> Char(DirectiveAt(i)), at |-> a, text |-> t]
  BY DEF Check
<1> HIDE DEF a, e, t
<1>5. Check(i) \in Checks
  BY <1>1, <1>3, <1>4 DEF Checks
<1>6. /\ Check(i).at = a /\ Check(i).text = t /\ a + Len(t) = e
  BY <1>1, <1>3, <1>4
<1>7. SubSeq(matchFile, a, a + Len(t) - 1) = t
  <2>1. a + Len(t) - 1 = e - 1
    BY <1>1, <1>6
  <2>2. QED
    BY <2>1 DEF t
<1>8. QED
  BY <1>1, <1>2, <1>5, <1>6, <1>7 DEF a, e, Placed, PlacedIn

-----------------------------------------------------------------------------
(* Where the search for the directives stands.                             *)

BeforeScan == {"args", "match_file", "input_file"}

ScanState ==
  /\ pc \in BeforeScan => at = 1 /\ chains = <<>>
  /\ pc \in BeforeScan \cup {"scan"} => chain = 1 /\ check = 1 /\ rest = 1
  /\ chain >= 1 /\ check >= 1 /\ arg >= 2

LEMMA TypeStep ==
  ASSUME TypeOK, ScanState, [Next]_vars
  PROVE  TypeOK' /\ ScanState'
<1> USE DEF Goto, Exit, BeforeScan
<1>1. CASE UNCHANGED vars
  BY <1>1 DEF vars, given, inputs, found, search, TypeOK, ScanState
<1>2. CASE NoArguments
  BY <1>2 DEF NoArguments, given, inputs, found, search, TypeOK, ScanState
<1>3. CASE InlineInput
  <2>1. inputName' \in STRING
    BY <1>3, FileCheckAssumption DEF InlineInput
  <2>2. QED
    BY <1>3, <2>1 DEF InlineInput, given, found, search, TypeOK, ScanState, Reading
<1>4. CASE InputOption
  <2>1. arg < Len(command) => command[arg + 1] \in STRING
    BY <1>4 DEF InputOption, TypeOK
  <2>2. QED
    BY <1>4, <2>1, SMTT(30) DEF InputOption, given, found, search, TypeOK, ScanState, Reading
<1>5. CASE Verbose \/ OptionsEnd
  BY <1>5, SMTT(30)
     DEF Verbose, OptionsEnd, given, inputs, found, search, TypeOK, ScanState, Reading
<1>6. CASE ReadMatchFile
  <2>1. matchFile' \in Seq(Chars)
    BY <1>6 DEF ReadMatchFile, TypeOK
  <2>2. at' = 1 /\ rest' = 1 /\ Len(matchFile') \in Nat
    BY <1>6, <2>1 DEF ReadMatchFile, found, search, ScanState
  <2>3. QED
    BY <1>6, <2>1, <2>2 DEF ReadMatchFile, given, inputs, found, search, TypeOK, ScanState
<1>7. CASE ReadInput
  <2>1. input' \in Seq(STRING) /\ appended' \in Seq(Chars)
    <3>1. command \in Seq(STRING) /\ arg \in Nat
      BY DEF TypeOK
    <3>2. SubSeq(command, arg, Len(command)) \in Seq(STRING)
      <4>1. \A i \in arg..Len(command) : command[i] \in STRING
        BY <3>1 DEF ScanState
      <4>2. QED
        BY <3>1, <4>1, SubSeqProperties
    <3>3. QED
      <4>1. input' = input \/ input' = SubSeq(command, arg, Len(command))
        BY <1>7 DEF ReadInput
      <4>2. appended' = appended \/ (inputName \in DOMAIN files /\ appended' = files[inputName])
        BY <1>7 DEF ReadInput
      <4>3. QED
        <5>1. input \in Seq(STRING) /\ appended \in Seq(Chars)
              /\ \A f \in DOMAIN files : files[f] \in Seq(Chars)
          BY DEF TypeOK
        <5>2. QED
          BY <3>2, <4>1, <4>2, <5>1
  <2>2. QED
    BY <1>7, <2>1, ZenonT(60) DEF ReadInput, given, found, search, TypeOK, ScanState
<1>8. CASE FindDirective
  <2>1. PICK i \in MatchesFrom(at) :
          \/ Unchained(Check(i)) /\ Exit(61) /\ UNCHANGED found
          \/ ~Unchained(Check(i)) /\ Chained(Check(i)) /\ Behind(i) /\ UNCHANGED <<pc, code>>
    BY <1>8 DEF FindDirective
  <2>2. i \in 1..Len(matchFile) /\ Matches(i)
    BY <2>1 DEF MatchesFrom, TypeOK
  <2>3. Check(i) \in Checks /\ MatchEnd(i) \in 1..(Len(matchFile) + 1)
    BY <2>2, CheckHere
  <2>4. chains' \in Seq(Seq(Checks))
    <3>1. chains \in Seq(Seq(Checks))
      BY DEF TypeOK
    <3>2. CASE UNCHANGED found
      BY <3>1, <3>2 DEF found
    <3>3. CASE ~Unchained(Check(i)) /\ Check(i).style = "CHECK:"
                 /\ chains' = Append(chains, <<Check(i)>>)
      BY <2>3, <3>1, <3>3
    <3>4. CASE ~Unchained(Check(i)) /\ Check(i).style = "CHECK-NEXT:"
                 /\ chains' = [chains EXCEPT ![Len(chains)] = Append(@, Check(i))]
      <4>1. chains # <<>>
        BY <3>4 DEF Unchained
      <4>2. Len(chains) \in 1..Len(chains) /\ chains[Len(chains)] \in Seq(Checks)
        BY <3>1, <4>1
      <4>3. Append(chains[Len(chains)], Check(i)) \in Seq(Checks)
        BY <2>3, <4>2
      <4>4. QED
        BY <3>1, <3>4, <4>2, <4>3, ExceptSeq
    <3>5. QED
      BY <2>1, <3>2, <3>3, <3>4 DEF Chained
  <2>5. at' \in 1..(Len(matchFile) + 1) /\ pc' \in {"scan", "exited"} /\ code' \in {code, 61}
    BY <1>8, <2>1, <2>3 DEF Behind, found, TypeOK, FindDirective
  <2>6. UNCHANGED <<given, arg, inputs, matchFile, search>>
    BY <1>8 DEF FindDirective
  <2>7. QED
    BY <1>8, <2>4, <2>5, <2>6 DEF given, inputs, search, TypeOK, ScanState, FindDirective
<1>9. CASE NoMoreDirectives
  BY <1>9 DEF NoMoreDirectives, given, inputs, found, search, TypeOK, ScanState
<1>10. CASE RunCheck
  <2>1. rest' \in 1..(Len(matchFile) + 1) /\ check' \in Nat /\ check' >= 1
    <3>1. CASE Occurrences(Current.text, rest) = {}
      BY <1>10, <3>1 DEF RunCheck, TypeOK, ScanState
    <3>2. CASE Occurrences(Current.text, rest) # {}
      <4> DEFINE S == Occurrences(Current.text, rest)
      <4>1. Current \in Checks /\ Current.text \in Seq(Chars)
        <5>1. chain \in 1..Len(chains) /\ chains \in Seq(Seq(Checks))
          BY <1>10 DEF RunCheck, TypeOK, ScanState
        <5>2. chains[chain] \in Seq(Checks) /\ check \in 1..Len(chains[chain])
          BY <1>10, <5>1 DEF RunCheck, TypeOK, ScanState
        <5>3. Current \in Checks
          BY <5>2, ElementOfSeq DEF Current
        <5>4. QED
          BY <5>3 DEF Checks
      <4>2. S \in SUBSET Nat /\ \A p \in S : rest <= p /\ p + Len(Current.text) <= Len(matchFile) + 1
        <5>1. rest \in Nat /\ rest >= 1 /\ Len(matchFile) \in Nat
          BY DEF TypeOK
        <5>2. Len(Current.text) \in Nat
          BY <4>1
        <5>3. S \subseteq rest..(Len(matchFile) + 1 - Len(Current.text))
          BY DEF Occurrences
        <5> HIDE DEF S
        <5>4. QED
          BY <5>1, <5>2, <5>3
      <4>3. Min(S) \in S /\ Min(S) \in Nat
        BY <3>2, <4>2, MinIsLeast
      <4>4. rest' = Min(S) + Len(Current.text) /\ check' = check + 1 /\ Len(Current.text) \in Nat
        BY <1>10, <3>2, <4>1 DEF RunCheck, RestBehind
      <4>5. rest \in Nat /\ rest >= 1 /\ check \in Nat /\ Len(matchFile) \in Nat
        BY DEF TypeOK
      <4>6. rest <= Min(S) /\ Min(S) + Len(Current.text) <= Len(matchFile) + 1
        BY <4>2, <4>3
      <4> HIDE DEF S
      <4>7. QED
        BY <4>3, <4>4, <4>5, <4>6
    <3>3. QED BY <3>1, <3>2
  <2>2. UNCHANGED <<given, arg, inputs, matchFile, found, chain>>
        /\ pc = "checks" /\ pc' \in {"checks", "exited"} /\ code' \in {code, 1}
    BY <1>10 DEF RunCheck
  <2>3. QED
    BY <2>1, <2>2 DEF given, inputs, found, TypeOK, ScanState
<1>11. CASE NextChain
  <2>1. rest' \in 1..(Len(matchFile) + 1) /\ chain' \in Nat /\ chain' >= 1 /\ check' = 1
    BY <1>11 DEF NextChain, FollowingChain, TypeOK, ScanState
  <2>2. QED
    BY <1>11, <2>1 DEF NextChain, given, inputs, found, TypeOK, ScanState
<1>12. CASE Return
  BY <1>12 DEF Return, given, inputs, found, search, TypeOK, ScanState
<1>13. QED
  BY <1>1, <1>2, <1>3, <1>4, <1>5, <1>6, <1>7, <1>8, <1>9, <1>10, <1>11, <1>12 DEF Next

LEMMA TypeInit == Init => TypeOK /\ ScanState
<1> SUFFICES ASSUME Init PROVE TypeOK /\ ScanState
  OBVIOUS
<1>1. command \in Seq(STRING) /\ \A f \in DOMAIN files : files[f] \in Seq(Chars)
  BY FileCheckAssumption DEF Init
<1>2. <<>> \in Seq(Chars) /\ <<>> \in Seq(STRING) /\ <<>> \in Seq(Seq(Checks))
  OBVIOUS
<1>3. "" \in STRING
  BY FileCheckAssumption
<1>4. at \in 1..(Len(matchFile) + 1) /\ rest \in 1..(Len(matchFile) + 1)
  <2>1. matchFile = <<>> /\ at = 1 /\ rest = 1
    BY DEF Init
  <2>2. QED
    BY <2>1
<1>5. ScanState
  <2>1. /\ pc = "args" /\ at = 1 /\ chains = <<>> /\ chain = 1 /\ check = 1
        /\ rest = 1 /\ arg = 2
    BY DEF Init
  <2>2. QED
    BY <2>1 DEF ScanState
<1>6. /\ pc = "args" /\ arg \in Nat /\ inputName = "" /\ appended = <<>> /\ input = <<>>
      /\ matchFile = <<>> /\ chains = <<>> /\ chain \in Nat /\ check \in Nat /\ code = 0
  BY DEF Init
<1>7. QED
  BY <1>1, <1>2, <1>3, <1>4, <1>5, <1>6 DEF TypeOK

(* The state of the tool has its types.                                    *)
THEOREM TypeCorrect == Spec => []TypeOK
<1>1. TypeOK /\ ScanState /\ [Next]_vars => (TypeOK /\ ScanState)'
  BY TypeStep
<1>2. QED
  BY <1>1, TypeInit, PTL DEF Spec

-----------------------------------------------------------------------------
(* The chains: each text stands where it was found, the texts of a chain   *)
(* one behind the other, so that a search which has not come further than  *)
(* the text of the next check cannot miss it.                              *)

EndOf(c) == c.at + Len(c.text)
OrderedIn(ch, b, m) == /\ \A k \in DOMAIN ch : PlacedIn(ch[k], m) /\ EndOf(ch[k]) <= b
                       /\ \A k \in DOMAIN ch : k > 1 => EndOf(ch[k - 1]) <= ch[k].at
AllOrdered == \A n \in DOMAIN chains : OrderedIn(chains[n], at, matchFile)

ChainState ==
  /\ code # 1
  /\ AllOrdered
  /\ pc = "checks" /\ chain <= Len(chains) /\ check <= Len(chains[chain])
       => rest <= Current.at

LEMMA OrderedKept == ASSUME AllOrdered, matchFile' = matchFile, UNCHANGED found
                     PROVE  AllOrdered'
BY DEF AllOrdered, found

LEMMA Ends == \A d \in Checks : EndOf(d) \in Nat /\ d.at \in Nat
BY LenProperties DEF Checks, EndOf

(* The search has gone on: and it has found one more check of the chain.   *)
LEMMA OrderedFurther ==
  ASSUME NEW m, NEW a \in Nat, NEW b \in Nat, a <= b, NEW ch \in Seq(Checks),
         OrderedIn(ch, a, m)
  PROVE  OrderedIn(ch, b, m)
<1>1. \A k \in DOMAIN ch : EndOf(ch[k]) \in Nat
  BY Ends, ElementOfSeq, LenProperties
<1>2. QED
  BY <1>1 DEF OrderedIn

LEMMA OrderedAppended ==
  ASSUME NEW m, NEW a \in Nat, NEW b \in Nat, a <= b, NEW ch \in Seq(Checks),
         OrderedIn(ch, a, m), NEW c \in Checks, PlacedIn(c, m), a <= c.at, EndOf(c) <= b
  PROVE  OrderedIn(Append(ch, c), b, m)
<1> DEFINE e == Append(ch, c)
           n == Len(ch)
<1>1. /\ n \in Nat /\ DOMAIN ch = 1..n /\ DOMAIN e = 1..(n + 1)
      /\ e[n + 1] = c /\ \A k \in 1..n : e[k] = ch[k]
  BY AppendProperties, LenProperties
<1>2. \A k \in 1..n : ch[k] \in Checks /\ EndOf(ch[k]) <= a /\ PlacedIn(ch[k], m)
  BY <1>1, ElementOfSeq DEF OrderedIn
<1> HIDE DEF e, n
<1>4. ASSUME NEW k \in 1..(n + 1)
      PROVE  PlacedIn(e[k], m) /\ EndOf(e[k]) <= b
  <2>1. CASE k = n + 1
    BY <1>1, <2>1
  <2>2. CASE k # n + 1
    <3>1. k \in 1..n
      BY <1>1, <2>2
    <3>2. PlacedIn(ch[k], m) /\ EndOf(ch[k]) <= a /\ EndOf(ch[k]) \in Nat
      BY <1>2, Ends, <3>1
    <3>3. e[k] = ch[k]
      BY <1>1, <3>1
    <3>4. QED
      BY <3>2, <3>3
  <2>3. QED BY <2>1, <2>2
<1>5. ASSUME NEW k \in 1..(n + 1), k > 1
      PROVE  EndOf(e[k - 1]) <= e[k].at
  <2>1. k - 1 \in 1..n
    BY <1>1, <1>5
  <2>2. CASE k = n + 1
    <3>1. e[k] = c /\ e[k - 1] = ch[k - 1]
      BY <1>1, <2>1, <2>2
    <3>2. EndOf(ch[k - 1]) <= a /\ EndOf(ch[k - 1]) \in Nat /\ c.at \in Nat
      BY <1>2, Ends, <2>1
    <3>3. QED
      BY <3>1, <3>2
  <2>3. CASE k # n + 1
    <3>1. k \in 1..n
      BY <1>1, <2>3
    <3>2. e[k] = ch[k] /\ e[k - 1] = ch[k - 1]
      BY <1>1, <2>1, <3>1
    <3>3. QED
      BY <1>1, <1>5, <3>1, <3>2 DEF OrderedIn
  <2>4. QED BY <2>2, <2>3
<1>6. OrderedIn(e, b, m)
  BY <1>1, <1>4, <1>5 DEF OrderedIn
<1>7. QED
  BY <1>6 DEF e

LEMMA CurrentHere ==
  ASSUME TypeOK, ScanState, ChainState, chain <= Len(chains), check <= Len(chains[chain])
  PROVE  /\ chain \in DOMAIN chains /\ chains[chain] \in Seq(Checks)
         /\ check \in DOMAIN chains[chain] /\ Current \in Checks /\ Placed(Current)
         /\ Current.at \in Nat /\ Current.text \in Seq(Chars) /\ Len(Current.text) \in Nat
<1>1. chain \in DOMAIN chains /\ chains[chain] \in Seq(Checks)
  BY DEF TypeOK, ScanState
<1>2. check \in DOMAIN chains[chain]
  BY <1>1 DEF TypeOK, ScanState
<1>3. Current \in Checks
  BY <1>1, <1>2 DEF Current
<1>4. Placed(Current)
  BY <1>1, <1>2 DEF ChainState, AllOrdered, OrderedIn, Current, Placed
<1>5. QED
  BY <1>1, <1>2, <1>3, <1>4, LenProperties DEF Checks

LEMMA ChainStep ==
  ASSUME TypeOK, ScanState, ChainState, [Next]_vars
  PROVE  ChainState'
<1> USE DEF Goto, Exit
<1>1. CASE RunCheck
  <2> DEFINE S == Occurrences(Current.text, rest)
             c == Current
  <2>1. /\ pc = "checks" /\ chain <= Len(chains) /\ check <= Len(chains[chain])
        /\ UNCHANGED <<matchFile, found, chain>>
    BY <1>1 DEF RunCheck
  <2>2. /\ rest <= c.at /\ Placed(c) /\ c.at \in Nat /\ Len(c.text) \in Nat
        /\ rest \in Nat /\ rest >= 1 /\ Len(matchFile) \in Nat
        /\ check \in Nat
    BY <2>1, CurrentHere DEF ChainState, TypeOK
  <2>3. c.at \in S /\ S \in SUBSET Nat
    <3>1. c.at \in rest..(Len(matchFile) + 1 - Len(c.text))
      <4>1. c.at + Len(c.text) <= Len(matchFile) + 1
        BY <2>2 DEF Placed, PlacedIn
      <4>2. \A p, l, r, m \in Nat : r <= p /\ p + l <= m + 1 => p \in r..(m + 1 - l)
        OBVIOUS
      <4>3. /\ c.at \in Nat /\ Len(c.text) \in Nat /\ rest \in Nat /\ Len(matchFile) \in Nat
            /\ rest <= c.at
        BY <2>2
      <4> HIDE DEF c
      <4>4. QED
        BY <4>1, <4>2, <4>3
    <3>2. S \subseteq rest..(Len(matchFile) + 1 - Len(c.text))
      BY DEF Occurrences
    <3>3. c.at \in S
      BY <2>2, <3>1 DEF Occurrences, Placed, PlacedIn
    <3> HIDE DEF S, c
    <3>4. QED
      BY <2>2, <3>2, <3>3
  <2>4. Min(S) \in Nat /\ Min(S) <= c.at
    <3> HIDE DEF S, c
    <3>1. QED
      BY <2>3, MinIsLeast
  <2>5. rest' = Min(S) + Len(c.text) /\ check' = check + 1 /\ UNCHANGED <<pc, code>>
    BY <1>1, <2>3 DEF RunCheck, RestBehind
  <2>6. AllOrdered'
    BY <2>1, OrderedKept DEF ChainState
  <2>7. ASSUME check + 1 <= Len(chains[chain])
        PROVE  rest' <= chains[chain][check + 1].at
    <3>1. check + 1 \in DOMAIN chains[chain] /\ check + 1 > 1 /\ check + 1 - 1 = check
      BY <2>1, <2>2, <2>7, CurrentHere DEF ScanState
    <3>2. EndOf(c) <= chains[chain][check + 1].at
      BY <2>1, <3>1, CurrentHere DEF ChainState, AllOrdered, OrderedIn, Current
    <3>3. chains[chain][check + 1] \in Checks
      BY <2>1, <3>1, CurrentHere
    <3>4. chains[chain][check + 1].at \in Nat
      BY <3>3 DEF Checks
    <3> HIDE DEF S, c
    <3>5. QED
      BY <2>2, <2>4, <2>5, <3>2, <3>4, SMTT(30) DEF EndOf
  <2>8. QED
    BY <2>1, <2>5, <2>6, <2>7 DEF ChainState, Current, found
<1>2. CASE FindDirective
  <2>1. PICK i \in MatchesFrom(at) :
          \/ Unchained(Check(i)) /\ Exit(61) /\ UNCHANGED found
          \/ ~Unchained(Check(i)) /\ Chained(Check(i)) /\ Behind(i) /\ UNCHANGED <<pc, code>>
    BY <1>2 DEF FindDirective
  <2>2. pc = "scan" /\ matchFile' = matchFile
    BY <1>2 DEF FindDirective
  <2>3. CASE Unchained(Check(i)) /\ Exit(61) /\ UNCHANGED found
    <3>1. AllOrdered'
      BY <2>2, <2>3, OrderedKept DEF ChainState
    <3>2. QED
      BY <2>3, <3>1 DEF ChainState
  <2>4. CASE ~Unchained(Check(i)) /\ Chained(Check(i)) /\ Behind(i) /\ UNCHANGED <<pc, code>>
    <3> DEFINE c == Check(i)
    <3>1. i \in 1..Len(matchFile) /\ Matches(i) /\ at \in Nat /\ at <= i /\ i \in Nat
      BY <2>1 DEF MatchesFrom, TypeOK
    <3>2. /\ c \in Checks /\ Placed(c) /\ c.at = TextAt(i) /\ EndOf(c) = TextEnd(i)
          /\ i < TextAt(i) /\ TextEnd(i) < MatchEnd(i) /\ TextAt(i) < TextEnd(i)
          /\ TextAt(i) \in Nat /\ TextEnd(i) \in Nat /\ MatchEnd(i) \in Nat
      BY <3>1, CheckHere, MatchHere DEF EndOf
    <3>3. at' = MatchEnd(i)
      BY <2>4 DEF Behind
    <3>4. at' \in Nat /\ at <= c.at /\ EndOf(c) <= at' /\ at <= at'
      BY <3>1, <3>2, <3>3
    <3> HIDE DEF c
    <3>5. ASSUME NEW ch \in Seq(Checks), OrderedIn(ch, at, matchFile)
          PROVE  /\ OrderedIn(ch, at', matchFile')
                 /\ OrderedIn(Append(ch, c), at', matchFile')
      BY <2>2, <3>1, <3>2, <3>4, <3>5, OrderedFurther, OrderedAppended DEF Placed
    <3>6. chains \in Seq(Seq(Checks)) /\ \A n \in DOMAIN chains : OrderedIn(chains[n], at, matchFile)
      BY DEF TypeOK, ChainState, AllOrdered
    <3>7. AllOrdered'
      <4>1. CASE chains' = Append(chains, <<c>>)
        <5>1. \A n \in DOMAIN chains' : \/ n \in DOMAIN chains /\ chains'[n] = chains[n]
                                        \/ chains'[n] = Append(<<>>, c)
          <6>1. <<c>> \in Seq(Checks) /\ <<c>> = Append(<<>>, c)
            BY <3>2 DEF c
          <6>2. QED
            BY <3>6, <4>1, <6>1, AppendProperties, LenProperties
        <5>2. <<>> \in Seq(Checks) /\ OrderedIn(<<>>, at, matchFile)
          BY DEF OrderedIn
        <5>3. QED
          BY <3>5, <3>6, <5>1, <5>2, ElementOfSeq, LenProperties DEF AllOrdered
      <4>2. CASE chains' = [chains EXCEPT ![Len(chains)] = Append(@, c)]
        <5>1. \A n \in DOMAIN chains' : /\ n \in DOMAIN chains
                                        /\ chains'[n] \in {chains[n], Append(chains[n], c)}
          BY <3>6, <4>2
        <5>2. QED
          BY <3>5, <3>6, <5>1, ElementOfSeq, LenProperties DEF AllOrdered
      <4>3. QED
        BY <2>4, <4>1, <4>2 DEF Chained, c
    <3>8. QED
      BY <2>2, <2>4, <3>7 DEF ChainState
  <2>5. QED
    BY <2>1, <2>3, <2>4
<1>3. CASE NextChain
  <2>1. UNCHANGED <<matchFile, found, code>> /\ rest' = 1 /\ check' = 1
    BY <1>3 DEF NextChain
  <2>2. AllOrdered'
    BY <2>1, OrderedKept DEF ChainState
  <2>3. (chain <= Len(chains) /\ check <= Len(chains[chain]) => rest <= Current.at)'
    <3>1. SUFFICES ASSUME chain' <= Len(chains'), check' <= Len(chains'[chain'])
                   PROVE  rest' <= Current'.at
      OBVIOUS
    <3>2. chain' = chain + 1 /\ chains \in Seq(Seq(Checks)) /\ chain \in Nat /\ chains' = chains
      BY <1>3, <2>1 DEF NextChain, FollowingChain, TypeOK, found
    <3>3. chain + 1 \in DOMAIN chains /\ chains[chain + 1] \in Seq(Checks)
      BY <3>1, <3>2, ElementOfSeq, LenProperties
    <3>4. 1 \in DOMAIN chains[chain + 1]
      BY <2>1, <3>1, <3>2, <3>3
    <3>5. chains[chain + 1][1] \in Checks /\ Placed(chains[chain + 1][1])
      BY <3>3, <3>4, ElementOfSeq, LenProperties DEF ChainState, AllOrdered, OrderedIn, Placed
    <3>6. QED
      BY <2>1, <3>2, <3>5 DEF Placed, PlacedIn, Current
  <2>4. QED
    BY <2>1, <2>2, <2>3 DEF ChainState
<1>4. CASE NoMoreDirectives
  <2>1. UNCHANGED <<matchFile, found, search, code>> /\ chain = 1 /\ check = 1 /\ rest = 1
    BY <1>4 DEF NoMoreDirectives, ScanState
  <2>2. AllOrdered'
    BY <2>1, OrderedKept DEF ChainState
  <2>3. chain <= Len(chains) /\ check <= Len(chains[chain]) => rest <= Current.at
    BY <2>1, CurrentHere DEF Placed, PlacedIn
  <2>4. QED
    BY <2>1, <2>2, <2>3 DEF ChainState, Current, found, search
<1>5. CASE \/ NoArguments \/ InlineInput \/ InputOption \/ Verbose \/ OptionsEnd
           \/ ReadMatchFile \/ ReadInput
  <2>1. pc \in BeforeScan /\ UNCHANGED found /\ code' \in {code, 127, 125, 63, 62} /\ pc' # "checks"
    BY <1>5 DEF NoArguments, InlineInput, InputOption, Verbose, OptionsEnd,
       ReadMatchFile, ReadInput, Reading, BeforeScan
  <2>2. chains' = <<>>
    BY <2>1 DEF ScanState, found
  <2>3. QED
    BY <2>1, <2>2 DEF ChainState, AllOrdered
<1>6. CASE Return \/ UNCHANGED vars
  <2>1. /\ UNCHANGED <<matchFile, found, search>>
        /\ (UNCHANGED <<pc, code>>) \/ (pc' = "exited" /\ code' = 0)
    BY <1>6 DEF Return, vars
  <2>2. AllOrdered'
    BY <2>1, OrderedKept DEF ChainState
  <2>3. QED
    BY <2>1, <2>2 DEF ChainState, Current, found, search
<1>7. QED
  BY <1>1, <1>2, <1>3, <1>4, <1>5, <1>6 DEF Next

(* The defect of main.cpp:194 is one on every command line: each check     *)
(* finds at the latest the directive it was made from, so that none fails, *)
(* whatever the input file holds.                                          *)
THEOREM ChecksFindThemselves == Spec => [](code # 1)
<1>1. Init => ChainState
  <2>1. Init => chains = <<>> /\ code = 0 /\ pc = "args"
    BY DEF Init
  <2>2. QED
    BY <2>1 DEF ChainState, AllOrdered
<1>2. TypeOK /\ ScanState /\ [Next]_vars => (TypeOK /\ ScanState)'
  BY TypeStep
<1>3. TypeOK /\ ScanState /\ ChainState /\ [Next]_vars => ChainState'
  BY ChainStep
<1>4. ChainState => code # 1
  BY DEF ChainState
<1>5. QED
  BY <1>1, <1>2, <1>3, <1>4, TypeInit, PTL DEF Spec

-----------------------------------------------------------------------------
(* The search of a chain: no choice of places ends earlier than the one    *)
(* that takes the first place each time.                                   *)

SearchState ==
  /\ EarliestPlaces
  /\ pc = "checks" /\ chain <= Len(chains) => check <= Len(chains[chain]) + 1

LEMMA PlacementsKept ==
  ASSUME UNCHANGED <<matchFile, chains, chain>>
  PROVE  /\ \A n : Placements(n)' = Placements(n)
         /\ \A p, n : EndAt(p, n)' = EndAt(p, n)
<1>1. \A p, n : EndAt(p, n)' = EndAt(p, n)
  BY DEF EndAt
<1>2. \A text, from : Occurrences(text, from)' = Occurrences(text, from)
  BY DEF Occurrences
<1>3. \A p, n : InOrder(p, n)' = InOrder(p, n)
  BY <1>1, <1>2 DEF InOrder
<1> QED BY <1>1, <1>3 DEF Placements

(* Before the first check of a chain nothing is placed.                    *)
LEMMA NothingPlaced ==
  /\ (Placements(0) # {})'
  /\ \A p : EndAt(p, 0)' = 1
<1>1. \A p : InOrder(p, 0)'
  BY DEF InOrder
<1>2. [k \in 1..0 |-> 1] \in [1..0 -> 1..(Len(matchFile') + 1)]
  OBVIOUS
<1> QED BY <1>1, <1>2 DEF Placements, EndAt

LEMMA EndNat ==
  ASSUME TypeOK, chain \in DOMAIN chains,
         NEW n \in Nat, n = 0 \/ n \in DOMAIN chains[chain],
         NEW p, n = 0 \/ p[n] \in 1..(Len(matchFile) + 1)
  PROVE  EndAt(p, n) \in Nat /\ EndAt(p, n) >= 1
<1>1. CASE n = 0
  BY <1>1 DEF EndAt
<1>2. CASE n # 0
  <2>1. chains[chain] \in Seq(Checks) /\ Len(matchFile) \in Nat
    BY LenProperties DEF TypeOK
  <2>2. chains[chain][n] \in Checks
    BY <1>2, <2>1
  <2>3. Len(chains[chain][n].text) \in Nat /\ p[n] \in Nat /\ p[n] >= 1
    BY <1>2, <2>1, <2>2, LenProperties DEF Checks
  <2> QED BY <1>2, <2>3 DEF EndAt
<1> QED BY <1>1, <1>2

(* The places of n + 1 texts are places of n texts and one behind them.    *)
LEMMA PlaceOneMore ==
  ASSUME TypeOK, chain \in DOMAIN chains,
         NEW n \in Nat, n + 1 \in DOMAIN chains[chain]
  PROVE  LET text == chains[chain][n + 1].text
         IN /\ \A p \in Placements(n) : \A i \in Occurrences(text, EndAt(p, n)) :
                 \E q \in Placements(n + 1) : EndAt(q, n + 1) = i + Len(text)
            /\ \A q \in Placements(n + 1) :
                 /\ q[n + 1] \in Occurrences(text, EndAt(q, n))
                 /\ EndAt(q, n + 1) = q[n + 1] + Len(text)
                 /\ \E p \in Placements(n) : EndAt(p, n) = EndAt(q, n)
<1> DEFINE text == chains[chain][n + 1].text
           P    == 1..(Len(matchFile) + 1)
<1>1. Len(text) \in Nat /\ Len(matchFile) \in Nat
  <2>1. chains[chain] \in Seq(Checks)
    BY DEF TypeOK
  <2>2. chains[chain][n + 1] \in Checks
    BY <2>1
  <2> QED BY <2>2, LenProperties DEF Checks, TypeOK
<1>2. /\ n + 1 # 0 /\ n + 1 \in 1..(n + 1) /\ (n + 1) - 1 = n
      /\ \A k \in 1..(n + 1) : k \in 1..n \/ k = n + 1
      /\ \A k \in 1..n : k \in 1..(n + 1) /\ k # n + 1
      /\ \A k \in 1..n : k - 1 = 0 \/ k - 1 \in 1..n
      /\ n = 0 \/ n \in 1..n
  OBVIOUS
<1>3. ASSUME NEW p, NEW q, \A k \in 1..n : q[k] = p[k]
      PROVE  /\ EndAt(q, n) = EndAt(p, n)
             /\ \A k \in 1..n : EndAt(q, k - 1) = EndAt(p, k - 1)
  BY <1>2, <1>3 DEF EndAt
<1>4. ASSUME NEW p \in Placements(n), NEW i \in Occurrences(text, EndAt(p, n))
      PROVE  \E q \in Placements(n + 1) : EndAt(q, n + 1) = i + Len(text)
  <2> DEFINE q == [k \in 1..(n + 1) |-> IF k = n + 1 THEN i ELSE p[k]]
  <2>1. /\ p \in [1..n -> P]
        /\ \A k \in 1..n : p[k] \in Occurrences(chains[chain][k].text, EndAt(p, k - 1))
    BY <1>4 DEF Placements, InOrder
  <2>2. i \in P
    <3>1. chains[chain] \in Seq(Checks) /\ (n = 0 \/ n \in DOMAIN chains[chain])
      BY <1>2, LenProperties DEF TypeOK
    <3>2. n = 0 \/ p[n] \in 1..(Len(matchFile) + 1)
      BY <1>2, <2>1
    <3>3. EndAt(p, n) \in Nat /\ EndAt(p, n) >= 1
      BY <3>1, <3>2, EndNat
    <3> QED BY <1>1, <1>4, <3>3 DEF Occurrences
  <2>3. q \in [1..(n + 1) -> P] /\ q[n + 1] = i /\ \A k \in 1..n : q[k] = p[k]
    BY <1>2, <2>1, <2>2
  <2> HIDE DEF q, P
  <2>4. InOrder(q, n + 1)
    <3>1. /\ EndAt(q, n) = EndAt(p, n)
          /\ \A k \in 1..n : EndAt(q, k - 1) = EndAt(p, k - 1)
      BY <1>3, <2>3
    <3>2. ASSUME NEW k \in 1..(n + 1)
          PROVE  q[k] \in Occurrences(chains[chain][k].text, EndAt(q, k - 1))
      <4>1. CASE k \in 1..n
        BY <2>1, <2>3, <3>1, <4>1
      <4>2. CASE k = n + 1
        BY <1>2, <1>4, <2>3, <3>1, <4>2
      <4> QED BY <1>2, <4>1, <4>2
    <3> QED BY <3>2 DEF InOrder
  <2>5. EndAt(q, n + 1) = i + Len(text)
    BY <1>2, <2>3 DEF EndAt
  <2> QED BY <2>3, <2>4, <2>5 DEF Placements, P
<1>5. ASSUME NEW q \in Placements(n + 1)
      PROVE  /\ q[n + 1] \in Occurrences(text, EndAt(q, n))
             /\ EndAt(q, n + 1) = q[n + 1] + Len(text)
             /\ \E p \in Placements(n) : EndAt(p, n) = EndAt(q, n)
  <2> DEFINE p == [k \in 1..n |-> q[k]]
  <2>1. /\ q \in [1..(n + 1) -> P]
        /\ \A k \in 1..(n + 1) : q[k] \in Occurrences(chains[chain][k].text, EndAt(q, k - 1))
    BY <1>5 DEF Placements, InOrder
  <2>2. p \in [1..n -> P] /\ \A k \in 1..n : p[k] = q[k]
    BY <1>2, <2>1
  <2> HIDE DEF p, P
  <2>3. EndAt(p, n) = EndAt(q, n) /\ InOrder(p, n)
    BY <1>2, <1>3, <2>1, <2>2 DEF InOrder
  <2>4. q[n + 1] \in Occurrences(text, EndAt(q, n))
    BY <1>2, <2>1
  <2>5. EndAt(q, n + 1) = q[n + 1] + Len(text)
    BY <1>2 DEF EndAt
  <2> QED BY <2>2, <2>3, <2>4, <2>5 DEF Placements, P
<1> QED BY <1>4, <1>5

LEMMA OccurrencesLater ==
  ASSUME NEW text, Len(text) \in Nat, Len(matchFile) \in Nat,
         NEW from \in Nat, NEW later \in Nat, from <= later
  PROVE  /\ Occurrences(text, from) \in SUBSET Nat
         /\ Occurrences(text, later) \subseteq Occurrences(text, from)
<1> DEFINE end == Len(matchFile) + 1 - Len(text)
<1>1. from..end \subseteq Nat /\ later..end \subseteq from..end
  OBVIOUS
<1> HIDE DEF end
<1>2. \A f : Occurrences(text, f) =
              {i \in f..end : SubSeq(matchFile, i, i + Len(text) - 1) = text}
  BY DEF Occurrences, end
<1> QED BY <1>1, <1>2

LEMMA SearchStep ==
  ASSUME TypeOK, ScanState, SearchState, [Next]_vars
  PROVE  SearchState'
<1> USE DEF Goto, Exit
<1>1. CASE RunCheck
  <2>1. CASE Occurrences(Current.text, rest) = {} /\ Exit(1)
    BY <2>1 DEF SearchState, EarliestPlaces
  <2>2. CASE Occurrences(Current.text, rest) # {} /\ RestBehind(Current.text)
             /\ check' = check + 1
    <3> DEFINE n    == check - 1
               text == Current.text
               S    == Occurrences(text, rest)
    <3>1. /\ pc = "checks" /\ chain <= Len(chains) /\ check <= Len(chains[chain])
          /\ UNCHANGED <<matchFile, chains, chain>>
      BY <1>1 DEF RunCheck, found
    <3>2. /\ chain \in DOMAIN chains /\ n \in Nat /\ n + 1 = check
          /\ check \in DOMAIN chains[chain] /\ check' - 1 = n + 1
          /\ check' <= Len(chains[chain]) + 1
      BY <2>2, <3>1, LenProperties DEF TypeOK, ScanState
    <3>3. text = chains[chain][n + 1].text /\ Len(text) \in Nat
      <4>1. chains[chain] \in Seq(Checks)
        BY <3>2 DEF TypeOK
      <4>2. chains[chain][check] \in Checks
        BY <3>2, <4>1
      <4> QED BY <3>2, <4>2, LenProperties DEF Current, Checks
    <3>4. /\ rest \in Nat /\ Len(matchFile) \in Nat
          /\ \E p \in Placements(n) : rest = EndAt(p, n)
          /\ \A p \in Placements(n) : rest <= EndAt(p, n)
      BY <3>1, LenProperties DEF SearchState, EarliestPlaces, TypeOK
    <3>5. /\ \A p \in Placements(n) : \A i \in Occurrences(text, EndAt(p, n)) :
               \E q \in Placements(n + 1) : EndAt(q, n + 1) = i + Len(text)
          /\ \A q \in Placements(n + 1) :
               /\ q[n + 1] \in Occurrences(text, EndAt(q, n))
               /\ EndAt(q, n + 1) = q[n + 1] + Len(text)
               /\ \E p \in Placements(n) : EndAt(p, n) = EndAt(q, n)
      BY <3>2, <3>3, PlaceOneMore
    <3> HIDE DEF n, text
    <3>6. S \in SUBSET Nat /\ rest' = Min(S) + Len(text)
      <4>1. S \in SUBSET Nat
        BY <3>3, <3>4, OccurrencesLater
      <4> QED BY <2>2, <4>1 DEF RestBehind, text
    <3>7. Min(S) \in S /\ Min(S) \in Nat /\ \A j \in S : Min(S) <= j
      BY <2>2, <3>6, MinIsLeast DEF text
    <3>8. \E q \in Placements(n + 1) : rest' = EndAt(q, n + 1)
      BY <3>4, <3>5, <3>6, <3>7
    <3>9. ASSUME NEW q \in Placements(n + 1)
          PROVE  rest' <= EndAt(q, n + 1)
      <4>1. rest <= EndAt(q, n)
        BY <3>4, <3>5
      <4>2. q[n + 1] \in S
        <5>1. q[n + 1] \in Occurrences(text, EndAt(q, n)) /\ EndAt(q, n) \in Nat
          <6>1. n = 0 \/ n \in DOMAIN chains[chain]
            BY <3>2, LenProperties DEF TypeOK
          <6>2. n = 0 \/ q[n] \in 1..(Len(matchFile) + 1)
            BY <3>2, <3>9 DEF Placements
          <6> QED BY <3>2, <3>5, <3>9, <6>1, <6>2, EndNat
        <5> QED BY <3>3, <3>4, <4>1, <5>1, OccurrencesLater
      <4>3. Min(S) <= q[n + 1] /\ q[n + 1] \in Nat /\ EndAt(q, n + 1) = q[n + 1] + Len(text)
        BY <3>5, <3>6, <3>7, <4>2
      <4> QED BY <3>3, <3>6, <3>7, <4>3
    <3>10. EarliestPlaces'
      BY <3>1, <3>2, <3>8, <3>9, PlacementsKept DEF EarliestPlaces
    <3> QED BY <3>1, <3>2, <3>10 DEF SearchState
  <2> QED BY <1>1, <2>1, <2>2 DEF RunCheck
<1>2. CASE NextChain \/ NoMoreDirectives
  <2>1. check' = 1 /\ rest' = 1 /\ chains' = chains
    BY <1>2 DEF NextChain, NoMoreDirectives, ScanState, found, search
  <2>2. Placements(0)' # {} /\ \A p : EndAt(p, 0)' = 1
    BY NothingPlaced
  <2>3. EarliestPlaces'
    BY <2>1, <2>2 DEF EarliestPlaces
  <2>4. (chain <= Len(chains) => check <= Len(chains[chain]) + 1)'
    <3>1. SUFFICES ASSUME chain' <= Len(chains) PROVE 1 <= Len(chains[chain']) + 1
      BY <2>1
    <3>2. chain' \in Nat /\ chain' >= 1 /\ chains \in Seq(Seq(Checks))
      BY <1>2 DEF NextChain, FollowingChain, NoMoreDirectives, search, TypeOK, ScanState
    <3>3. chains[chain'] \in Seq(Checks)
      BY <3>1, <3>2
    <3> QED BY <3>3, LenProperties
  <2> QED BY <2>3, <2>4 DEF SearchState
<1>3. CASE UNCHANGED vars
  <2>1. UNCHANGED <<pc, matchFile, chains, chain, check, rest>>
    BY <1>3 DEF vars, found, search
  <2> QED BY <2>1, PlacementsKept DEF SearchState, EarliestPlaces
<1>4. CASE \/ NoArguments \/ InlineInput \/ InputOption \/ Verbose \/ OptionsEnd
           \/ ReadMatchFile \/ ReadInput \/ FindDirective \/ Return
  <2>1. pc' # "checks"
    BY <1>4 DEF NoArguments, InlineInput, InputOption, Verbose, OptionsEnd, ReadMatchFile,
       ReadInput, FindDirective, Return, Reading
  <2> QED BY <2>1 DEF SearchState, EarliestPlaces
<1> QED BY <1>1, <1>2, <1>3, <1>4 DEF Next

(* For every match file and every chain in it, however long: what is left  *)
(* to search begins where the texts done so far end at the earliest,       *)
(* whatever places could be chosen for them (main.cpp:194-205).            *)
THEOREM SearchIsEarliest == Spec => []EarliestPlaces
<1>1. Init => SearchState
  BY DEF Init, SearchState, EarliestPlaces
<1>2. TypeOK /\ ScanState /\ [Next]_vars => (TypeOK /\ ScanState)'
  BY TypeStep
<1>3. TypeOK /\ ScanState /\ SearchState /\ [Next]_vars => SearchState'
  BY SearchStep
<1>4. SearchState => EarliestPlaces
  BY DEF SearchState
<1> QED BY <1>1, <1>2, <1>3, <1>4, TypeInit, PTL DEF Spec

-----------------------------------------------------------------------------
(* The directives: which positions of the match file begin the text of one. *)

(* Past is the only position that has its properties.                      *)
LEMMA PastIs ==
  ASSUME matchFile \in Seq(Chars), NEW i \in Nat, NEW j \in i..(Len(matchFile) + 1),
         NEW chars, Char(j) \notin chars, \A k \in i..(j - 1) : Char(k) \in chars
  PROVE  Past(i, chars) = j
<1> DEFINE Is(q) == Char(q) \notin chars /\ \A k \in i..(q - 1) : Char(k) \in chars
<1>1. Len(matchFile) \in Nat /\ j \in Nat
  OBVIOUS
<1>2. \A q \in i..(Len(matchFile) + 1) : Is(q) => q = j
  <2>1. SUFFICES ASSUME NEW q \in i..(Len(matchFile) + 1), Is(q), q # j
                 PROVE  FALSE
    OBVIOUS
  <2>2. q \in Nat
    BY <1>1
  <2>3. CASE q < j
    <3>1. q \in i..(j - 1)
      BY <1>1, <2>2, <2>3
    <3>2. QED
      BY <2>1, <3>1
  <2>4. CASE j < q
    <3>1. j \in i..(q - 1)
      BY <1>1, <2>2, <2>4
    <3>2. QED
      BY <2>1, <3>1
  <2>5. QED
    BY <1>1, <2>1, <2>2, <2>3, <2>4
<1>3. Past(i, chars) = CHOOSE q \in i..(Len(matchFile) + 1) : Is(q)
  BY DEF Past
<1>4. Is(j)
  OBVIOUS
<1> HIDE DEF Is
<1>5. QED
  BY <1>2, <1>3, <1>4

(* How a match is made up.                                                 *)
PartsInOrder(i, d, p, e, f) ==
  /\ i \in Nat /\ d \in Nat /\ p \in Nat /\ e \in Nat /\ f \in Nat
  /\ 1 <= i /\ i + 2 <= d /\ d < p /\ p < e /\ e < f /\ f <= Len(matchFile) + 1
Laid(i, d, p, e, f) ==
  /\ PartsInOrder(i, d, p, e, f)
  /\ Char(i) = "/" /\ Char(i + 1) = "/"
  /\ \A k \in (i + 2)..(d - 1) : Char(k) = " "
  /\ Char(d) \in Directives
  /\ \A k \in (d + 1)..(p - 1) : Char(k) = " "
  /\ Char(p) \in Words
  /\ \A k \in p..(e - 1) : Char(k) \in Words \cup {" "}
  /\ \A k \in e..(f - 1) : Char(k) = "nl"
  /\ Char(f) # "nl"

LEMMA MatchLaid ==
  ASSUME TypeOK, NEW i \in 1..Len(matchFile), Matches(i)
  PROVE  Laid(i, DirectiveAt(i), TextAt(i), TextEnd(i), MatchEnd(i))
<1> DEFINE n == Len(matchFile)
           d == DirectiveAt(i)
           p == TextAt(i)
           e == TextEnd(i)
           f == MatchEnd(i)
<1>1. matchFile \in Seq(Chars) /\ n \in Nat /\ DOMAIN matchFile = 1..n /\ i \in Nat
  BY LenProperties DEF TypeOK
<1>2. /\ {" "} \subseteq Chars /\ {"nl"} \subseteq Chars /\ Words \cup {" "} \subseteq Chars
  BY DEF Chars, Words, Directives
<1>p. \A k \in 1..(n + 1), cs \in SUBSET Chars :
        /\ Past(k, cs) \in k..(n + 1) /\ Char(Past(k, cs)) \notin cs
        /\ \A l \in k..(Past(k, cs) - 1) : Char(l) \in cs
  BY <1>1, PastHere
<1>3. /\ i < p /\ p < e /\ e < f /\ f <= n + 1
      /\ p \in Nat /\ e \in Nat /\ f \in Nat /\ Char(d) \in Directives
  BY MatchHere
<1>4. i + 1 <= n
  BY <1>1, MatchFits
<1>5. i + 2 \in 1..(n + 1)
  BY <1>1, <1>4
<1>6. d \in (i + 2)..(n + 1) /\ \A k \in (i + 2)..(d - 1) : Char(k) = " "
  BY <1>2, <1>5, <1>p DEF DirectiveAt
<1>7. d \in Nat /\ i + 2 <= d /\ d <= n
  <2>1. d \in Nat /\ i + 2 <= d /\ d <= n + 1
    <3>1. d \in (i + 2)..(n + 1)
      BY <1>6
    <3> HIDE DEF d, n
    <3>2. QED
      BY <1>1, <3>1
  <2>2. d # n + 1
    BY <1>1, <1>3 DEF Char, Directives
  <2> HIDE DEF d
  <2>3. QED
    BY <1>1, <2>1, <2>2
<1>8. d + 1 \in 1..(n + 1)
  <2> HIDE DEF d
  <2>1. QED
    BY <1>1, <1>7
<1>9. p \in (d + 1)..(n + 1) /\ \A k \in (d + 1)..(p - 1) : Char(k) = " "
  BY <1>2, <1>8, <1>p DEF TextAt
<1>10. p \in 1..(n + 1) /\ e \in 1..(n + 1)
  <2> HIDE DEF p, e, f
  <2>1. QED
    BY <1>1, <1>3
<1>11. \A k \in p..(e - 1) : Char(k) \in Words \cup {" "}
  BY <1>2, <1>10, <1>p DEF TextEnd
<1>12. Char(f) # "nl" /\ \A k \in e..(f - 1) : Char(k) = "nl"
  BY <1>2, <1>10, <1>p DEF MatchEnd
<1>13. Char(i) = "/" /\ Char(i + 1) = "/" /\ Char(p) \in Words
  BY DEF Matches
<1>14. d < p /\ 1 <= i
  <2>1. d + 1 <= p
    <3>1. p \in (d + 1)..(n + 1)
      BY <1>9
    <3> HIDE DEF d, p, n
    <3>2. QED
      BY <1>1, <1>3, <1>7, <3>1
  <2> HIDE DEF d, p
  <2>2. QED
    BY <1>1, <1>3, <1>7, <2>1
<1> HIDE DEF d, p, e, f
<1>15. Laid(i, d, p, e, f)
  BY <1>1, <1>3, <1>6, <1>7, <1>9, <1>11, <1>12, <1>13, <1>14 DEF Laid, PartsInOrder
<1>16. QED
  BY <1>15 DEF d, p, e, f

(* The text of a directive starts where a match has its text, and nowhere  *)
(* else.                                                                   *)
LEMMA TextStartsMatch ==
  ASSUME TypeOK, NEW p
  PROVE  p \in TextStarts <=> \E i \in 1..Len(matchFile) : Matches(i) /\ TextAt(i) = p
<1> DEFINE n == Len(matchFile)
<1>1. matchFile \in Seq(Chars) /\ n \in Nat /\ DOMAIN matchFile = 1..n
  BY LenProperties DEF TypeOK
<1>2. ASSUME NEW i \in 1..n, Matches(i)
      PROVE  TextAt(i) \in TextStarts
  <2> DEFINE d == DirectiveAt(i)
             q == TextAt(i)
             e == TextEnd(i)
             f == MatchEnd(i)
  <2>1. Laid(i, d, q, e, f)
    BY <1>2, MatchLaid
  <2> HIDE DEF d, q, e, f
  <2>2. /\ q \in 1..n /\ e \in 1..n /\ e > q /\ Char(e) = "nl" /\ Char(q) \in Words
        /\ d \in 3..(q - 1) /\ i \in 1..(d - 2)
    <3>1. PartsInOrder(i, d, q, e, f) /\ Char(q) \in Words
      BY <2>1 DEF Laid
    <3>2. e \in e..(f - 1)
      BY <3>1 DEF PartsInOrder
    <3>3. Char(e) = "nl"
      BY <2>1, <3>2 DEF Laid
    <3>4. QED
      BY <1>1, <3>1, <3>3 DEF PartsInOrder
  <2>3. /\ Char(d) \in Directives /\ Char(i) = "/" /\ Char(i + 1) = "/"
        /\ \A j \in (d + 1)..(q - 1) : Char(j) = " "
        /\ \A j \in (i + 2)..(d - 1) : Char(j) = " "
    BY <2>1 DEF Laid
  <2>4. q \in TextStarts
    BY <1>1, <2>2, <2>3 DEF TextStarts
  <2>5. QED
    BY <2>4 DEF q
<1>3. ASSUME p \in TextStarts
      PROVE  \E i \in 1..n : Matches(i) /\ TextAt(i) = p
  <2>1. p \in 1..n /\ Char(p) \in Words
    BY <1>1, <1>3 DEF TextStarts
  <2>2. PICK b \in 1..n : b > p /\ Char(b) = "nl"
    BY <1>1, <1>3 DEF TextStarts
  <2>3. PICK d \in 3..(p - 1) :
          /\ Char(d) \in Directives
          /\ \A j \in (d + 1)..(p - 1) : Char(j) = " "
          /\ \E i \in 1..(d - 2) : /\ Char(i) = "/" /\ Char(i + 1) = "/"
                                   /\ \A j \in (i + 2)..(d - 1) : Char(j) = " "
    BY <1>3 DEF TextStarts
  <2>4. PICK i \in 1..(d - 2) : /\ Char(i) = "/" /\ Char(i + 1) = "/"
                               /\ \A j \in (i + 2)..(d - 1) : Char(j) = " "
    BY <2>3
  <2>5. " " \notin Directives /\ " " \notin Words
    BY DEF Words, Directives
  <2>6. DirectiveAt(i) = d
    <3>1. i + 2 \in Nat /\ d \in (i + 2)..(n + 1)
      BY <1>1, <2>1
    <3>2. Char(d) \notin {" "} /\ \A k \in (i + 2)..(d - 1) : Char(k) \in {" "}
      BY <2>3, <2>4, <2>5
    <3>3. QED
      BY <1>1, <3>1, <3>2, PastIs DEF DirectiveAt
  <2>7. TextAt(i) = p
    <3>1. d + 1 \in Nat /\ p \in (d + 1)..(n + 1)
      BY <1>1, <2>1
    <3>2. Char(p) \notin {" "} /\ \A k \in (d + 1)..(p - 1) : Char(k) \in {" "}
      BY <2>1, <2>3, <2>5
    <3>3. Past(d + 1, {" "}) = p
      BY <1>1, <3>1, <3>2, PastIs
    <3>4. QED
      BY <2>6, <3>3 DEF TextAt
  <2>8. Char(TextEnd(i)) = "nl"
    <3> DEFINE cs == Words \cup {" "}
               e == Past(p, cs)
    <3>1. cs \in SUBSET Chars /\ "nl" \notin cs /\ Chars = cs \cup {"nl"}
      BY DEF Chars, Words, Directives
    <3>2. p \in 1..(n + 1)
      BY <1>1, <2>1
    <3>3. e \in p..(n + 1) /\ Char(e) \notin cs /\ \A k \in p..(e - 1) : Char(k) \in cs
      BY <1>1, <3>1, <3>2, PastHere
    <3> HIDE DEF e, cs
    <3>4. e \in Nat /\ e <= b
      <4>1. b \notin p..(e - 1)
        BY <2>2, <3>1, <3>3
      <4>2. QED
        BY <1>1, <2>1, <2>2, <3>3, <4>1
    <3>5. e \in DOMAIN matchFile
      BY <1>1, <2>1, <2>2, <3>3, <3>4
    <3>6. Char(e) \in Chars \/ Char(e) = "end"
      BY <1>1, <3>5 DEF Char
    <3>7. Char(e) = matchFile[e]
      BY <3>5 DEF Char
    <3>8. matchFile[e] \in Chars
      BY <1>1, <3>5, ElementOfSeq
    <3>9. QED
      BY <2>7, <3>1, <3>3, <3>7, <3>8 DEF TextEnd, e, cs
  <2>9. i \in 1..n /\ Matches(i)
    <3>1. i \in 1..n
      BY <1>1, <2>1
    <3>2. QED
      BY <2>1, <2>3, <2>4, <2>6, <2>7, <2>8, <3>1 DEF Matches
  <2>10. QED
    BY <2>7, <2>9
<1>4. QED
  BY <1>2, <1>3

LEMMA DirectivesNat ==
  ASSUME TypeOK
  PROVE  TextStarts \subseteq Nat /\ DirectiveTexts \subseteq Nat
<1>1. DOMAIN matchFile \subseteq Nat
  BY LenProperties DEF TypeOK
<1>2. TextStarts \subseteq Nat
  BY <1>1 DEF TextStarts
<1>3. QED
  BY <1>2 DEF DirectiveTexts, FirstOfLines

(* A match that begins behind another begins behind its directive.         *)
LEMMA MatchesApart ==
  ASSUME TypeOK, NEW i \in 1..Len(matchFile), Matches(i),
         NEW j \in 1..Len(matchFile), Matches(j), i < j
  PROVE  TextAt(i) <= j /\ TextAt(i) < TextAt(j)
<1> DEFINE d == DirectiveAt(i)
           p == TextAt(i)
           q == TextAt(j)
<1>1. Laid(i, d, p, TextEnd(i), MatchEnd(i)) /\ Laid(j, DirectiveAt(j), q, TextEnd(j), MatchEnd(j))
  BY MatchLaid
<1> HIDE DEF d, p, q
<1>2. /\ d \in Nat /\ p \in Nat /\ q \in Nat /\ i \in Nat /\ j \in Nat /\ j < q
      /\ i + 2 <= d /\ d < p
  <2>1. PartsInOrder(i, d, p, TextEnd(i), MatchEnd(i)) /\ PartsInOrder(j, DirectiveAt(j), q, TextEnd(j), MatchEnd(j))
    BY <1>1 DEF Laid
  <2>2. QED
    BY <2>1 DEF PartsInOrder
<1>3. Char(j) = "/" /\ Char(j + 1) = "/" /\ "/" \notin Directives
  BY <1>1 DEF Laid, Directives
<1>4. j \notin (i + 2)..(d - 1) /\ j \notin (d + 1)..(p - 1) /\ j # d
  BY <1>1, <1>3 DEF Laid
<1>5. j # i + 1
  <2>1. SUFFICES ASSUME j = i + 1 PROVE FALSE
    OBVIOUS
  <2>2. Char(i + 2) = "/"
    BY <1>2, <1>3, <2>1
  <2>3. i + 2 = d \/ i + 2 \in (i + 2)..(d - 1)
    BY <1>2
  <2>4. QED
    BY <1>1, <1>3, <2>2, <2>3 DEF Laid
<1>6. p <= j
  BY <1>2, <1>4, <1>5
<1>7. QED
  BY <1>2, <1>6 DEF p, q

-----------------------------------------------------------------------------
(* The scan: it stands at the start of a line, and the checks are the      *)
(* directives of the lines before it.                                      *)

LineStart == at = 1 \/ Char(at - 1) = "nl"

AsWritten(c, k) ==
  /\ c.text = LineFrom(c.at)
  /\ c.style = StyleOf(c.at)
  /\ c.style = "CHECK:" <=> k = 1
  /\ c.at \in DirectiveTexts /\ c.at < at /\ k <= c.at

ChainsAsWritten ==
  \A n \in DOMAIN chains :
    chains[n] # <<>> /\ \A k \in DOMAIN chains[n] : AsWritten(chains[n][k], k)
ChainsInOrder ==
  \A n, m \in DOMAIN chains : \A k \in DOMAIN chains[n], l \in DOMAIN chains[m] :
    Precedes(<<n, k>>, <<m, l>>) => chains[n][k].at < chains[m][l].at
InChains(p) == \E n \in DOMAIN chains : \E k \in DOMAIN chains[n] : chains[n][k].at = p

Scanned == pc = "checks" \/ (pc = "exited" /\ code \in {0, 1})
DirectiveState ==
  /\ LineStart
  /\ ChainsAsWritten
  /\ ChainsInOrder
  /\ \A p \in DirectiveTexts : p < at => InChains(p)
  /\ Scanned => MatchesFrom(at) = {}
  /\ pc = "exited" /\ code = 61
       => DirectiveTexts # {} /\ StyleOf(Min(DirectiveTexts)) = "CHECK-NEXT:"

(* A match and its text are in one line.                                   *)
LEMMA InOneLine ==
  ASSUME TypeOK, NEW i \in 1..Len(matchFile), Matches(i)
  PROVE  \A k \in i..(TextEnd(i) - 1) : Char(k) # "nl"
<1> DEFINE d == DirectiveAt(i)
           p == TextAt(i)
           e == TextEnd(i)
<1>1. Laid(i, d, p, e, MatchEnd(i))
  BY MatchLaid
<1> HIDE DEF d, p, e
<1>2. PartsInOrder(i, d, p, e, MatchEnd(i))
  BY <1>1 DEF Laid
<1>3. "nl" \notin Directives /\ "nl" \notin Words \cup {" "}
  BY DEF Directives, Words
<1>4. ASSUME NEW k \in i..(e - 1)
      PROVE  Char(k) # "nl"
  <2>1. \/ k = i \/ k = i + 1 \/ k = d
        \/ k \in (i + 2)..(d - 1) \/ k \in (d + 1)..(p - 1) \/ k \in p..(e - 1)
    BY <1>2 DEF PartsInOrder
  <2>2. QED
    BY <1>1, <1>3, <2>1 DEF Laid
<1>5. QED
  BY <1>4 DEF e

(* A match in front of the scan ends in front of it.                       *)
LEMMA MatchBehindScan ==
  ASSUME TypeOK, LineStart, NEW j \in 1..Len(matchFile), Matches(j), j < at
  PROVE  TextAt(j) < TextEnd(j) /\ TextEnd(j) <= at - 1
<1>1. TextAt(j) \in Nat /\ TextEnd(j) \in Nat /\ j < TextAt(j) /\ TextAt(j) < TextEnd(j)
  BY MatchHere
<1>2. at \in Nat /\ j \in Nat /\ j >= 1
  BY DEF TypeOK
<1>3. Char(at - 1) = "nl"
  BY <1>2 DEF LineStart
<1>4. at - 1 \notin j..(TextEnd(j) - 1)
  BY <1>3, InOneLine
<1>5. QED
  BY <1>1, <1>2, <1>4

(* The first match from the start of a line on yields the next directive;  *)
(* up to its end there is no other.                                        *)
LEMMA NextDirective ==
  ASSUME TypeOK, LineStart, NEW i \in MatchesFrom(at), \A j \in MatchesFrom(at) : i <= j
  PROVE  /\ TextAt(i) \in DirectiveTexts
         /\ at < TextAt(i) /\ TextAt(i) < MatchEnd(i)
         /\ Char(MatchEnd(i) - 1) = "nl"
         /\ \A q \in DirectiveTexts : q < at \/ q = TextAt(i) \/ q >= MatchEnd(i)
<1> DEFINE p == TextAt(i)
           e == TextEnd(i)
           f == MatchEnd(i)
<1>1. /\ matchFile \in Seq(Chars) /\ Len(matchFile) \in Nat /\ at \in Nat /\ at >= 1
      /\ i \in 1..Len(matchFile) /\ Matches(i) /\ at <= i
  BY LenProperties DEF MatchesFrom, TypeOK
<1>2. Laid(i, DirectiveAt(i), p, e, f)
  BY <1>1, MatchLaid
<1>3. /\ p \in Nat /\ e \in Nat /\ f \in Nat /\ i \in Nat
      /\ i < p /\ p < e /\ e < f /\ f <= Len(matchFile) + 1
  BY <1>1, MatchHere
<1>4. \A k \in e..(f - 1) : Char(k) = "nl"
  BY <1>2 DEF Laid
<1>5. \A j \in 1..Len(matchFile) : Matches(j) => j < at \/ j >= i
  BY <1>1 DEF MatchesFrom
<1>6. TextStarts \subseteq Nat
  BY DirectivesNat
<1>7. p \in TextStarts
  BY <1>1, TextStartsMatch
<1>8. ASSUME NEW q \in TextStarts, q < p
      PROVE  q < at /\ \E k \in q..p : Char(k) = "nl"
  <2>1. PICK j \in 1..Len(matchFile) : Matches(j) /\ TextAt(j) = q
    BY TextStartsMatch
  <2>2. ~(j > i)
    BY <1>1, <1>3, <1>6, <1>8, <2>1, MatchesApart
  <2>3. j # i
    BY <1>3, <1>6, <1>8, <2>1
  <2>4. j < at
    BY <1>3, <1>5, <2>1, <2>2, <2>3
  <2>5. q < TextEnd(j) /\ TextEnd(j) <= at - 1 /\ TextEnd(j) \in Nat
    BY <2>1, <2>4, MatchBehindScan, MatchHere
  <2>6. Char(at - 1) = "nl"
    BY <1>1, <2>4 DEF LineStart
  <2>7. q < at /\ at - 1 \in q..p
    <3>1. q \in Nat
      BY <1>6
    <3> HIDE DEF p
    <3>2. QED
      BY <1>1, <1>3, <2>5, <3>1
  <2>8. QED
    BY <2>6, <2>7
<1>9. p \in DirectiveTexts
  BY <1>7, <1>8 DEF DirectiveTexts, FirstOfLines
<1>10. ASSUME NEW q \in DirectiveTexts, ~(q < at), q # p
       PROVE  q >= f
  <2>1. q \in TextStarts /\ q \in Nat
    BY <1>6 DEF DirectiveTexts, FirstOfLines
  <2>2. q > p
    BY <1>3, <1>8, <1>10, <2>1
  <2>3. PICK k \in p..q : Char(k) = "nl"
    BY <1>7, <2>2 DEF DirectiveTexts, FirstOfLines
  <2>4. k >= e
    <3>1. k \in Nat /\ k >= i
      <4> HIDE DEF p
      <4>1. QED
        BY <1>3, <2>1, <2>3
    <3>2. k \notin i..(e - 1)
      BY <1>1, <2>3, InOneLine
    <3> HIDE DEF e, p
    <3>3. QED
      BY <1>3, <3>1, <3>2
  <2>5. Char(q) # "nl"
    <3>1. Char(q) \in Words
      BY <2>1 DEF TextStarts
    <3>2. QED
      BY <3>1 DEF Words, Directives
  <2>6. q \notin e..(f - 1)
    BY <1>4, <2>5
  <2> HIDE DEF e, f, p
  <2>7. QED
    BY <1>3, <2>1, <2>3, <2>4, <2>6
<1>11. Char(f - 1) = "nl"
  <2>1. f - 1 \in e..(f - 1)
    <3> HIDE DEF e, f, p
    <3>1. QED
      BY <1>3
  <2>2. QED
    BY <1>4, <2>1
<1> HIDE DEF e, f, p
<1>12. p \in DirectiveTexts /\ at < p /\ p < f
  BY <1>1, <1>3, <1>9
<1>13. QED
  BY <1>10, <1>11, <1>12 DEF p, f

(* When no match is left, all directives are in front of the scan.         *)
LEMMA NoDirectiveLeft ==
  ASSUME TypeOK, LineStart, MatchesFrom(at) = {}, NEW p \in DirectiveTexts
  PROVE  p < at
<1>1. PICK j \in 1..Len(matchFile) : Matches(j) /\ TextAt(j) = p
  BY TextStartsMatch DEF DirectiveTexts, FirstOfLines
<1>2. at \in Nat /\ at >= 1 /\ j \in Nat /\ Len(matchFile) \in Nat
  BY LenProperties DEF TypeOK
<1>3. j < at
  BY <1>1, <1>2 DEF MatchesFrom
<1>4. p < TextEnd(j) /\ TextEnd(j) <= at - 1 /\ TextEnd(j) \in Nat /\ p \in Nat
  BY <1>1, <1>3, MatchBehindScan, MatchHere
<1>5. QED
  BY <1>2, <1>4

(* What the check made of a match says is what its line says.              *)
LEMMA CheckAsItsLine ==
  ASSUME TypeOK, NEW i \in 1..Len(matchFile), Matches(i)
  PROVE  Check(i).text = LineFrom(Check(i).at) /\ Check(i).style = StyleOf(Check(i).at)
<1> DEFINE d == DirectiveAt(i)
           p == TextAt(i)
           e == TextEnd(i)
<1>1. Check(i).at = p /\ Check(i).text = SubSeq(matchFile, p, e - 1) /\ Check(i).style = Char(d)
  BY DEF Check
<1>2. Chars \ {"nl"} = Words \cup {" "}
  BY DEF Chars, Words, Directives
<1>3. Check(i).text = LineFrom(p)
  BY <1>1, <1>2 DEF LineFrom, TextEnd
<1>4. Laid(i, d, p, e, MatchEnd(i))
  BY MatchLaid
<1> HIDE DEF d, p, e
<1>5. i \in Nat /\ d \in Nat /\ p \in Nat /\ i + 2 <= d /\ d < p /\ 1 <= i
  BY <1>4 DEF Laid, PartsInOrder
<1>6. Char(d) # " " /\ \A k \in (d + 1)..(p - 1) : Char(k) = " "
  BY <1>4 DEF Laid, Directives
<1> DEFINE S == {k \in 1..(p - 1) : Char(k) # " "}
<1>7. d \in S /\ \A k \in S : k <= d
  <2>1. d \in S
    <3>1. d \in 1..(p - 1)
      BY <1>5
    <3>2. QED
      BY <1>6, <3>1
  <2>2. ASSUME NEW k \in 1..(p - 1), Char(k) # " "
        PROVE  k <= d
    <3>1. k \notin (d + 1)..(p - 1)
      BY <1>6, <2>2
    <3>2. QED
      BY <1>5, <3>1
  <2>3. QED
    BY <2>1, <2>2
<1>8. S \subseteq Nat
  <2>1. 1..(p - 1) \subseteq Nat
    BY <1>5
  <2>2. QED
    BY <2>1
<1>9. Max(S) = d
  <2> HIDE DEF S
  <2>1. \A x \in S : (\A y \in S : x >= y) => x = d
    BY <1>5, <1>7, <1>8
  <2>2. \A y \in S : d >= y
    BY <1>5, <1>7, <1>8
  <2>3. QED
    BY <1>7, <2>1, <2>2 DEF Max
<1>10. StyleOf(p) = Char(d)
  BY <1>9 DEF StyleOf
<1>11. QED
  BY <1>1, <1>3, <1>10

(* Chaining a check adds it behind all others.                             *)
Added(n, k, c) ==
  /\ n \in DOMAIN chains' /\ k \in DOMAIN chains'[n] /\ chains'[n][k] = c
  /\ \A m \in DOMAIN chains' : \A l \in DOMAIN chains'[m] :
       \/ m = n /\ l = k
       \/ /\ m \in DOMAIN chains /\ l \in DOMAIN chains[m] /\ chains'[m][l] = chains[m][l]
          /\ Precedes(<<m, l>>, <<n, k>>)
  /\ \A m \in DOMAIN chains : \A l \in DOMAIN chains[m] :
       m \in DOMAIN chains' /\ l \in DOMAIN chains'[m] /\ chains'[m][l] = chains[m][l]
  /\ k = 1 \/ (n \in DOMAIN chains /\ k - 1 \in DOMAIN chains[n])
  /\ n \in Nat /\ k \in Nat /\ (c.style = "CHECK:" <=> k = 1)
  /\ \A m \in DOMAIN chains' : chains'[m] # <<>>

LEMMA ChainedBehind ==
  ASSUME chains \in Seq(Seq(Checks)), \A n \in DOMAIN chains : chains[n] # <<>>,
         NEW c \in Checks, ~Unchained(c), Chained(c)
  PROVE  \E n, k \in Nat : Added(n, k, c)
<1> DEFINE L == Len(chains)
<1>1. L \in Nat /\ DOMAIN chains = 1..L
  BY LenProperties
<1>2. CASE c.style = "CHECK:" /\ chains' = Append(chains, <<c>>)
  <2>1. <<c>> \in Seq(Checks) /\ Len(<<c>>) = 1 /\ <<c>>[1] = c /\ DOMAIN <<c>> = 1..1
    OBVIOUS
  <2>2. /\ DOMAIN chains' = 1..(L + 1) /\ chains'[L + 1] = <<c>>
        /\ \A m \in 1..L : chains'[m] = chains[m]
    BY <1>1, <1>2, <2>1, AppendProperties, LenProperties
  <2> HIDE DEF L
  <2>3. \A m \in DOMAIN chains' : m = L + 1 \/ m \in 1..L
    BY <1>1, <2>2
  <2>4. \A m \in 1..L : m < L + 1
    BY <1>1
  <2>5. L + 1 \in DOMAIN chains' /\ 1 \in DOMAIN chains'[L + 1] /\ chains'[L + 1][1] = c
    BY <1>1, <2>1, <2>2
  <2>6. \A m \in DOMAIN chains' : \A l \in DOMAIN chains'[m] :
          \/ m = L + 1 /\ l = 1
          \/ /\ m \in DOMAIN chains /\ l \in DOMAIN chains[m] /\ chains'[m][l] = chains[m][l]
             /\ Precedes(<<m, l>>, <<L + 1, 1>>)
    BY <1>1, <2>1, <2>2, <2>3, <2>4 DEF Precedes
  <2>7. \A m \in DOMAIN chains : m \in DOMAIN chains' /\ chains'[m] = chains[m]
    BY <1>1, <2>2
  <2>8. \A m \in DOMAIN chains' : chains'[m] # <<>>
    <3>1. <<c>> # <<>>
      OBVIOUS
    <3>2. QED
      BY <1>1, <2>2, <2>3, <3>1
  <2>9. Added(L + 1, 1, c)
    <3>1. L + 1 \in Nat /\ 1 \in Nat /\ c.style = "CHECK:"
      BY <1>1, <1>2
    <3>2. \A m \in DOMAIN chains : \A l \in DOMAIN chains[m] :
            m \in DOMAIN chains' /\ l \in DOMAIN chains'[m] /\ chains'[m][l] = chains[m][l]
      BY <2>7
    <3>3. QED
      BY Zenon, <2>5, <2>6, <2>8, <3>1, <3>2 DEF Added
  <2>10. QED
    BY <1>1, <2>9
<1>3. CASE c.style = "CHECK-NEXT:" /\ chains' = [chains EXCEPT ![L] = Append(@, c)]
  <2> DEFINE ch == chains[L]
             K == Len(ch)
  <2>1. chains # <<>>
    BY <1>3 DEF Unchained
  <2>2. L \in DOMAIN chains /\ ch \in Seq(Checks) /\ ch # <<>>
    BY <1>1, <2>1
  <2>3. K \in Nat /\ K >= 1 /\ DOMAIN ch = 1..K
    BY <2>2, LenProperties
  <2>4. /\ DOMAIN Append(ch, c) = 1..(K + 1) /\ Append(ch, c)[K + 1] = c
        /\ \A l \in 1..K : Append(ch, c)[l] = ch[l]
    BY <2>2, <2>3, AppendProperties, LenProperties
  <2>5. /\ DOMAIN chains' = DOMAIN chains /\ chains'[L] = Append(ch, c)
        /\ \A m \in DOMAIN chains : m # L => chains'[m] = chains[m]
    BY <1>3, <2>2
  <2>6. ch = chains[L]
    OBVIOUS
  <2> HIDE DEF L, ch, K
  <2>7. \A m \in DOMAIN chains : m = L \/ (m \in Nat /\ m < L)
    BY <1>1
  <2>8. L \in DOMAIN chains' /\ K + 1 \in DOMAIN chains'[L] /\ chains'[L][K + 1] = c
    BY <2>2, <2>3, <2>4, <2>5
  <2>9. ASSUME NEW m \in DOMAIN chains', NEW l \in DOMAIN chains'[m]
        PROVE  \/ m = L /\ l = K + 1
               \/ /\ m \in DOMAIN chains /\ l \in DOMAIN chains[m]
                  /\ chains'[m][l] = chains[m][l]
                  /\ Precedes(<<m, l>>, <<L, K + 1>>)
    <3>1. CASE m = L
      <4>1. l \in 1..(K + 1)
        BY <2>4, <2>5, <3>1
      <4>2. l = K + 1 \/ (l \in 1..K /\ l < K + 1)
        BY <2>3, <4>1
      <4>3. QED
        BY <2>2, <2>3, <2>4, <2>5, <2>6, <3>1, <4>2 DEF Precedes
    <3>2. CASE m # L
      BY <2>5, <2>7, <3>2 DEF Precedes
    <3>3. QED
      BY <3>1, <3>2
  <2>10. ASSUME NEW m \in DOMAIN chains, NEW l \in DOMAIN chains[m]
         PROVE  m \in DOMAIN chains' /\ l \in DOMAIN chains'[m] /\ chains'[m][l] = chains[m][l]
    <3>1. CASE m = L
      <4>1. l \in 1..K /\ l \in 1..(K + 1)
        BY <2>3, <2>6, <3>1
      <4>2. QED
        BY <2>4, <2>5, <2>6, <3>1, <4>1
    <3>2. CASE m # L
      BY <2>5, <3>2
    <3>3. QED
      BY <3>1, <3>2
  <2>11. \A m \in DOMAIN chains' : chains'[m] # <<>>
    <3>1. Append(ch, c) # <<>>
      <4>1. K + 1 \in DOMAIN Append(ch, c)
        BY <2>3, <2>4
      <4>2. DOMAIN <<>> = {}
        OBVIOUS
      <4>3. QED
        BY <4>1, <4>2
    <3>2. QED
      BY <2>5, <3>1
  <2>12. K + 1 - 1 \in DOMAIN chains[L] /\ K + 1 \in Nat /\ L \in Nat /\ K + 1 # 1
    BY <1>1, <2>3, <2>6
  <2>13. Added(L, K + 1, c)
    <3>1. c.style = "CHECK:" <=> K + 1 = 1
      BY <1>3, <2>12
    <3>3. L \in Nat /\ K + 1 \in Nat
      BY <2>12
    <3>4. \A k : k = K + 1 => Added(L, k, c)
      <4>1. SUFFICES ASSUME NEW k, k = K + 1 PROVE Added(L, k, c)
        OBVIOUS
      <4>2. \A m \in DOMAIN chains' : \A l \in DOMAIN chains'[m] :
              \/ m = L /\ l = k
              \/ /\ m \in DOMAIN chains /\ l \in DOMAIN chains[m]
                 /\ chains'[m][l] = chains[m][l]
                 /\ Precedes(<<m, l>>, <<L, k>>)
        BY <2>9, <4>1
      <4>3. \A m \in DOMAIN chains : \A l \in DOMAIN chains[m] :
              m \in DOMAIN chains' /\ l \in DOMAIN chains'[m] /\ chains'[m][l] = chains[m][l]
        BY <2>10
      <4>4. k = 1 \/ (L \in DOMAIN chains /\ k - 1 \in DOMAIN chains[L])
        <5>1. k - 1 = K /\ K \in DOMAIN chains[L]
          BY <2>3, <2>6, <4>1
        <5>2. QED
          BY <2>2, <5>1
      <4>5. QED
        BY <2>8, <2>11, <3>1, <3>3, <4>1, <4>2, <4>3, <4>4 DEF Added
    <3>5. QED
      BY <3>4
  <2>14. QED
    BY <2>12, <2>13
<1>4. QED
  BY <1>2, <1>3 DEF Chained

(* What is said of the match file alone does not change.                   *)
LEMMA SameTexts ==
  ASSUME matchFile' = matchFile
  PROVE  /\ \A p : Char(p)' = Char(p)
         /\ DirectiveTexts' = DirectiveTexts
         /\ \A p : StyleOf(p)' = StyleOf(p) /\ LineFrom(p)' = LineFrom(p)
         /\ \A b : MatchesFrom(b)' = MatchesFrom(b)
<1>1. \A p : Char(p)' = Char(p)
  BY DEF Char
<1>2. TextStarts' = TextStarts
  BY <1>1 DEF TextStarts
<1>3. DirectiveTexts' = DirectiveTexts
  BY <1>1, <1>2 DEF DirectiveTexts, FirstOfLines
<1>4. \A p : StyleOf(p)' = StyleOf(p)
  BY <1>1 DEF StyleOf
<1>5. \A i, cs : Past(i, cs)' = Past(i, cs)
  BY <1>1 DEF Past
<1>6. \A p : LineFrom(p)' = LineFrom(p)
  BY <1>5 DEF LineFrom
<1>7. \A i : Matches(i)' = Matches(i)
  BY <1>1, <1>5 DEF Matches, DirectiveAt, TextAt, TextEnd
<1>8. \A b : MatchesFrom(b)' = MatchesFrom(b)
  BY <1>7 DEF MatchesFrom
<1>9. QED
  BY <1>1, <1>3, <1>4, <1>6, <1>8

(* A step that moves neither the scan nor what it has found.               *)
LEMMA DirectivesKept ==
  ASSUME DirectiveState, matchFile' = matchFile, UNCHANGED found, Scanned' => Scanned,
         pc' = "exited" /\ code' = 61 => pc = "exited" /\ code = 61
  PROVE  DirectiveState'
<1>1. at' = at /\ chains' = chains
  BY DEF found
<1>2. LineStart' = LineStart
  BY <1>1, SameTexts DEF LineStart
<1>3. \A c, k : AsWritten(c, k)' = AsWritten(c, k)
  BY <1>1, SameTexts DEF AsWritten
<1>4. ChainsAsWritten' /\ ChainsInOrder'
  BY <1>1, <1>3 DEF DirectiveState, ChainsAsWritten, ChainsInOrder, Precedes
<1>5. (\A p \in DirectiveTexts : p < at => InChains(p))'
  BY <1>1, SameTexts DEF DirectiveState, InChains
<1>6. (Scanned => MatchesFrom(at) = {})'
  BY <1>1, SameTexts DEF DirectiveState
<1>7. (pc = "exited" /\ code = 61
         => DirectiveTexts # {} /\ StyleOf(Min(DirectiveTexts)) = "CHECK-NEXT:")'
  BY SameTexts DEF DirectiveState
<1>8. QED
  BY <1>2, <1>4, <1>5, <1>6, <1>7 DEF DirectiveState

(* The first directive is a CHECK-NEXT.                                    *)
LEMMA DirectivesRefused ==
  ASSUME TypeOK, DirectiveState, NEW i \in MatchesFrom(at), \A j \in MatchesFrom(at) : i <= j,
         Unchained(Check(i))
  PROVE  DirectiveTexts # {} /\ StyleOf(Min(DirectiveTexts)) = "CHECK-NEXT:"
<1>1. i \in 1..Len(matchFile) /\ Matches(i)
  BY DEF MatchesFrom, TypeOK
<1>2. /\ TextAt(i) \in DirectiveTexts /\ TextAt(i) < MatchEnd(i)
      /\ \A q \in DirectiveTexts : q < at \/ q = TextAt(i) \/ q >= MatchEnd(i)
  BY NextDirective DEF DirectiveState
<1>3. \A q \in DirectiveTexts : ~(q < at)
  BY DEF DirectiveState, Unchained, InChains
<1>4. TextAt(i) \in Nat /\ MatchEnd(i) \in Nat
  BY <1>1, MatchHere
<1>5. DirectiveTexts \subseteq Nat
  BY DirectivesNat
<1>6. \A q \in DirectiveTexts : TextAt(i) <= q
  BY <1>2, <1>3, <1>4, <1>5
<1>7. Min(DirectiveTexts) = TextAt(i)
  <2>1. \A x \in DirectiveTexts : (\A y \in DirectiveTexts : x <= y) => x = TextAt(i)
    BY <1>2, <1>4, <1>5, <1>6
  <2>2. QED
    BY <1>2, <1>6, <2>1 DEF Min
<1>8. Check(i).at = TextAt(i) /\ Check(i).style = "CHECK-NEXT:"
  BY DEF Check, Unchained
<1>9. QED
  BY <1>1, <1>2, <1>7, <1>8, CheckAsItsLine

(* A directive is chained.                                                 *)
LEMMA DirectivesChained ==
  ASSUME TypeOK, DirectiveState, pc' = "scan", matchFile' = matchFile,
         NEW i \in MatchesFrom(at), \A j \in MatchesFrom(at) : i <= j,
         ~Unchained(Check(i)), Chained(Check(i)), Behind(i)
  PROVE  DirectiveState'
<1> DEFINE T == DirectiveTexts
<1>0. PICK c : c = Check(i)
  OBVIOUS
<1>1. i \in 1..Len(matchFile) /\ Matches(i)
  BY DEF MatchesFrom, TypeOK
<1>2. c \in Checks /\ c.at = TextAt(i) /\ c.text = LineFrom(c.at) /\ c.style = StyleOf(c.at)
  BY <1>0, <1>1, CheckHere, CheckAsItsLine
<1>3. /\ c.at \in T /\ at < c.at /\ c.at < at' /\ Char(at' - 1) = "nl"
      /\ \A q \in T : q < at \/ q = c.at \/ q >= at'
  BY <1>2, NextDirective DEF DirectiveState, Behind
<1>4. at \in Nat /\ c.at \in Nat /\ at' \in Nat /\ T \subseteq Nat
  <2>1. at \in Nat /\ c.at \in Nat /\ at' \in Nat
    BY <1>1, <1>2, MatchHere DEF TypeOK, Behind
  <2>2. T \subseteq Nat
    BY DirectivesNat
  <2>3. QED
    BY <2>1, <2>2
<1>5. PICK n \in Nat, k \in Nat : Added(n, k, c)
  <2>1. chains \in Seq(Seq(Checks)) /\ \A m \in DOMAIN chains : chains[m] # <<>>
    BY DEF TypeOK, DirectiveState, ChainsAsWritten
  <2>2. QED
    BY <1>0, <1>2, <2>1, ChainedBehind
<1>6. LineStart'
  BY <1>3, SameTexts DEF LineStart
<1>7. \A m \in DOMAIN chains : \A l \in DOMAIN chains[m] : AsWritten(chains[m][l], l)
  BY DEF DirectiveState, ChainsAsWritten
<1>8. \A m \in DOMAIN chains : \A l \in DOMAIN chains[m] :
        chains[m][l].at \in Nat /\ chains[m][l].at < at
  BY <1>4, <1>7 DEF AsWritten
<1>9. k <= c.at
  <2>1. CASE k = 1
    BY <1>3, <1>4, <2>1
  <2>2. CASE n \in DOMAIN chains /\ k - 1 \in DOMAIN chains[n]
    <3>1. k - 1 <= chains[n][k - 1].at
      BY <1>7, <2>2 DEF AsWritten
    <3>2. chains[n][k - 1].at \in Nat /\ chains[n][k - 1].at < at
      BY <1>8, <2>2
    <3>3. QED
      BY <1>3, <1>4, <3>1, <3>2
  <2>3. QED
    BY <1>5, <2>1, <2>2 DEF Added
<1>10. ChainsAsWritten'
  <2>1. AsWritten(c, k)'
    <3>1. c.style = "CHECK:" <=> k = 1
      BY <1>5 DEF Added
    <3>2. QED
      BY <1>2, <1>3, <1>9, <3>1, SameTexts DEF AsWritten
  <2>2. \A x, l : AsWritten(x, l) /\ x.at < at' => AsWritten(x, l)'
    BY SameTexts DEF AsWritten
  <2>3. \A m \in DOMAIN chains : \A l \in DOMAIN chains[m] : chains[m][l].at < at'
    BY <1>3, <1>4, <1>8
  <2>4. ASSUME NEW m \in DOMAIN chains', NEW l \in DOMAIN chains'[m],
               NEW x, x = chains'[m][l]
        PROVE  AsWritten(x, l)'
    <3>1. CASE m = n /\ l = k
      <4>1. x = c
        BY <1>5, <2>4, <3>1 DEF Added
      <4>2. QED
        BY <2>1, <3>1, <4>1
    <3>2. CASE ~(m = n /\ l = k)
      <4>1. m \in DOMAIN chains /\ l \in DOMAIN chains[m] /\ x = chains[m][l]
        BY <1>5, <2>4, <3>2 DEF Added
      <4>2. AsWritten(x, l) /\ x.at < at'
        BY <1>7, <2>3, <4>1
      <4>3. QED
        BY <2>2, <4>2
    <3>3. QED
      BY <3>1, <3>2
  <2>5. \A m \in DOMAIN chains' : chains'[m] # <<>>
    BY <1>5 DEF Added
  <2>6. \A m \in DOMAIN chains' : \A l \in DOMAIN chains'[m] : AsWritten(chains[m][l], l)'
    BY <2>4 DEF AsWritten
  <2>7. QED
    BY <2>5, <2>6 DEF ChainsAsWritten
<1>11. ChainsInOrder'
  <2>1. SUFFICES ASSUME NEW m \in DOMAIN chains', NEW o \in DOMAIN chains',
                        NEW l \in DOMAIN chains'[m], NEW r \in DOMAIN chains'[o],
                        Precedes(<<m, l>>, <<o, r>>)
                 PROVE  chains'[m][l].at < chains'[o][r].at
    BY DEF ChainsInOrder, Precedes
  <2>2. CASE o = n /\ r = k
    <3>1. ~(m = n /\ l = k)
      BY <1>5, <2>1, <2>2 DEF Precedes
    <3>2. m \in DOMAIN chains /\ l \in DOMAIN chains[m] /\ chains'[m][l] = chains[m][l]
      BY <1>5, <3>1 DEF Added
    <3>3. chains'[o][r] = c
      BY <1>5, <2>2 DEF Added
    <3>4. QED
      BY <1>3, <1>4, <1>8, <3>2, <3>3
  <2>3. CASE ~(o = n /\ r = k)
    <3>1. /\ o \in DOMAIN chains /\ r \in DOMAIN chains[o] /\ chains'[o][r] = chains[o][r]
          /\ Precedes(<<o, r>>, <<n, k>>)
      BY <1>5, <2>3 DEF Added
    <3>2. ~(m = n /\ l = k)
      <4>1. SUFFICES ASSUME m = n, l = k PROVE FALSE
        OBVIOUS
      <4>2. o \in Nat /\ r \in Nat
        <5>1. chains \in Seq(Seq(Checks))
          BY DEF TypeOK
        <5>2. chains[o] \in Seq(Checks)
          BY <3>1, <5>1
        <5>3. QED
          BY <3>1, <5>1, <5>2, LenProperties
      <4>3. QED
        BY <1>5, <2>1, <3>1, <4>1, <4>2 DEF Precedes
    <3>3. m \in DOMAIN chains /\ l \in DOMAIN chains[m] /\ chains'[m][l] = chains[m][l]
      BY <1>5, <3>2 DEF Added
    <3>4. QED
      BY <2>1, <3>1, <3>3 DEF DirectiveState, ChainsInOrder
  <2>4. QED
    BY <2>2, <2>3
<1>12. \A p \in T : p < at' => InChains(p)'
  <2>1. SUFFICES ASSUME NEW p \in T, p < at' PROVE InChains(p)'
    OBVIOUS
  <2>2. p < at \/ p = c.at
    BY <1>3, <1>4, <2>1
  <2>3. CASE p < at
    <3>1. InChains(p)
      BY <2>3 DEF DirectiveState
    <3>2. QED
      BY <1>5, <3>1 DEF InChains, Added
  <2>4. CASE p = c.at
    BY <1>5, <2>4 DEF InChains, Added
  <2>5. QED
    BY <2>2, <2>3, <2>4
<1>13. QED
  BY <1>6, <1>10, <1>11, <1>12, SameTexts DEF DirectiveState, Scanned

LEMMA DirectiveStep ==
  ASSUME TypeOK, ScanState, DirectiveState, [Next]_vars
  PROVE  DirectiveState'
<1> USE DEF Goto, Exit
<1>1. CASE FindDirective
  <2>1. PICK i \in MatchesFrom(at) :
          /\ \A j \in MatchesFrom(at) : i <= j
          /\ \/ Unchained(Check(i)) /\ Exit(61) /\ UNCHANGED found
             \/ ~Unchained(Check(i)) /\ Chained(Check(i)) /\ Behind(i) /\ UNCHANGED <<pc, code>>
    BY <1>1 DEF FindDirective
  <2>2. pc = "scan" /\ matchFile' = matchFile
    BY <1>1 DEF FindDirective
  <2>3. CASE Unchained(Check(i)) /\ Exit(61) /\ UNCHANGED found
    <3>1. DirectiveTexts # {} /\ StyleOf(Min(DirectiveTexts)) = "CHECK-NEXT:"
      BY <2>1, <2>3, DirectivesRefused
    <3>2. at' = at /\ chains' = chains /\ pc' = "exited" /\ code' = 61
      BY <2>3 DEF found
    <3>3. LineStart' = LineStart
      BY <2>2, <3>2, SameTexts DEF LineStart
    <3>4. \A c, k : AsWritten(c, k)' = AsWritten(c, k)
      BY <2>2, <3>2, SameTexts DEF AsWritten
    <3>5. ChainsAsWritten' /\ ChainsInOrder'
      BY <3>2, <3>4 DEF DirectiveState, ChainsAsWritten, ChainsInOrder, Precedes
    <3>6. (\A p \in DirectiveTexts : p < at => InChains(p))'
      BY <2>2, <3>2, SameTexts DEF DirectiveState, InChains
    <3>7. QED
      BY <2>2, <3>1, <3>2, <3>3, <3>5, <3>6, SameTexts DEF DirectiveState, Scanned
  <2>4. CASE ~Unchained(Check(i)) /\ Chained(Check(i)) /\ Behind(i) /\ UNCHANGED <<pc, code>>
    BY <2>1, <2>2, <2>4, DirectivesChained
  <2>5. QED
    BY <2>1, <2>3, <2>4
<1>2. CASE NoMoreDirectives
  <2>1. /\ pc' = "checks" /\ MatchesFrom(at) = {} /\ at' = at /\ chains' = chains
        /\ matchFile' = matchFile
    BY <1>2 DEF NoMoreDirectives, found
  <2>2. LineStart' = LineStart
    BY <2>1, SameTexts DEF LineStart
  <2>3. \A c, k : AsWritten(c, k)' = AsWritten(c, k)
    BY <2>1, SameTexts DEF AsWritten
  <2>4. ChainsAsWritten' /\ ChainsInOrder'
    BY <2>1, <2>3 DEF DirectiveState, ChainsAsWritten, ChainsInOrder, Precedes
  <2>5. (\A p \in DirectiveTexts : p < at => InChains(p))'
    BY <2>1, SameTexts DEF DirectiveState, InChains
  <2>6. QED
    BY <2>1, <2>2, <2>4, <2>5, SameTexts DEF DirectiveState
<1>3. CASE \/ NoArguments \/ InlineInput \/ InputOption \/ Verbose \/ OptionsEnd
           \/ ReadMatchFile \/ ReadInput
  <2>1. /\ pc \in BeforeScan /\ UNCHANGED found
        /\ pc' = "exited" => code' \in {127, 125, 63, 62}
        /\ pc' # "checks"
    BY <1>3 DEF NoArguments, InlineInput, InputOption, Verbose, OptionsEnd,
       ReadMatchFile, ReadInput, Reading, BeforeScan
  <2>2. at' = 1 /\ chains' = <<>>
    BY <2>1 DEF ScanState, found
  <2>3. TypeOK'
    BY TypeStep
  <2>4. (\A p \in DirectiveTexts : p < at => InChains(p))'
    <3>1. matchFile' \in Seq(Chars)
      BY <2>3 DEF TypeOK
    <3>2. \A p \in DOMAIN matchFile' : ~(p < 1)
      BY <3>1, LenProperties
    <3>3. DirectiveTexts' \subseteq DOMAIN matchFile'
      BY DEF DirectiveTexts, FirstOfLines, TextStarts
    <3>4. QED
      BY <2>2, <3>2, <3>3
  <2>5. LineStart' /\ ChainsAsWritten' /\ ChainsInOrder'
    BY <2>2 DEF LineStart, ChainsAsWritten, ChainsInOrder
  <2>6. QED
    BY <2>1, <2>4, <2>5 DEF DirectiveState, Scanned
<1>4. CASE RunCheck \/ NextChain \/ Return \/ UNCHANGED vars
  <2>1. matchFile' = matchFile /\ UNCHANGED found
    BY <1>4 DEF RunCheck, NextChain, Return, vars
  <2>2. Scanned' => Scanned
    BY <1>4 DEF RunCheck, NextChain, Return, vars, Scanned
  <2>3. pc' = "exited" /\ code' = 61 => pc = "exited" /\ code = 61
    BY <1>4 DEF RunCheck, NextChain, Return, vars
  <2>4. QED
    BY <2>1, <2>2, <2>3, DirectivesKept
<1>5. QED
  BY <1>1, <1>2, <1>3, <1>4 DEF Next

LEMMA DirectiveInit == Init => DirectiveState
<1> SUFFICES ASSUME Init PROVE DirectiveState
  OBVIOUS
<1>1. at = 1 /\ chains = <<>> /\ matchFile = <<>> /\ pc = "args"
  BY DEF Init
<1>2. DirectiveTexts = {}
  BY <1>1 DEF DirectiveTexts, FirstOfLines, TextStarts
<1>3. QED
  BY <1>1, <1>2 DEF DirectiveState, LineStart, ChainsAsWritten, ChainsInOrder, Scanned

LEMMA PlaceOf ==
  ASSUME TypeOK, DirectiveState
  PROVE  /\ \A n \in DOMAIN chains : \A k \in DOMAIN chains[n] : <<n, k>> \in Places
         /\ \A s \in Places : /\ s = <<s[1], s[2]>>
                              /\ s[1] \in DOMAIN chains /\ s[2] \in DOMAIN chains[s[1]]
<1>1. ASSUME NEW n \in DOMAIN chains, NEW k \in DOMAIN chains[n]
      PROVE  <<n, k>> \in Places
  <2>1. k \in Nat /\ k >= 1
    <3>1. chains \in Seq(Seq(Checks))
      BY DEF TypeOK
    <3>2. chains[n] \in Seq(Checks)
      BY <3>1
    <3>3. QED
      BY <3>2, LenProperties
  <2>2. k <= chains[n][k].at /\ chains[n][k].at \in DirectiveTexts
    BY DEF DirectiveState, ChainsAsWritten, AsWritten
  <2>3. chains[n][k].at \in 1..Len(matchFile) /\ Len(matchFile) \in Nat
    BY <2>2, LenProperties, ZenonT(60) DEF TypeOK, DirectiveTexts, FirstOfLines, TextStarts
  <2>4. k \in 1..Len(matchFile)
    BY <2>1, <2>2, <2>3
  <2>5. QED
    BY <2>4 DEF Places
<1>2. QED
  BY <1>1 DEF Places

LEMMA DirectivesFound ==
  ASSUME TypeOK, DirectiveState
  PROVE  DirectivesExact /\ NextNeedsCheck
<1>1. ASSUME NEW s \in Places
      PROVE  /\ CheckAt(s).at \in DirectiveTexts
             /\ CheckAt(s).text = LineFrom(CheckAt(s).at)
             /\ CheckAt(s).style = "CHECK:" <=> s[2] = 1
             /\ CheckAt(s).style = StyleOf(CheckAt(s).at)
  BY PlaceOf DEF CheckAt, DirectiveState, ChainsAsWritten, AsWritten
<1>2. ASSUME NEW s \in Places, NEW t \in Places, Precedes(s, t)
      PROVE  CheckAt(s).at < CheckAt(t).at
  <2>1. Precedes(<<s[1], s[2]>>, <<t[1], t[2]>>)
    BY <1>2 DEF Precedes
  <2>2. QED
    BY <2>1, PlaceOf DEF CheckAt, DirectiveState, ChainsInOrder
<1>3. ASSUME Scanned, NEW p \in DirectiveTexts
      PROVE  p < at /\ \E s \in Places : CheckAt(s).at = p
  <2>1. p < at
    BY <1>3, NoDirectiveLeft DEF DirectiveState
  <2>2. PICK n \in DOMAIN chains : \E k \in DOMAIN chains[n] : chains[n][k].at = p
    BY <2>1 DEF DirectiveState, InChains
  <2>3. PICK k \in DOMAIN chains[n] : chains[n][k].at = p
    BY <2>2
  <2>4. <<n, k>> \in Places /\ CheckAt(<<n, k>>).at = p
    BY <2>3, PlaceOf DEF CheckAt
  <2>5. QED
    BY <2>1, <2>4
<1>4. DirectivesExact
  <2>1. Scanned => {CheckAt(s).at : s \in Places} = DirectiveTexts
    BY <1>1, <1>3
  <2>2. QED
    BY <1>1, <1>2, <2>1 DEF DirectivesExact, Scanned
<1>5. NextNeedsCheck
  <2>1. SUFFICES ASSUME pc = "exited", code \in {0, 1}, DirectiveTexts # {},
                        StyleOf(Min(DirectiveTexts)) = "CHECK-NEXT:"
                 PROVE  FALSE
    BY DEF NextNeedsCheck, DirectiveState
  <2> DEFINE p == Min(DirectiveTexts)
  <2>2. p \in DirectiveTexts /\ p \in Nat /\ \A q \in DirectiveTexts : p <= q
    BY <2>1, DirectivesNat, MinIsLeast
  <2> HIDE DEF p
  <2>3. PICK s \in Places : CheckAt(s).at = p
    BY <1>3, <2>1, <2>2 DEF Scanned
  <2>4. s[2] # 1
    BY <1>1, <2>1, <2>3 DEF p
  <2>5. s[1] \in DOMAIN chains /\ s[2] \in DOMAIN chains[s[1]] /\ chains[s[1]] \in Seq(Checks)
    BY PlaceOf DEF TypeOK
  <2>6. 1 \in DOMAIN chains[s[1]] /\ 1 < s[2]
    BY <2>4, <2>5, LenProperties
  <2> DEFINE t == <<s[1], 1>>
  <2>7. t \in Places /\ Precedes(t, s)
    BY <2>5, <2>6, PlaceOf DEF Precedes
  <2>8. CheckAt(t).at < p /\ CheckAt(t).at \in DirectiveTexts
    BY <1>1, <1>2, <2>3, <2>7
  <2>9. CheckAt(t).at \in Nat
    BY <2>8, DirectivesNat
  <2>10. QED
    BY <2>2, <2>8, <2>9
<1>6. QED
  BY <1>4, <1>5

(* The checks are the directives of the match file, one for each of its    *)
(* lines that hold one, in their order, chained as CHECK-NEXT says.        *)
THEOREM DirectivesAreExact == Spec => []DirectivesExact
<1>1. TypeOK /\ ScanState /\ [Next]_vars => (TypeOK /\ ScanState)'
  BY TypeStep
<1>2. TypeOK /\ ScanState /\ DirectiveState /\ [Next]_vars => DirectiveState'
  BY DirectiveStep
<1>3. TypeOK /\ DirectiveState => DirectivesExact
  BY DirectivesFound
<1>4. QED
  BY <1>1, <1>2, <1>3, TypeInit, DirectiveInit, PTL DEF Spec

(* A match file is refused exactly when its first directive is a           *)
(* CHECK-NEXT.                                                             *)
THEOREM RefusalIsExact == Spec => []NextNeedsCheck
<1>1. TypeOK /\ ScanState /\ [Next]_vars => (TypeOK /\ ScanState)'
  BY TypeStep
<1>2. TypeOK /\ ScanState /\ DirectiveState /\ [Next]_vars => DirectiveState'
  BY DirectiveStep
<1>3. TypeOK /\ DirectiveState => NextNeedsCheck
  BY DirectivesFound
<1>4. QED
  BY <1>1, <1>2, <1>3, TypeInit, DirectiveInit, PTL DEF Spec

-----------------------------------------------------------------------------
(* The tool ends: what it has left falls with every step.                  *)

(* The arguments, the match file behind the last match, or the chains and  *)
(* the checks of the current one, whichever the tool goes through now.     *)
ChecksLeft == IF chain <= Len(chains) THEN Len(chains[chain]) + 1 - check ELSE 0
StepsLeft ==
  CASE pc = "args"       -> <<5, Len(command) + 2 - arg, 0>>
    [] pc = "match_file" -> <<4, 0, 0>>
    [] pc = "input_file" -> <<3, 0, 0>>
    [] pc = "scan"       -> <<2, Len(matchFile) + 1 - at, 0>>
    [] pc = "checks"     -> <<1, Len(chains) + 1 - chain, ChecksLeft>>
    [] OTHER             -> <<0, 0, 0>>
Lower(x, y) == \E k \in 1..3 : x[k] < y[k] /\ \A j \in 1..(k - 1) : x[j] = y[j]
EachStepNearsTheEnd ==
  [][/\ {StepsLeft, StepsLeft'} \subseteq Nat \X Nat \X Nat
     /\ Lower(StepsLeft', StepsLeft)]_vars

WithinBounds ==
  /\ pc = "args" => arg <= Len(command) + 2
  /\ pc = "checks" => /\ chain <= Len(chains) + 1
                      /\ chain <= Len(chains) => check <= Len(chains[chain]) + 1

LEMMA LowerAt ==
  ASSUME NEW a, NEW b, NEW d, NEW x, NEW y, NEW z,
         a < x \/ (a = x /\ b < y) \/ (a = x /\ b = y /\ d < z)
  PROVE  Lower(<<a, b, d>>, <<x, y, z>>)
<1> DEFINE p == <<a, b, d>>
           q == <<x, y, z>>
<1>1. p[1] = a /\ p[2] = b /\ p[3] = d /\ q[1] = x /\ q[2] = y /\ q[3] = z
  OBVIOUS
<1>2. 1..(1 - 1) = {} /\ 1..(2 - 1) = {1} /\ 1..(3 - 1) = {1, 2} /\ {1, 2, 3} \subseteq 1..3
  OBVIOUS
<1> HIDE DEF p, q
<1>3. Lower(p, q)
  <2>1. CASE a < x
    BY <1>1, <1>2, <2>1 DEF Lower
  <2>2. CASE a = x /\ b < y
    BY <1>1, <1>2, <2>2 DEF Lower
  <2>3. CASE a = x /\ b = y /\ d < z
    BY <1>1, <1>2, <2>3 DEF Lower
  <2> QED BY <2>1, <2>2, <2>3
<1> QED BY <1>3 DEF p, q

LEMMA LeftType ==
  TypeOK /\ ScanState /\ WithinBounds => StepsLeft \in Nat \X Nat \X Nat
<1>1. SUFFICES ASSUME TypeOK, ScanState, WithinBounds
               PROVE  StepsLeft \in Nat \X Nat \X Nat
  OBVIOUS
<1>2. /\ Len(command) \in Nat /\ Len(matchFile) \in Nat /\ Len(chains) \in Nat
      /\ chain \in Nat /\ check \in Nat /\ at \in Nat /\ arg \in Nat
  BY <1>1, LenProperties DEF TypeOK
<1>3. pc = "args" => Len(command) + 2 - arg \in Nat
  BY <1>1, <1>2 DEF WithinBounds
<1>4. Len(matchFile) + 1 - at \in Nat
  BY <1>1, <1>2 DEF TypeOK
<1>5. pc = "checks" => Len(chains) + 1 - chain \in Nat
  BY <1>1, <1>2 DEF WithinBounds
<1>6. pc = "checks" => ChecksLeft \in Nat
  <2>1. ASSUME pc = "checks", chain <= Len(chains)
        PROVE  Len(chains[chain]) + 1 - check \in Nat
    <3>1. chain \in 1..Len(chains)
      BY <1>1, <1>2, <2>1 DEF ScanState
    <3>2. chains[chain] \in Seq(Checks)
      BY <1>1, <3>1, ElementOfSeq DEF TypeOK
    <3>3. Len(chains[chain]) \in Nat
      BY <3>2, LenProperties
    <3> QED BY <1>1, <1>2, <2>1, <3>3 DEF WithinBounds
  <2> QED BY <2>1 DEF ChecksLeft
<1> QED BY <1>3, <1>4, <1>5, <1>6 DEF StepsLeft

LEMMA LeftTypeNext ==
  (TypeOK /\ ScanState /\ WithinBounds)' => (StepsLeft \in Nat \X Nat \X Nat)'
BY LeftType, PTL

(* A match ends behind where the search for it began.                      *)
LEMMA SearchGoesOn ==
  ASSUME TypeOK, FindDirective
  PROVE  \/ pc' = "exited"
         \/ pc' = "scan" /\ at' > at /\ UNCHANGED matchFile
<1>1. PICK i \in MatchesFrom(at) :
        \/ Exit(61) /\ UNCHANGED found
        \/ Behind(i) /\ UNCHANGED <<pc, code>>
  BY DEF FindDirective
<1>2. i \in 1..Len(matchFile) /\ Matches(i) /\ i >= at
  BY <1>1 DEF MatchesFrom, TypeOK
<1>3. /\ i < TextAt(i) /\ TextAt(i) < TextEnd(i) /\ TextEnd(i) < MatchEnd(i)
      /\ TextAt(i) \in Nat /\ TextEnd(i) \in Nat /\ MatchEnd(i) \in Nat
  BY <1>2, MatchHere
<1>4. MatchEnd(i) > at
  BY <1>2, <1>3 DEF TypeOK
<1> QED BY <1>1, <1>4 DEF Exit, Behind, FindDirective

LEMMA BoundsStep ==
  TypeOK /\ ScanState /\ TypeOK' /\ WithinBounds /\ [Next]_vars => WithinBounds'
<1> SUFFICES ASSUME TypeOK, ScanState, TypeOK', WithinBounds, [Next]_vars PROVE WithinBounds'
  OBVIOUS
<1> USE DEF Goto, Exit, given, found, search
<1>1. /\ Len(command) \in Nat /\ Len(chains) \in Nat /\ chain \in Nat /\ check \in Nat
      /\ arg \in Nat /\ chain >= 1
  BY LenProperties DEF TypeOK, ScanState
<1>2. CASE UNCHANGED vars
  BY <1>2 DEF vars, WithinBounds
<1>3. CASE NoArguments \/ OptionsEnd \/ ReadMatchFile \/ ReadInput \/ Return
  BY <1>3 DEF NoArguments, OptionsEnd, ReadMatchFile, ReadInput, Return, WithinBounds
<1>4. CASE InlineInput \/ InputOption \/ Verbose
  BY <1>1, <1>4 DEF InlineInput, InputOption, Verbose, Reading, WithinBounds
<1>5. CASE FindDirective
  BY <1>5, SearchGoesOn DEF WithinBounds
<1>6. CASE NoMoreDirectives
  <2>1. pc' = "checks" /\ chain' = 1 /\ check' = 1 /\ chains' = chains
    BY <1>6 DEF NoMoreDirectives, ScanState
  <2>2. 1 <= Len(chains) => Len(chains[1]) \in Nat
    <3>1. 1 <= Len(chains) => chains[1] \in Seq(Checks)
      BY <1>1, ElementOfSeq, SMTT(30) DEF TypeOK
    <3> QED BY <3>1, LenProperties
  <2> QED BY <1>1, <2>1, <2>2 DEF WithinBounds
<1>7. CASE RunCheck
  <2>1. /\ pc = "checks" /\ chain <= Len(chains) /\ check <= Len(chains[chain])
        /\ chain' = chain /\ chains' = chains /\ check' \in {check, check + 1}
        /\ pc' \in {"checks", "exited"}
    BY <1>7 DEF RunCheck
  <2>2. chains[chain] \in Seq(Checks)
    BY <1>1, <2>1, ElementOfSeq, SMTT(30) DEF TypeOK
  <2>3. Len(chains[chain]) \in Nat
    BY <2>2, LenProperties
  <2>4. check' <= Len(chains'[chain']) + 1 /\ chain' <= Len(chains') + 1
    BY <1>1, <2>1, <2>3
  <2> QED BY <2>1, <2>4 DEF WithinBounds
<1>8. CASE NextChain
  <2>1. /\ pc = "checks" /\ pc' = "checks" /\ chain <= Len(chains)
        /\ chain' = chain + 1 /\ check' = 1 /\ chains' = chains
    BY <1>8 DEF NextChain, FollowingChain
  <2>2. chain + 1 <= Len(chains) => Len(chains[chain + 1]) \in Nat
    <3>1. chain + 1 <= Len(chains) => chains[chain + 1] \in Seq(Checks)
      BY <1>1, ElementOfSeq, SMTT(30) DEF TypeOK
    <3> QED BY <3>1, LenProperties
  <2>3. chain' <= Len(chains') + 1
    BY <1>1, <2>1
  <2>4. chain' <= Len(chains') => check' <= Len(chains'[chain']) + 1
    BY <2>1, <2>2
  <2> QED BY <2>1, <2>3, <2>4 DEF WithinBounds
<1> QED BY <1>2, <1>3, <1>4, <1>5, <1>6, <1>7, <1>8 DEF Next

LEMMA StepLowers ==
  ASSUME TypeOK, ScanState, WithinBounds, Next
  PROVE  Lower(StepsLeft', StepsLeft)
<1> USE DEF Goto, Exit, given, found, search
<1>1. /\ Len(command) \in Nat /\ Len(matchFile) \in Nat /\ Len(chains) \in Nat
      /\ chain \in Nat /\ check \in Nat /\ arg \in Nat /\ at \in Nat
  BY LenProperties DEF TypeOK
<1>2. CASE pc' = "exited" /\ pc # "exited"
  <2>1. StepsLeft' = <<0, 0, 0>>
    BY <1>2 DEF StepsLeft
  <2>2. ASSUME NEW x \in 1..5, NEW y, NEW z PROVE Lower(<<0, 0, 0>>, <<x, y, z>>)
    <3>1. 0 < x
      BY <2>2
    <3> QED BY <3>1, LowerAt, Zenon
  <2>3. pc \in {"args", "match_file", "input_file", "scan", "checks"}
    BY <1>2 DEF TypeOK
  <2>4. /\ pc = "args" => StepsLeft = <<5, Len(command) + 2 - arg, 0>>
        /\ pc = "match_file" => StepsLeft = <<4, 0, 0>>
        /\ pc = "input_file" => StepsLeft = <<3, 0, 0>>
        /\ pc = "scan" => StepsLeft = <<2, Len(matchFile) + 1 - at, 0>>
        /\ pc = "checks" => StepsLeft = <<1, Len(chains) + 1 - chain, ChecksLeft>>
    BY DEF StepsLeft
  <2> QED BY <2>1, <2>2, <2>3, <2>4
<1>3. CASE (InlineInput \/ InputOption \/ Verbose) /\ pc' # "exited"
  <2>1. pc = "args" /\ pc' = "args" /\ command' = command /\ arg' \in {arg + 1, arg + 2}
    BY <1>3 DEF InlineInput, InputOption, Verbose, Reading
  <2>2. Len(command') + 2 - arg' < Len(command) + 2 - arg
    BY <1>1, <2>1
  <2>3. /\ StepsLeft  = <<5, Len(command) + 2 - arg, 0>>
        /\ StepsLeft' = <<5, Len(command') + 2 - arg', 0>>
    BY <2>1 DEF StepsLeft
  <2> QED BY <2>2, <2>3, LowerAt
<1>4. CASE (OptionsEnd \/ ReadMatchFile \/ ReadInput \/ NoMoreDirectives) /\ pc' # "exited"
  <2>1. \/ pc = "args" /\ pc' = "match_file"
        \/ pc = "match_file" /\ pc' = "input_file"
        \/ pc = "input_file" /\ pc' = "scan"
        \/ pc = "scan" /\ pc' = "checks"
    BY <1>4 DEF OptionsEnd, ReadMatchFile, ReadInput, NoMoreDirectives
  <2>2. \E x \in 2..5 : \E y, z, v, w : StepsLeft = <<x, y, z>> /\ StepsLeft' = <<x - 1, v, w>>
    BY <2>1 DEF StepsLeft
  <2>3. PICK x \in 2..5 : \E y, z, v, w : StepsLeft = <<x, y, z>> /\ StepsLeft' = <<x - 1, v, w>>
    BY <2>2
  <2>4. x - 1 < x
    OBVIOUS
  <2> QED BY <2>3, <2>4, LowerAt
<1>5. CASE FindDirective /\ pc' # "exited"
  <2>1. pc = "scan" /\ pc' = "scan" /\ at' > at /\ at' \in Nat /\ matchFile' = matchFile
    BY <1>5, SearchGoesOn, TypeStep DEF FindDirective, TypeOK
  <2>2. Len(matchFile') + 1 - at' < Len(matchFile) + 1 - at
    BY <1>1, <2>1
  <2>3. /\ StepsLeft  = <<2, Len(matchFile) + 1 - at, 0>>
        /\ StepsLeft' = <<2, Len(matchFile') + 1 - at', 0>>
    BY <2>1 DEF StepsLeft
  <2> QED BY <2>2, <2>3, LowerAt
<1>6. CASE (RunCheck \/ NextChain) /\ pc' # "exited"
  <2>1. /\ pc = "checks" /\ pc' = "checks" /\ chain <= Len(chains) /\ chains' = chains
        /\ \/ chain' = chain /\ check' = check + 1
           \/ chain' = chain + 1
    BY <1>6 DEF RunCheck, NextChain, FollowingChain
  <2>2. /\ StepsLeft  = <<1, Len(chains) + 1 - chain, ChecksLeft>>
        /\ StepsLeft' = <<1, Len(chains') + 1 - chain', ChecksLeft'>>
    BY <2>1 DEF StepsLeft
  <2>3. CASE chain' = chain + 1
    <3>1. Len(chains') + 1 - chain' < Len(chains) + 1 - chain
      BY <1>1, <2>1, <2>3
    <3> QED BY <2>2, <3>1, LowerAt
  <2>4. CASE chain' = chain /\ check' = check + 1
    <3>1. Len(chains[chain]) \in Nat
      <4>1. chain \in 1..Len(chains)
        BY <1>1, <2>1 DEF ScanState
      <4>2. chains[chain] \in Seq(Checks)
        BY <4>1, ElementOfSeq DEF TypeOK
      <4> QED BY <4>2, LenProperties
    <3>2. ChecksLeft' < ChecksLeft
      <4>1. /\ ChecksLeft = Len(chains[chain]) + 1 - check
            /\ ChecksLeft' = Len(chains[chain]) + 1 - (check + 1)
        BY <2>1, <2>4 DEF ChecksLeft
      <4>2. \A n, k \in Nat : n + 1 - (k + 1) < n + 1 - k
        OBVIOUS
      <4> QED BY <1>1, <3>1, <4>1, <4>2, Zenon
    <3>3. Len(chains') + 1 - chain' = Len(chains) + 1 - chain
      BY <2>1, <2>4
    <3> QED BY <2>2, <3>2, <3>3, LowerAt
  <2> QED BY <2>1, <2>3, <2>4
<1>7. CASE NoArguments \/ Return
  <2>1. pc' = "exited" /\ pc # "exited"
    BY <1>7 DEF NoArguments, Return
  <2> QED BY <1>2, <2>1
<1>8. Next => pc # "exited"
  BY DEF Next, NoArguments, InlineInput, InputOption, Verbose, OptionsEnd, Reading, ReadMatchFile,
     ReadInput, FindDirective, NoMoreDirectives, RunCheck, NextChain, Return
<1> QED BY <1>2, <1>3, <1>4, <1>5, <1>6, <1>7, <1>8 DEF Next

(* Whatever its arguments and files are, the tool takes finitely many      *)
(* steps: each leaves it fewer arguments, less of the match file, fewer    *)
(* chains or fewer checks, and a match is never empty, so that no scan     *)
(* finds one directive for ever (main.cpp:171-235).                        *)
THEOREM ToolTerminates == Spec => EachStepNearsTheEnd
<1>1. TypeOK /\ ScanState /\ [Next]_vars => (TypeOK /\ ScanState)'
  BY TypeStep
<1>2. Init => WithinBounds
  <2>1. ASSUME Init PROVE pc = "args" /\ arg = 2 /\ Len(command) \in Nat
    BY <2>1, TypeInit, LenProperties DEF Init, TypeOK
  <2> QED BY <2>1 DEF WithinBounds
<1>3. TypeOK /\ ScanState /\ WithinBounds /\ (TypeOK /\ ScanState /\ WithinBounds)' /\ [Next]_vars
        => [/\ {StepsLeft, StepsLeft'} \subseteq Nat \X Nat \X Nat
            /\ Lower(StepsLeft', StepsLeft)]_vars
  <2>1. SUFFICES ASSUME TypeOK, ScanState, WithinBounds,
                        (TypeOK /\ ScanState /\ WithinBounds)', Next, vars' # vars
                 PROVE  /\ {StepsLeft, StepsLeft'} \subseteq Nat \X Nat \X Nat
                        /\ Lower(StepsLeft', StepsLeft)
    OBVIOUS
  <2>2. StepsLeft \in Nat \X Nat \X Nat /\ StepsLeft' \in Nat \X Nat \X Nat
    BY <2>1, LeftType, LeftTypeNext
  <2> QED BY <2>1, <2>2, StepLowers
<1> QED BY <1>1, <1>2, <1>3, TypeInit, BoundsStep, PTL DEF Spec, EachStepNearsTheEnd
=============================================================================
