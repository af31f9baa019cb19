----------------------------- MODULE Lab8Proofs -----------------------------
(***************************************************************************)
(* Proofs about Lab8Session, for any number of clients, any lines they are *)
(* given and any tree of directories.                                      *)
(***************************************************************************)
EXTENDS Lab8Session, FiniteSetTheorems, SequenceTheorems, TLAPS

-----------------------------------------------------------------------------
(***************************************************************************)
(* Lemmas about counting the items of a stream.                            *)
(***************************************************************************)

\* A stream has finitely many positions.
LEMMA CountType ==
  ASSUME NEW T, NEW s \in Seq(T), NEW S
  PROVE  IsFiniteSet(Positions(s, S)) /\ Count(s, S) \in Nat
<1>1. DOMAIN s = 1 .. Len(s) /\ Len(s) \in Nat
  OBVIOUS
<1>2. IsFiniteSet(1 .. Len(s))
  BY <1>1, FS_Interval
<1>3. Positions(s, S) \in SUBSET (1 .. Len(s))
  BY <1>1 DEF Positions
<1>4. IsFiniteSet(Positions(s, S))
  BY <1>2, <1>3, FS_Subset
<1>5. QED
  BY <1>4, FS_CardinalityType DEF Count

LEMMA CountEmpty == \A S : Count(<<>>, S) = 0
<1>1. \A S : Positions(<<>>, S) = {}
  BY DEF Positions
<1>2. QED
  BY <1>1, FS_EmptySet DEF Count

LEMMA CountOne ==
  ASSUME NEW x, NEW S
  PROVE  Count(<<x>>, S) = IF x \in S THEN 1 ELSE 0
<1>1. DOMAIN <<x>> = {1} /\ <<x>>[1] = x
  OBVIOUS
<1>2. CASE x \in S
  <2>1. Positions(<<x>>, S) = {1}
    BY <1>1, <1>2 DEF Positions
  <2>2. QED
    BY <1>2, <2>1, FS_Singleton DEF Count
<1>3. CASE x \notin S
  <2>1. Positions(<<x>>, S) = {}
    BY <1>1, <1>3 DEF Positions
  <2>2. QED
    BY <1>3, <2>1, FS_EmptySet DEF Count
<1>4. QED
  BY <1>2, <1>3

\* Two streams, one after the other: the positions in the second are shifted.
LEMMA CountConcat ==
  ASSUME NEW T, NEW s \in Seq(T), NEW t \in Seq(T), NEW S
  PROVE  Count(s \o t, S) = Count(s, S) + Count(t, S)
<1> DEFINE n == Len(s)
           m == Len(t)
           P == Positions(s, S)
           Q == Positions(t, S)
           R == {i + n : i \in Q}
           f == [i \in Q |-> i + n]
<1>1. /\ n \in Nat /\ m \in Nat /\ DOMAIN s = 1 .. n /\ DOMAIN t = 1 .. m
      /\ DOMAIN (s \o t) = 1 .. n + m
  BY ConcatProperties, LenProperties
<1>2. /\ \A i \in 1 .. n : (s \o t)[i] = s[i]
      /\ \A i \in 1 .. m : (s \o t)[i + n] = t[i]
  BY <1>1
<1>3. P \subseteq 1 .. n /\ Q \subseteq 1 .. m
  BY <1>1 DEF Positions
<1>4. Positions(s \o t, S) = P \cup R
  <2>1. ASSUME NEW i \in Positions(s \o t, S)
        PROVE  i \in P \cup R
    <3>1. i \in 1 .. n + m /\ (s \o t)[i] \in S
      BY <1>1 DEF Positions
    <3>2. CASE i \in 1 .. n
      BY <1>1, <1>2, <3>1, <3>2 DEF Positions
    <3>3. CASE i \notin 1 .. n
      <4>1. i - n \in 1 .. m /\ (i - n) + n = i
        BY <1>1, <3>1, <3>3
      <4>2. i - n \in Q
        BY <1>1, <1>2, <3>1, <4>1 DEF Positions
      <4>3. QED
        BY <4>1, <4>2
    <3>4. QED
      BY <3>2, <3>3
  <2>2. ASSUME NEW i \in P
        PROVE  i \in Positions(s \o t, S)
    BY <1>1, <1>2, <1>3 DEF Positions
  <2>3. ASSUME NEW i \in Q
        PROVE  i + n \in Positions(s \o t, S)
    <3>1. i \in 1 .. m /\ t[i] \in S
      BY <1>1 DEF Positions
    <3>2. i + n \in 1 .. n + m
      BY <1>1, <3>1
    <3>3. QED
      BY <1>1, <1>2, <3>1, <3>2 DEF Positions
  <2>4. QED
    BY <2>1, <2>2, <2>3
<1>5. P \cap R = {}
  <2>1. \A i \in Q : i + n \notin 1 .. n
    BY <1>1, <1>3
  <2>2. QED
    BY <1>3, <2>1
<1>6. IsFiniteSet(P) /\ IsFiniteSet(Q) /\ Cardinality(P) \in Nat /\ Cardinality(Q) \in Nat
  BY CountType DEF Count
<1>7. IsFiniteSet(R) /\ Cardinality(R) = Cardinality(Q)
  <2>1. f \in Bijection(Q, R)
    <3>1. \A i, j \in Q : i + n = j + n => i = j
      BY <1>1, <1>3
    <3>2. f \in Injection(Q, R)
      BY <3>1 DEF Injection, IsInjective
    <3>3. f \in Surjection(Q, R)
      BY DEF Surjection
    <3>4. QED
      BY <3>2, <3>3 DEF Bijection
  <2>2. ExistsBijection(Q, R)
    BY <2>1 DEF ExistsBijection
  <2>3. QED
    BY <1>6, <2>2, FS_Bijection
<1> HIDE DEF P, Q, R
<1>8. Cardinality(P \cup R) = Cardinality(P) + Cardinality(R)
  <2>1. Cardinality(P \cup R) = Cardinality(P) + Cardinality(R) - Cardinality(P \cap R)
    BY <1>6, <1>7, FS_Union
  <2>2. Cardinality(P \cap R) = 0
    BY <1>5, FS_EmptySet
  <2>3. QED
    BY <1>6, <1>7, <2>1, <2>2
<1>9. QED
  BY <1>4, <1>7, <1>8 DEF Count, P, Q

LEMMA CountAppend ==
  ASSUME NEW T, NEW s \in Seq(T), NEW x \in T, NEW S
  PROVE  Count(Append(s, x), S) = Count(s, S) + IF x \in S THEN 1 ELSE 0
<1>1. Append(s, x) = s \o <<x>> /\ <<x>> \in Seq(T)
  BY AppendIsConcat
<1>2. Count(s \o <<x>>, S) = Count(s, S) + Count(<<x>>, S)
  BY <1>1, CountConcat
<1>3. Count(<<x>>, S) = IF x \in S THEN 1 ELSE 0
  BY CountOne
<1>4. QED
  BY <1>1, <1>2, <1>3

LEMMA CountTail ==
  ASSUME NEW T, NEW s \in Seq(T), s # <<>>, NEW S
  PROVE  Count(s, S) = Count(Tail(s), S) + IF Head(s) \in S THEN 1 ELSE 0
<1>1. /\ Head(s) \in T /\ Tail(s) \in Seq(T) /\ <<Head(s)>> \in Seq(T)
      /\ s = <<Head(s)>> \o Tail(s)
  OBVIOUS
<1>2. Count(s, S) = Count(<<Head(s)>>, S) + Count(Tail(s), S)
  <2> DEFINE first == <<Head(s)>>
             rest == Tail(s)
  <2>1. first \in Seq(T) /\ rest \in Seq(T) /\ s = first \o rest
    BY <1>1
  <2> HIDE DEF first, rest
  <2>2. Count(first \o rest, S) = Count(first, S) + Count(rest, S)
    BY <2>1, CountConcat
  <2>3. Count(s, S) = Count(first, S) + Count(rest, S)
    BY <2>1, <2>2
  <2>4. QED
    BY <2>3 DEF first, rest
<1>3. Count(<<Head(s)>>, S) = IF Head(s) \in S THEN 1 ELSE 0
  BY CountOne
<1>4. Count(Tail(s), S) \in Nat
  BY <1>1, CountType
<1>5. QED
  BY <1>2, <1>3, <1>4

\* Nothing is counted if and only if there is nothing to count.
LEMMA CountZero ==
  ASSUME NEW T, NEW s \in Seq(T), NEW S
  PROVE  Count(s, S) = 0 <=> \A x \in Range(s) : x \notin S
<1>1. Count(s, S) = 0 <=> Positions(s, S) = {}
  BY CountType, FS_EmptySet DEF Count
<1>2. QED
  BY <1>1 DEF Positions, Range

\* One more item, one item less: which items there are.
LEMMA RangeAppend ==
  ASSUME NEW T, NEW s \in Seq(T), NEW x \in T
  PROVE  Range(Append(s, x)) = Range(s) \cup {x}
<1>1. /\ Len(s) \in Nat /\ DOMAIN s = 1 .. Len(s)
      /\ DOMAIN Append(s, x) = 1 .. Len(s) + 1
      /\ \A i \in 1 .. Len(s) : Append(s, x)[i] = s[i]
      /\ Append(s, x)[Len(s) + 1] = x
  OBVIOUS
<1>2. ASSUME NEW i \in DOMAIN Append(s, x)
      PROVE  Append(s, x)[i] \in Range(s) \cup {x}
  BY <1>1 DEF Range
<1>3. ASSUME NEW i \in DOMAIN s
      PROVE  i \in DOMAIN Append(s, x) /\ Append(s, x)[i] = s[i]
  BY <1>1
<1>4. Len(s) + 1 \in DOMAIN Append(s, x)
  BY <1>1
<1>5. QED
  BY <1>1, <1>2, <1>3, <1>4 DEF Range

LEMMA RangeTail ==
  ASSUME NEW T, NEW s \in Seq(T), s # <<>>
  PROVE  Head(s) \in Range(s) /\ Range(Tail(s)) \subseteq Range(s)
<1>1. /\ Len(s) \in Nat \ {0} /\ DOMAIN s = 1 .. Len(s) /\ Head(s) = s[1]
      /\ DOMAIN Tail(s) = 1 .. Len(s) - 1
      /\ \A i \in 1 .. Len(s) - 1 : Tail(s)[i] = s[i + 1]
  OBVIOUS
<1>2. 1 \in DOMAIN s
  BY <1>1
<1>3. ASSUME NEW i \in DOMAIN Tail(s)
      PROVE  i + 1 \in DOMAIN s /\ Tail(s)[i] = s[i + 1]
  BY <1>1
<1>4. QED
  BY <1>1, <1>2, <1>3 DEF Range

-----------------------------------------------------------------------------
(***************************************************************************)
(* Lemmas about commands, lines and answers.                               *)
(***************************************************************************)
\* A line ends an answer if it is a prompt, for the client, or BYE.
LEMMA LinesAre ==
  /\ Text \in Lines /\ TextGt \in Lines /\ Bye \in Lines /\ \A dir \in Paths : Prompt(dir) \in Lines
  /\ Text # TextGt /\ Text # Bye /\ TextGt # Bye
  /\ \A dir : /\ Prompt(dir) \notin {Text, TextGt, Bye}
              /\ Prompt(dir).kind = "prompt"
              /\ IsPrompt(Prompt(dir))
  /\ Text.kind # "prompt" /\ TextGt.kind # "prompt" /\ Bye.kind # "prompt"
  /\ ~IsPrompt(Text) /\ IsPrompt(TextGt) /\ ~IsPrompt(Bye)
  /\ \A line \in Lines : /\ line # Text <=> IsPrompt(line) \/ line = Bye
                         /\ IsPrompt(line) /\ line # TextGt => line.kind = "prompt"
<1>1. /\ Text \in Lines /\ TextGt \in Lines /\ Bye \in Lines
      /\ \A dir \in Paths : Prompt(dir) \in Lines
  BY DEF Lines
<1>2. Text.kind = "text" /\ TextGt.kind = "textGt" /\ Bye.kind = "BYE"
      /\ \A dir : Prompt(dir).kind = "prompt"
  BY DEF Text, TextGt, Bye, Prompt, Line
<1>3. /\ Text # TextGt /\ Text # Bye /\ TextGt # Bye
      /\ \A dir : Prompt(dir) # Text /\ Prompt(dir) # TextGt /\ Prompt(dir) # Bye
  BY <1>2
<1>4. /\ ~IsPrompt(Text) /\ IsPrompt(TextGt) /\ ~IsPrompt(Bye)
      /\ \A dir : IsPrompt(Prompt(dir))
  BY <1>2 DEF IsPrompt
<1>5. \A line \in Lines : line \in {Text, TextGt, Bye} \/ \E dir \in Paths : line = Prompt(dir)
  BY DEF Lines
<1>6. ASSUME NEW line \in Lines
      PROVE  /\ (line # Text) <=> (IsPrompt(line) \/ line = Bye)
             /\ IsPrompt(line) /\ line # TextGt => line.kind = "prompt"
  BY <1>2, <1>3, <1>4, <1>5
<1>7. QED
  BY <1>1, <1>2, <1>3, <1>4, <1>6

LEMMA TokensAre ==
  /\ Newline \in Tokens /\ Requests \subseteq Tokens /\ Typed \subseteq Tokens
  /\ Newline.verb = "newline" /\ Newline \notin Requests
  /\ \A token \in Tokens : /\ (token.verb = "newline") <=> (token = Newline)
                           /\ token.verb = "ECHO" => token.arg \in {Text, TextGt, Bye}
<1>1. Newline.verb = "newline"
  BY DEF Newline, Command
<1>2. "newline" \notin Verbs
  BY DEF Verbs
<1>3. \A t \in Requests : t.verb \in Verbs /\ (t.verb = "ECHO" => t.arg \in {Text, TextGt, Bye})
  BY RequestsAssumption
<1>4. Newline \notin Requests
  BY <1>1, <1>2, <1>3
<1>5. Newline \in Tokens /\ Requests \subseteq Tokens /\ Typed \subseteq Tokens
  BY DEF Tokens, Requests
<1>6. ASSUME NEW token \in Tokens
      PROVE  /\ (token.verb = "newline") <=> (token = Newline)
             /\ token.verb = "ECHO" => token.arg \in {Text, TextGt, Bye}
  <2>1. token \in Requests \/ token = Newline
    BY DEF Tokens
  <2>2. QED
    BY <1>1, <1>2, <1>3, <2>1
<1>7. QED
  BY <1>1, <1>4, <1>5, <1>6

\* A cut splits a line into two lines.
LEMMA CutsAre ==
  ASSUME NEW cut \in Cuts \cup {Uncut}, cut # Uncut
  PROVE  /\ cut.line \in Tokens \ {Newline} /\ cut.first \in Tokens \ {Newline}
         /\ cut.rest \in Tokens \ {Newline}
<1>1. {cut.line, cut.first, cut.rest} \subseteq Requests
  BY CutsAssumption
<1>2. QED
  BY <1>1, TokensAre

\* CD ends in a directory of the tree or beside it.
LEMMA ChangedType ==
  ASSUME NEW dir \in Paths, NEW arg
  PROVE  Changed(dir, arg) \in Paths
<1>1. CASE arg = Root
  BY <1>1, TreeAssumption DEF Changed, Paths
<1>2. CASE arg # Root /\ arg = Up
  BY <1>2, TreeAssumption DEF Changed
<1>3. CASE arg # Root /\ arg # Up
  <2>1. BuildPath(dir, arg) \subseteq Paths
    BY DEF BuildPath, Paths
  <2>2. BuildPath(dir, arg) # {} =>
          (CHOOSE path \in BuildPath(dir, arg) : TRUE) \in BuildPath(dir, arg)
    OBVIOUS
  <2>3. CASE BuildPath(dir, arg) = {}
    <3>1. Changed(dir, arg) = dir
      BY <1>3, <2>3 DEF Changed
    <3>2. QED
      BY <3>1
  <2>4. CASE BuildPath(dir, arg) # {}
    <3>1. Changed(dir, arg) = CHOOSE path \in BuildPath(dir, arg) : TRUE
      BY <1>3, <2>4 DEF Changed
    <3>2. QED
      BY <2>1, <2>2, <2>4, <3>1
  <2>5. QED
    BY <2>3, <2>4
<1>4. QED
  BY <1>1, <1>2, <1>3

\* A command is answered with one line at most before the prompt.
LEMMA AnswersAre ==
  ASSUME NEW command \in Tokens, NEW answer \in Answers(command)
  PROVE  answer = <<>> \/ \E line \in {Text, TextGt, Bye} : answer = <<line>>
<1>1. CASE command.verb = "ECHO"
  BY <1>1, TokensAre DEF Answers
<1>2. CASE command.verb = "LIST"
  BY <1>2 DEF Answers
<1>3. CASE command.verb = "CD"
  BY <1>3 DEF Answers
<1>4. CASE command.verb \notin {"ECHO", "LIST", "CD"}
  BY <1>4 DEF Answers
<1>5. QED
  BY <1>1, <1>2, <1>3, <1>4

\* A line of an answer and the prompt.
LEMMA TwoLines ==
  ASSUME NEW a \in Lines, NEW b \in Lines
  PROVE  /\ <<a>> \o <<b>> = <<a, b>> /\ <<a, b>> \in Seq(Lines) /\ <<a, b>> # <<>>
         /\ Range(<<a, b>>) = {a, b} /\ Last(<<a, b>>) = b
<1>1. <<a>> \in Seq(Lines) /\ <<b>> \in Seq(Lines)
  OBVIOUS
<1>2. <<a, b>> \in Seq(Lines) /\ Len(<<a, b>>) = 2 /\ DOMAIN <<a, b>> = {1, 2}
  OBVIOUS
<1>3. <<a>> \o <<b>> = <<a, b>>
  <2>1. <<a>> \o <<b>> \in Seq(Lines) /\ Len(<<a>> \o <<b>>) = 2
    BY <1>1
  <2>2. (<<a>> \o <<b>>)[1] = a /\ (<<a>> \o <<b>>)[2] = b
    BY <1>1
  <2>3. \A i \in 1 .. 2 : (<<a>> \o <<b>>)[i] = <<a, b>>[i]
    BY <2>2
  <2>4. QED
    BY <1>2, <2>1, <2>3, SeqEqual
<1>4. Range(<<a, b>>) = {a, b} /\ Last(<<a, b>>) = b /\ <<a, b>> # <<>>
  BY <1>2 DEF Range, Last
<1>5. QED
  BY <1>2, <1>3, <1>4

\* Two lines, counted one by one.
LEMMA TwoCounted ==
  ASSUME NEW a \in Lines, NEW b \in Lines, NEW S
  PROVE  Count(<<a, b>>, S) = (IF a \in S THEN 1 ELSE 0) + (IF b \in S THEN 1 ELSE 0)
<1>1. <<a>> \in Seq(Lines) /\ <<b>> \in Seq(Lines)
  OBVIOUS
<1>2. Count(<<a>> \o <<b>>, S) = Count(<<a>>, S) + Count(<<b>>, S)
  BY <1>1, CountConcat
<1>3. <<a>> \o <<b>> = <<a, b>>
  BY TwoLines
<1>4. /\ Count(<<a>>, S) = IF a \in S THEN 1 ELSE 0
      /\ Count(<<b>>, S) = IF b \in S THEN 1 ELSE 0
  BY CountOne
<1>5. QED
  BY <1>2, <1>3, <1>4

\* A fake line ends an answer, and so does the prompt behind it.
LEMMA AnswerCounts ==
  ASSUME NEW command \in Tokens, command.verb # "QUIT", NEW answer \in Answers(command),
         NEW dir \in Paths
  PROVE  LET lines == answer \o <<Prompt(dir)>>
         IN /\ lines \in Seq(Lines) /\ lines # <<>>
            /\ Last(lines) = Prompt(dir)
            /\ Ends(lines) = 1 + Fakes(command, lines)
            /\ Fakes(command, lines) \in Nat
            /\ Fakes(command, lines) = 0 => Range(lines) \subseteq {Text, Prompt(dir)}
<1> DEFINE lines == answer \o <<Prompt(dir)>>
           E == Lines \ {Text}
           F == {TextGt, Bye}
<1>1. FakeLines(command) = F
  BY DEF FakeLines
<1>2. /\ <<Prompt(dir)>> \in Seq(Lines) /\ Prompt(dir) \in Lines
      /\ Prompt(dir) \in E /\ Prompt(dir) \notin F
  BY LinesAre
<1>3. Count(<<Prompt(dir)>>, E) = 1 /\ Count(<<Prompt(dir)>>, F) = 0
  BY <1>2, CountOne
<1>4. ASSUME answer = <<>>
      PROVE  /\ lines \in Seq(Lines) /\ lines # <<>>
             /\ Last(lines) = Prompt(dir)
             /\ Ends(lines) = 1 + Fakes(command, lines)
             /\ Fakes(command, lines) \in Nat
             /\ Fakes(command, lines) = 0 => Range(lines) \subseteq {Text, Prompt(dir)}
  <2>1. lines = <<Prompt(dir)>>
    BY <1>4
  <2>2. Range(lines) = {Prompt(dir)} /\ Last(lines) = Prompt(dir) /\ lines # <<>>
    BY <2>1 DEF Range, Last
  <2>3. Ends(lines) = 1 /\ Fakes(command, lines) = 0
    BY <1>1, <1>3, <2>1 DEF Ends, Fakes
  <2>4. lines \in Seq(Lines)
    BY <1>2, <2>1
  <2> HIDE DEF lines
  <2>5. QED
    BY <2>2, <2>3, <2>4
<1>5. ASSUME NEW line \in {Text, TextGt, Bye}, answer = <<line>>
      PROVE  /\ lines \in Seq(Lines) /\ lines # <<>>
             /\ Last(lines) = Prompt(dir)
             /\ Ends(lines) = 1 + Fakes(command, lines)
             /\ Fakes(command, lines) \in Nat
             /\ Fakes(command, lines) = 0 => Range(lines) \subseteq {Text, Prompt(dir)}
  <2>1. line \in Lines /\ <<line>> \in Seq(Lines) /\ ((line \in E) <=> (line \in F))
        /\ (line \notin F => line = Text)
    BY LinesAre
  <2>2. lines = <<line, Prompt(dir)>>
    <3>1. lines = <<line>> \o <<Prompt(dir)>>
      BY <1>5
    <3>2. QED
      BY <1>2, <2>1, <3>1, TwoLines
  <2>3. lines \in Seq(Lines) /\ lines # <<>> /\ Range(lines) = {line, Prompt(dir)}
        /\ Last(lines) = Prompt(dir)
    <3> HIDE DEF lines
    <3>1. QED
      BY <1>2, <2>1, <2>2, TwoLines
  <2>4. /\ Count(lines, E) = (IF line \in E THEN 1 ELSE 0) + 1
        /\ Count(lines, F) = IF line \in F THEN 1 ELSE 0
    <3>1. \A S : Count(lines, S)
                   = (IF line \in S THEN 1 ELSE 0) + (IF Prompt(dir) \in S THEN 1 ELSE 0)
      <4>1. Prompt(dir) \in Lines /\ line \in Lines
        BY <1>2, <2>1
      <4> HIDE DEF lines
      <4>2. QED
        BY <4>1, <2>2, TwoCounted
    <3> HIDE DEF lines, E, F
    <3>2. QED
      BY <1>2, <3>1
  <2> HIDE DEF lines, E, F
  <2>5. Count(lines, E) = 1 + Count(lines, F) /\ Count(lines, F) \in Nat
    BY <2>1, <2>4
  <2>6. Count(lines, F) = 0 => line = Text
    BY <2>1, <2>4
  <2>7. Ends(lines) = Count(lines, E) /\ Fakes(command, lines) = Count(lines, F)
    BY <1>1 DEF Ends, Fakes, E
  <2>8. QED
    BY <2>3, <2>5, <2>6, <2>7
<1>6. QED
  BY <1>4, <1>5, AnswersAre

\* The BYE to QUIT ends the one answer to it.
LEMMA ByeCounts ==
  ASSUME NEW command, command.verb = "QUIT"
  PROVE  /\ <<Bye>> \in Seq(Lines) /\ Range(<<Bye>>) = {Bye} /\ Last(<<Bye>>) = Bye
         /\ Ends(<<Bye>>) = 1 /\ Fakes(command, <<Bye>>) = 0
<1>1. <<Bye>> \in Seq(Lines) /\ Range(<<Bye>>) = {Bye} /\ Last(<<Bye>>) = Bye
  BY LinesAre DEF Range, Last
<1>2. Bye \in Lines \ {Text} /\ Bye \notin {TextGt}
  BY LinesAre
<1>3. Count(<<Bye>>, Lines \ {Text}) = 1 /\ Count(<<Bye>>, {TextGt}) = 0
  BY <1>2, CountOne
<1>4. QED
  BY <1>1, <1>3 DEF Ends, Fakes, FakeLines

\* The greeting.
LEMMA GreetingCounts ==
  /\ <<Text, Prompt(<<>>)>> \in Seq(Lines) /\ Ends(<<Text, Prompt(<<>>)>>) = 1
  /\ Range(<<Text, Prompt(<<>>)>>) = {Text, Prompt(<<>>)}
  /\ Last(<<Text, Prompt(<<>>)>>) = Prompt(<<>>)
<1>1. Text \in Lines /\ Prompt(<<>>) \in Lines /\ Prompt(<<>>) # Text
  BY LinesAre, TreeAssumption DEF Paths
<1>2. Ends(<<Text, Prompt(<<>>)>>) = 1
  <2>1. Text \notin Lines \ {Text} /\ Prompt(<<>>) \in Lines \ {Text}
    BY <1>1
  <2>2. QED
    BY <1>1, <2>1, TwoCounted DEF Ends
<1>3. QED
  BY <1>1, <1>2, TwoLines

-----------------------------------------------------------------------------
(***************************************************************************)
(* What recv() returns, and what Reply makes of it.                        *)
(***************************************************************************)

\* Nothing is lost: what is received and what is left are what was under way, but for a
\* line cut in two, which counts as two.
LEMMA ReceivedCounts ==
  ASSUME NEW tokens \in Seq(Tokens), NEW n \in 0 .. Len(tokens), NEW cut \in Cuts \cup {Uncut},
         MayReceive(tokens, n, cut)
  PROVE  LET received == Received(tokens, n, cut)
             left == Left(tokens, n, cut)
         IN /\ received \in Seq(Tokens) /\ received # <<>> /\ Head(received) \in Tokens
            /\ left \in Seq(Tokens)
            /\ Commands(received) \in Nat /\ Commands(left) \in Nat /\ Commands(tokens) \in Nat
            /\ Commands(received) + Commands(left) = Commands(tokens) + IF cut = Uncut THEN 0 ELSE 1
            /\ Head(received).verb # "newline" => Commands(received) >= 1
            /\ Commands(tokens) = 0 => cut = Uncut /\ Head(received) = Newline
<1> DEFINE received == Received(tokens, n, cut)
           left == Left(tokens, n, cut)
           C == Tokens \ {Newline}
           first == SubSeq(tokens, 1, n)
<1>1. /\ Len(tokens) \in Nat /\ n \in Nat /\ n <= Len(tokens) /\ DOMAIN tokens = 1 .. Len(tokens)
      /\ \A i \in 1 .. Len(tokens) : tokens[i] \in Tokens
  OBVIOUS
<1>2. first \in Seq(Tokens) /\ Len(first) = n /\ \A i \in 1 .. n : first[i] = tokens[i]
  BY <1>1, SubSeqProperties
<1>bounds. 1 \in 1 .. Len(tokens) + 1 /\ n \in 1 - 1 .. Len(tokens) /\ Len(tokens) \in n .. Len(tokens)
  BY <1>1
<1>5. ASSUME cut # Uncut
      PROVE  /\ received \in Seq(Tokens) /\ received # <<>>
             /\ left \in Seq(Tokens)
             /\ Count(received, C) + Count(left, C) = Count(tokens, C) + 1
             /\ Count(tokens, C) # 0
  <2> DEFINE rest == SubSeq(tokens, n + 2, Len(tokens))
             behind == SubSeq(tokens, n + 1, Len(tokens))
  <2>1. n < Len(tokens) /\ tokens[n + 1] = cut.line
    BY <1>5 DEF MayReceive
  <2> DEFINE a == <<cut.first>>
             b == <<cut.rest>>
  <2>part. /\ a \in Seq(Tokens) /\ b \in Seq(Tokens) /\ Len(a) = 1
           /\ Count(a, C) = 1 /\ Count(b, C) = 1
    <3>1. cut.first \in C /\ cut.rest \in C
      BY <1>5, CutsAre
    <3>2. QED
      BY <3>1, CountOne
  <2>2. tokens[n + 1] \in C
    BY <1>5, <2>1, CutsAre
  <2>3. rest \in Seq(Tokens) /\ behind \in Seq(Tokens)
    BY <1>1, <2>1, SubSeqProperties
  <2>4. behind = <<tokens[n + 1]>> \o rest /\ <<tokens[n + 1]>> \in Seq(Tokens)
    <3>1. n + 1 \in 1 .. Len(tokens) /\ Len(tokens) \in n + 1 .. Len(tokens) /\ (n + 1) + 1 = n + 2
      BY <1>1, <2>1
    <3>2. behind = <<tokens[n + 1]>> \o SubSeq(tokens, (n + 1) + 1, Len(tokens))
      BY <3>1, SubSeqRecursiveFirst
    <3>3. behind = <<tokens[n + 1]>> \o rest
      BY <3>1, <3>2
    <3>4. tokens[n + 1] \in Tokens
      BY <1>1, <3>1
    <3>5. QED
      BY <3>3, <3>4
  <2>5. tokens = first \o behind
    <3>1. first \o behind = SubSeq(tokens, 1, Len(tokens))
      BY <1>bounds, ConcatAdjacentSubSeq
    <3>2. QED
      BY <3>1, SubSeqFull
  <2>6. received = first \o a /\ left = b \o rest
    BY <1>5 DEF Received, Left
  <2> HIDE DEF a, b, first, rest, behind, received, left, C
  <2>7. received \in Seq(Tokens) /\ left \in Seq(Tokens) /\ received # <<>>
    <3>1. received \in Seq(Tokens) /\ Len(received) = Len(first) + Len(a)
      BY <1>2, <2>part, <2>6, ConcatProperties
    <3>2. left \in Seq(Tokens)
      BY <2>part, <2>3, <2>6, ConcatProperties
    <3>3. Len(received) # 0
      BY <1>1, <1>2, <2>part, <3>1
    <3>4. received # <<>>
      BY <3>3
    <3>5. QED
      BY <3>1, <3>2, <3>4
  <2>8. Count(received, C) = Count(first, C) + 1 /\ Count(left, C) = 1 + Count(rest, C)
    <3>1. Count(first \o a, C) = Count(first, C) + Count(a, C)
      BY <1>2, <2>part, CountConcat
    <3>2. Count(b \o rest, C) = Count(b, C) + Count(rest, C)
      BY <2>part, <2>3, CountConcat
    <3>3. QED
      BY <2>part, <2>6, <3>1, <3>2
  <2>9. Count(behind, C) = 1 + Count(rest, C)
    <3>1. Count(<<tokens[n + 1]>>, C) = 1
      BY <2>2, CountOne
    <3>2. Count(<<tokens[n + 1]>> \o rest, C) = Count(<<tokens[n + 1]>>, C) + Count(rest, C)
      BY <2>3, <2>4, CountConcat
    <3>3. QED
      BY <2>4, <3>1, <3>2
  <2>10. Count(tokens, C) = Count(first, C) + Count(behind, C)
    BY <1>2, <2>3, <2>5, CountConcat
  <2>11. Count(first, C) \in Nat /\ Count(rest, C) \in Nat
    BY <1>2, <2>3, CountType
  <2>12. PICK i \in Nat, j \in Nat : i = Count(first, C) /\ j = Count(rest, C)
    BY <2>11
  <2>13. Count(tokens, C) = i + (1 + j)
    BY <2>9, <2>10, <2>12
  <2>14. Count(received, C) + Count(left, C) = (i + 1) + (1 + j)
    BY <2>8, <2>12
  <2>15. (i + 1) + (1 + j) = (i + (1 + j)) + 1 /\ i + (1 + j) # 0
    OBVIOUS
  <2>16. QED
    BY <2>7, <2>13, <2>14, <2>15
<1>6. ASSUME cut = Uncut
      PROVE  /\ received \in Seq(Tokens) /\ received # <<>>
             /\ left \in Seq(Tokens)
             /\ Count(received, C) + Count(left, C) = Count(tokens, C)
             /\ Head(received) = tokens[1] /\ 1 \in DOMAIN tokens
  <2> DEFINE behind == SubSeq(tokens, n + 1, Len(tokens))
  <2>1. n > 0
    BY <1>6 DEF MayReceive
  <2>2. behind \in Seq(Tokens)
    BY <1>1, SubSeqProperties
  <2>3. tokens = first \o behind
    <3>1. first \o behind = SubSeq(tokens, 1, Len(tokens))
      BY <1>bounds, ConcatAdjacentSubSeq
    <3>2. QED
      BY <3>1, SubSeqFull
  <2>4. received = first /\ left = behind
    <3>1. received = first \o <<>>
      BY <1>6 DEF Received
    <3>2. QED
      BY <1>2, <1>6, <3>1, ConcatEmptySeq DEF Left
  <2> HIDE DEF first, behind, received, left, C
  <2>5. Count(tokens, C) = Count(first, C) + Count(behind, C)
    BY <1>2, <2>2, <2>3, CountConcat
  <2>6. first # <<>> /\ Head(first) = tokens[1] /\ 1 \in DOMAIN tokens
    BY <1>1, <1>2, <2>1
  <2>7. QED
    BY <1>2, <2>2, <2>4, <2>5, <2>6
<1> HIDE DEF received, left, C
<1>7. received \in Seq(Tokens) /\ received # <<>> /\ left \in Seq(Tokens)
  BY <1>5, <1>6
<1>8. Head(received) \in Tokens /\ Head(received) \in Range(received)
  BY <1>7, RangeTail
<1>9. Head(received).verb # "newline" => Count(received, C) # 0
  <2>1. Head(received).verb # "newline" => Head(received) \in C
    BY <1>8, TokensAre DEF C
  <2>2. QED
    BY <1>7, <1>8, <2>1, CountZero
<1>10. Count(tokens, C) = 0 => cut = Uncut /\ Head(received) = Newline
  <2>1. SUFFICES ASSUME Count(tokens, C) = 0 PROVE cut = Uncut /\ Head(received) = Newline
    OBVIOUS
  <2>2. cut = Uncut
    BY <1>5, <2>1
  <2>3. tokens[1] \in Range(tokens) /\ tokens[1] \in Tokens /\ Head(received) = tokens[1]
    BY <1>1, <1>6, <2>2 DEF Range
  <2>4. tokens[1] \notin C
    BY <2>1, <2>3, CountZero
  <2>5. QED
    BY <2>2, <2>3, <2>4 DEF C
<1>11. Count(received, C) \in Nat /\ Count(left, C) \in Nat /\ Count(tokens, C) \in Nat
  BY <1>7, CountType
<1>12. Count(received, C) + Count(left, C) = Count(tokens, C) + IF cut = Uncut THEN 0 ELSE 1
  BY <1>5, <1>6, <1>11
<1>13. \A stream : Commands(stream) = Count(stream, C)
  BY DEF Commands, C
<1>14. Head(received).verb # "newline" => Count(received, C) >= 1
  BY <1>9, <1>11
<1>15. QED
  BY <1>7, <1>8, <1>10, <1>11, <1>12, <1>13, <1>14 DEF received, left

\* An answer ends once, and once more for each fake in it; without a fake, it is text and
\* the prompt for the directory, or the BYE to QUIT.
LEMMA ReplyGives ==
  ASSUME TypeOK, NEW c \in Clients, NEW command \in Tokens, Reply(c, command)
  PROVE  /\ cwd' \in [Clients -> Paths] /\ (command.verb # "CD" => cwd' = cwd)
         /\ \E lines \in Seq(Lines), label \in {"sending", "leaving"} :
              /\ out' = [out EXCEPT ![c] = lines] /\ thread' = [thread EXCEPT ![c] = label]
              /\ lines # <<>> /\ Last(lines) # Text
              /\ Fakes(command, lines) \in Nat /\ Ends(lines) = 1 + Fakes(command, lines)
              /\ label = "leaving" => lines = <<Bye>>
              /\ label = "sending" /\ Fakes(command, lines) = 0 =>
                   Range(lines) \subseteq {Text, Prompt(cwd'[c])}
         /\ \A d \in Clients \ {c} : cwd'[d] = cwd[d]
<1>1. cwd' = IF command.verb = "CD" THEN [cwd EXCEPT ![c] = Changed(@, command.arg)] ELSE cwd
  BY DEF Reply
<1>2. cwd \in [Clients -> Paths]
  BY DEF TypeOK
<1>3. /\ cwd' \in [Clients -> Paths] /\ (command.verb # "CD" => cwd' = cwd)
      /\ \A d \in Clients \ {c} : cwd'[d] = cwd[d]
  <2>1. Changed(cwd[c], command.arg) \in Paths
    BY <1>2, ChangedType
  <2>2. QED
    BY <1>1, <1>2, <2>1
<1>4. CASE command.verb = "QUIT"
  <2>1. out' = [out EXCEPT ![c] = <<Bye>>] /\ thread' = [thread EXCEPT ![c] = "leaving"]
    BY <1>4 DEF Reply
  <2> DEFINE lines == <<Bye>>
             label == "leaving"
  <2>2. /\ lines \in Seq(Lines) /\ lines # <<>> /\ Last(lines) # Text
        /\ Fakes(command, lines) = 0 /\ Ends(lines) = 1
    BY <1>4, ByeCounts, LinesAre
  <2>3. /\ Fakes(command, lines) \in Nat /\ Ends(lines) = 1 + Fakes(command, lines)
        /\ label \in {"sending", "leaving"} /\ label # "sending"
    BY <2>2
  <2>4. QED
    <3> DEFINE P(ls, lb) ==
              /\ out' = [out EXCEPT ![c] = ls] /\ thread' = [thread EXCEPT ![c] = lb]
              /\ ls # <<>> /\ Last(ls) # Text
              /\ Fakes(command, ls) \in Nat /\ Ends(ls) = 1 + Fakes(command, ls)
              /\ lb = "leaving" => ls = <<Bye>>
              /\ lb = "sending" /\ Fakes(command, ls) = 0 =>
                   Range(ls) \subseteq {Text, Prompt(cwd'[c])}
    <3>1. P(lines, label)
      BY <2>1, <2>2, <2>3
    <3>2. \E ls \in Seq(Lines), lb \in {"sending", "leaving"} : P(ls, lb)
      BY <2>2, <2>3, <3>1
    <3>3. QED
      BY <1>3, <3>2
<1>5. CASE command.verb # "QUIT"
  <2>1. PICK answer \in Answers(command) :
          /\ out' = [out EXCEPT ![c] = answer \o <<Prompt(cwd'[c])>>]
          /\ thread' = [thread EXCEPT ![c] = "sending"]
    BY <1>5 DEF Reply
  <2> DEFINE lines == answer \o <<Prompt(cwd'[c])>>
  <2>2. cwd'[c] \in Paths
    BY <1>3
  <2>3. /\ lines \in Seq(Lines) /\ lines # <<>>
        /\ Last(lines) = Prompt(cwd'[c])
        /\ Ends(lines) = 1 + Fakes(command, lines)
        /\ Fakes(command, lines) \in Nat
        /\ Fakes(command, lines) = 0 => Range(lines) \subseteq {Text, Prompt(cwd'[c])}
    BY <1>5, <2>2, AnswerCounts
  <2>4. Prompt(cwd'[c]) # Text
    BY LinesAre
  <2>5. out' = [out EXCEPT ![c] = lines]
    BY <2>1
  <2> HIDE DEF lines
  <2>6. QED
    BY <1>3, <2>1, <2>3, <2>4, <2>5
<1>6. QED
  BY <1>4, <1>5

\* recv() in terms of what is under way: passed commands are passed over, and more answers
\* than one for each command are given.
Empty == UNCHANGED <<thread, cwd, out>>
Said(c, lines, label, more) ==
  /\ out' = [out EXCEPT ![c] = lines] /\ thread' = [thread EXCEPT ![c] = label]
  /\ lines # <<>> /\ Last(lines) # Text
  /\ label = "leaving" => lines = <<Bye>>
  /\ label = "sending" /\ more = 0 => Range(lines) \subseteq {Text, Prompt(cwd'[c])}

LEMMA RecvGives ==
  ASSUME TypeOK, NEW c \in Clients, Recv(c)
  PROVE  /\ alive /\ thread[c] = "receiving"
         /\ UNCHANGED <<client, prompt, given, alive, reset, toClient>>
         /\ cwd' \in [Clients -> Paths] /\ \A d \in Clients \ {c} : cwd'[d] = cwd[d]
         /\ \E left \in Seq(Tokens), more \in Nat, passed \in Nat :
              /\ toServer' = [toServer EXCEPT ![c] = left]
              /\ extra' = [extra EXCEPT ![c] = @ + more]
              /\ dropped' = [dropped EXCEPT ![c] = @ + passed]
              /\ Commands(left) \in Nat /\ Commands(toServer[c]) \in Nat
              /\ \/ /\ Empty
                    /\ Commands(left) + passed = Commands(toServer[c]) + more
                 \/ \E lines \in Seq(Lines), label \in {"sending", "leaving"} :
                      /\ Said(c, lines, label, more)
                      /\ Commands(toServer[c]) # 0
                      /\ Ends(lines) \in Nat
                      /\ Commands(left) + passed + Ends(lines) = Commands(toServer[c]) + more
<1>1. /\ alive /\ thread[c] = "receiving"
      /\ UNCHANGED <<client, prompt, given, alive, reset, toClient>>
  BY DEF Recv, clientVars
<1>2. PICK n \in 0 .. Len(toServer[c]), cut \in Cuts \cup {Uncut} :
        /\ MayReceive(toServer[c], n, cut)
        /\ LET received == Received(toServer[c], n, cut)
               empty == Head(received).verb \in {"newline", "blank"}
           IN /\ toServer' = [toServer EXCEPT ![c] = Left(@, n, cut)]
              /\ IF empty THEN UNCHANGED <<thread, cwd, out>> ELSE Reply(c, Head(received))
              /\ dropped' = [dropped EXCEPT ![c] =
                               @ + Commands(received) - IF empty THEN 0 ELSE 1]
              /\ extra' = [extra EXCEPT ![c] =
                             @ + (IF cut = Uncut THEN 0 ELSE 1)
                               + (IF empty THEN 0 ELSE Fakes(Head(received), out'[c]))]
  BY DEF Recv
<1> DEFINE tokens == toServer[c]
           received == Received(tokens, n, cut)
           left == Left(tokens, n, cut)
           command == Head(received)
           one == IF cut = Uncut THEN 0 ELSE 1
<1>3. /\ received \in Seq(Tokens) /\ received # <<>> /\ command \in Tokens
      /\ left \in Seq(Tokens)
      /\ Commands(received) \in Nat /\ Commands(left) \in Nat /\ Commands(tokens) \in Nat
      /\ Commands(received) + Commands(left) = Commands(tokens) + one
      /\ command.verb # "newline" => Commands(received) >= 1
      /\ Commands(tokens) = 0 => command = Newline
  <2>1. tokens \in Seq(Tokens)
    BY DEF TypeOK
  <2>2. QED
    BY <1>2, <2>1, ReceivedCounts
<1>4. toServer' = [toServer EXCEPT ![c] = left]
  BY <1>2
<1>5. one \in Nat /\ extra[c] \in Nat /\ dropped[c] \in Nat
  BY DEF TypeOK
<1>6. CASE command.verb \in {"newline", "blank"}
  <2>1. /\ UNCHANGED <<thread, cwd, out>>
        /\ dropped' = [dropped EXCEPT ![c] = @ + Commands(received) - 0]
        /\ extra' = [extra EXCEPT ![c] = @ + one + 0]
    BY <1>2, <1>6
  <2> HIDE DEF received, left, tokens, one, command
  <2>2. /\ dropped' = [dropped EXCEPT ![c] = @ + Commands(received)]
        /\ extra' = [extra EXCEPT ![c] = @ + one]
    <3>1. /\ dropped[c] + Commands(received) - 0 = dropped[c] + Commands(received)
          /\ extra[c] + one + 0 = extra[c] + one
      BY <1>3, <1>5
    <3>2. QED
      BY <2>1, <3>1
  <2>3. Commands(left) + Commands(received) = Commands(tokens) + one
    BY <1>3
  <2>4. cwd' \in [Clients -> Paths] /\ \A d \in Clients \ {c} : cwd'[d] = cwd[d]
    BY <2>1 DEF TypeOK
  <2>5. QED
    BY <1>1, <1>3, <1>4, <1>5, <2>1, <2>2, <2>3, <2>4 DEF Empty, tokens
<1>7. CASE command.verb \notin {"newline", "blank"}
  <2> DEFINE fakes == Fakes(command, out'[c])
  <2>1. /\ Reply(c, command)
        /\ dropped' = [dropped EXCEPT ![c] = @ + Commands(received) - 1]
        /\ extra' = [extra EXCEPT ![c] = @ + one + fakes]
    BY <1>2, <1>7
  <2>2. command \in Tokens
    BY <1>3
  <2> HIDE DEF received, left, tokens, one, command
  <2>3. PICK lines \in Seq(Lines), label \in {"sending", "leaving"} :
          /\ out' = [out EXCEPT ![c] = lines] /\ thread' = [thread EXCEPT ![c] = label]
          /\ lines # <<>> /\ Last(lines) # Text
          /\ Fakes(command, lines) \in Nat /\ Ends(lines) = 1 + Fakes(command, lines)
          /\ label = "leaving" => lines = <<Bye>>
          /\ label = "sending" /\ Fakes(command, lines) = 0 =>
               Range(lines) \subseteq {Text, Prompt(cwd'[c])}
    BY <2>1, <2>2, ReplyGives
  <2>4. cwd' \in [Clients -> Paths] /\ \A d \in Clients \ {c} : cwd'[d] = cwd[d]
    BY <2>1, <2>2, ReplyGives
  <2>5. out'[c] = lines /\ fakes = Fakes(command, lines)
    BY <2>3 DEF TypeOK
  <2> HIDE DEF fakes
  <2> DEFINE more == one + fakes
             passed == Commands(received) - 1
  <2>6. /\ fakes \in Nat /\ more \in Nat /\ passed \in Nat /\ Ends(lines) \in Nat
        /\ more = 0 => fakes = 0
        /\ Commands(left) + passed + Ends(lines) = Commands(tokens) + more
        /\ Commands(tokens) # 0
    <3>1. fakes \in Nat /\ Ends(lines) = 1 + fakes
      BY <2>3, <2>5
    <3>2. Commands(received) >= 1
      BY <1>3, <1>7
    <3>3. Commands(tokens) # 0
      BY <1>3, <1>7, TokensAre
    <3>4. more \in Nat /\ passed \in Nat /\ (more = 0 => fakes = 0)
      BY <1>3, <1>5, <3>1, <3>2
    <3>5. Commands(left) + passed + Ends(lines) = Commands(tokens) + more
      <4>1. Commands(received) + Commands(left) = Commands(tokens) + one
        BY <1>3
      <4>2. /\ Commands(received) \in Nat /\ Commands(left) \in Nat
            /\ Commands(tokens) \in Nat /\ one \in Nat
        BY <1>3, <1>5
      <4>3. PICK r \in Nat, l \in Nat, t \in Nat, o \in Nat, f \in Nat :
              /\ r = Commands(received) /\ l = Commands(left) /\ t = Commands(tokens)
              /\ o = one /\ f = fakes
        BY <3>1, <4>2
      <4>4. r + l = t + o => l + (r - 1) + (1 + f) = t + (o + f)
        OBVIOUS
      <4>5. QED
        BY <3>1, <4>1, <4>3, <4>4
    <3>6. QED
      BY <3>1, <3>3, <3>4, <3>5
  <2>7. /\ dropped' = [dropped EXCEPT ![c] = @ + passed]
        /\ extra' = [extra EXCEPT ![c] = @ + more]
    <3>1. dropped[c] + Commands(received) - 1 = dropped[c] + passed
      BY <1>3, <1>5
    <3>2. extra[c] + one + fakes = extra[c] + more
      BY <1>5, <2>6
    <3> HIDE DEF more, passed
    <3>3. QED
      BY <2>1, <3>1, <3>2
  <2>8. Said(c, lines, label, more)
    BY <2>3, <2>5, <2>6 DEF Said
  <2> HIDE DEF more, passed
  <2>9. QED
    BY <1>1, <1>3, <1>4, <2>4, <2>6, <2>7, <2>8 DEF tokens
<1>8. QED
  BY <1>6, <1>7

-----------------------------------------------------------------------------
(***************************************************************************)
(* The inductive invariant.  Beyond the balance of the answers: how the    *)
(* lines that are still to be sent end, and what is under way between a    *)
(* client and a thread that never got out of step.                         *)
(***************************************************************************)
Balanced(c) == InConversation(c) => Expected(c) + dropped[c] = Awaited(c) + extra[c]

\* What the thread says ends with a line that ends the answer; QUIT with the BYE alone.
Ended(c) ==
  /\ thread[c] \in {"sending", "leaving"} => Last(out[c]) # Text
  /\ thread[c] = "leaving" => out[c] = <<Bye>>
  /\ thread[c] = "none" => cwd[c] = <<>>

\* As long as no answer was too many, BYE is the last line, and every prompt under way
\* is that of the directory.
OutOf(c) == Range(out[c])
ToClientOf(c) == Range(toClient[c])
InStep(c) ==
  extra[c] = 0 =>
    /\ TextGt \notin OutOf(c) \cup ToClientOf(c)
    /\ Bye \in OutOf(c) => thread[c] = "leaving"
    /\ Bye \in ToClientOf(c) => thread[c] = "closed"
    /\ InConversation(c) =>
         /\ \A line \in OutOf(c) \cup ToClientOf(c) :
              line.kind = "prompt" => line = Prompt(cwd[c])
         /\ client[c] = "prompt" => prompt[c] = Prompt(cwd[c])

\* A client that has ended by itself has left nothing for the server to answer.
Quiet(c) ==
  client[c] = "closed" /\ extra[c] = 0 /\ alive =>
    thread[c] = "closed" \/ (thread[c] = "receiving" /\ Commands(toServer[c]) = 0)

ClientInv(c) == Balanced(c) /\ Ended(c) /\ InStep(c) /\ Quiet(c)
SessionInv == TypeOK /\ (\A c \in Clients : ClientInv(c)) /\ ServerSurvives
-----------------------------------------------------------------------------
(***************************************************************************)
(* Typing.                                                                 *)
(***************************************************************************)
LEMMA TypeInit == Init => TypeOK
<1> SUFFICES ASSUME Init PROVE TypeOK
  OBVIOUS
<1>1. Text \in Lines /\ <<>> \in Paths /\ 0 \in 0 .. MAX_COMMANDS
  BY LinesAre, TreeAssumption, BoundAssumption DEF Paths
<1>2. /\ prompt \in [Clients -> Lines] /\ cwd \in [Clients -> Paths]
      /\ given \in 0 .. MAX_COMMANDS /\ alive \in BOOLEAN
  BY <1>1 DEF Init
<1>3. /\ toServer \in [Clients -> Seq(Tokens)] /\ toClient \in [Clients -> Seq(Lines)]
      /\ out \in [Clients -> Seq(Lines)]
  BY DEF Init
<1>4. /\ client \in [Clients -> {"start", "reading", "prompt", "newline", "closed", "killed"}]
      /\ thread \in [Clients -> {"none", "sending", "receiving", "leaving", "closed"}]
      /\ \A c \in Clients : (out[c] # <<>>) <=> thread[c] \in {"sending", "leaving"}
  BY DEF Init
<1>5. /\ reset \in [Clients -> BOOLEAN]
      /\ extra \in [Clients -> Nat] /\ dropped \in [Clients -> Nat]
  BY DEF Init
<1>6. QED
  BY <1>2, <1>3, <1>4, <1>5 DEF TypeOK

\* Steps of a client that change nothing but where it is.
LEMMA TypeUser ==
  ASSUME TypeOK, NEW c \in Clients,
         Connect(c) \/ ReadEnd(c) \/ EndOfInput(c) \/ Kill(c)
  PROVE  TypeOK'
<1>1. /\ client \in [Clients -> {"start", "reading", "prompt", "newline", "closed", "killed"}]
      /\ UNCHANGED <<prompt, given, toServer, alive, thread, cwd, out, reset, toClient, extra,
                     dropped>>
  BY DEF TypeOK, Connect, ReadEnd, EndOfInput, Kill, threadVars, ghosts
<1>2. client' \in [Clients -> {"start", "reading", "prompt", "newline", "closed", "killed"}]
  BY <1>1 DEF Connect, ReadEnd, EndOfInput, Kill
<1>3. QED
  BY <1>1, <1>2 DEF TypeOK

LEMMA TypeSendCommand ==
  ASSUME TypeOK, NEW c \in Clients, SendCommand(c)
  PROVE  TypeOK'
<1>1. PICK t \in Typed :
        toServer' = IF Disconnected(c) THEN toServer ELSE [toServer EXCEPT ![c] = Append(@, t)]
  BY DEF SendCommand
<1>2. toServer \in [Clients -> Seq(Tokens)] /\ t \in Tokens
  BY TokensAre DEF TypeOK
<1>3. Append(toServer[c], t) \in Seq(Tokens)
  BY <1>2
<1>4. toServer' \in [Clients -> Seq(Tokens)]
  BY <1>1, <1>2, <1>3
<1>5. /\ client' = [client EXCEPT ![c] = "newline"]
      /\ given < MAX_COMMANDS /\ given' = given + 1
      /\ UNCHANGED <<prompt, alive, thread, cwd, out, reset, toClient, extra, dropped>>
  BY DEF SendCommand, threadVars, ghosts
<1>6. given' \in 0 .. MAX_COMMANDS
  BY <1>5, BoundAssumption DEF TypeOK
<1>7. client' \in [Clients -> {"start", "reading", "prompt", "newline", "closed", "killed"}]
  BY <1>5 DEF TypeOK
<1>8. QED
  BY <1>4, <1>5, <1>6, <1>7 DEF TypeOK

LEMMA TypeSendNewline ==
  ASSUME TypeOK, NEW c \in Clients, SendNewline(c)
  PROVE  TypeOK'
<1>1. toServer \in [Clients -> Seq(Tokens)] /\ Newline \in Tokens
  BY TokensAre DEF TypeOK
<1>2. Append(toServer[c], Newline) \in Seq(Tokens)
  BY <1>1
<1>3. toServer' \in {toServer, [toServer EXCEPT ![c] = Append(@, Newline)]}
  BY DEF SendNewline
<1>4. toServer' \in [Clients -> Seq(Tokens)]
  BY <1>1, <1>2, <1>3
<1>5. /\ \E next \in {"reading", "killed"} : client' = [client EXCEPT ![c] = next]
      /\ UNCHANGED <<prompt, given, alive, thread, cwd, out, reset, toClient, extra, dropped>>
  BY DEF SendNewline, threadVars, ghosts
<1>6. client' \in [Clients -> {"start", "reading", "prompt", "newline", "closed", "killed"}]
  BY <1>5 DEF TypeOK
<1>7. QED
  BY <1>4, <1>5, <1>6 DEF TypeOK

LEMMA TypeReadLine ==
  ASSUME TypeOK, NEW c \in Clients, ReadLine(c)
  PROVE  TypeOK'
<1> DEFINE line == Head(toClient[c])
<1>1. toClient \in [Clients -> Seq(Lines)] /\ toClient[c] # <<>>
  BY DEF TypeOK, ReadLine
<1>2. line \in Lines /\ Tail(toClient[c]) \in Seq(Lines)
  BY <1>1
<1>3. /\ prompt' = IF IsPrompt(line) THEN [prompt EXCEPT ![c] = line] ELSE prompt
      /\ client' = [client EXCEPT ![c] = IF IsPrompt(line) THEN "prompt"
                                         ELSE IF line = Bye THEN "closed" ELSE @]
      /\ toClient' = [toClient EXCEPT ![c] = Tail(@)]
      /\ UNCHANGED <<given, toServer, alive, thread, cwd, out, reset, extra, dropped>>
  BY DEF ReadLine, threadVars, ghosts
<1> HIDE DEF line
<1>4. prompt' \in [Clients -> Lines]
  BY <1>2, <1>3 DEF TypeOK
<1>5. client' \in [Clients -> {"start", "reading", "prompt", "newline", "closed", "killed"}]
  BY <1>3 DEF TypeOK
<1>6. toClient' \in [Clients -> Seq(Lines)]
  BY <1>1, <1>2, <1>3
<1>7. QED
  BY <1>3, <1>4, <1>5, <1>6 DEF TypeOK

LEMMA TypeAccept ==
  ASSUME TypeOK, NEW c \in Clients, Accept(c)
  PROVE  TypeOK'
<1> DEFINE greeting == <<Text, Prompt(<<>>)>>
<1>1. /\ thread' = [thread EXCEPT ![c] = "sending"] /\ out' = [out EXCEPT ![c] = greeting]
      /\ UNCHANGED <<client, prompt, given, toServer, alive, cwd, reset, toClient, extra,
                     dropped>>
  BY DEF Accept, clientVars, ghosts
<1>2. greeting \in Seq(Lines) /\ greeting # <<>>
  BY GreetingCounts
<1> HIDE DEF greeting
<1>3. /\ thread' \in [Clients -> {"none", "sending", "receiving", "leaving", "closed"}]
      /\ out' \in [Clients -> Seq(Lines)]
      /\ \A d \in Clients : (out'[d] # <<>>) <=> thread'[d] \in {"sending", "leaving"}
  BY <1>1, <1>2 DEF TypeOK
<1>4. QED
  BY <1>1, <1>3 DEF TypeOK

LEMMA TypeRecv ==
  ASSUME TypeOK, NEW c \in Clients, Recv(c)
  PROVE  TypeOK'
<1>1. /\ thread[c] = "receiving"
      /\ UNCHANGED <<client, prompt, given, alive, reset, toClient>>
      /\ cwd' \in [Clients -> Paths]
  BY RecvGives
<1>2. PICK left \in Seq(Tokens), more \in Nat, passed \in Nat :
        /\ toServer' = [toServer EXCEPT ![c] = left]
        /\ extra' = [extra EXCEPT ![c] = @ + more]
        /\ dropped' = [dropped EXCEPT ![c] = @ + passed]
        /\ Empty \/ \E lines \in Seq(Lines), label \in {"sending", "leaving"} :
                      Said(c, lines, label, more)
  BY RecvGives
<1>3. extra[c] + more \in Nat /\ dropped[c] + passed \in Nat
  BY DEF TypeOK
<1>4. extra' \in [Clients -> Nat] /\ dropped' \in [Clients -> Nat]
  BY <1>2, <1>3 DEF TypeOK
<1>5. toServer' \in [Clients -> Seq(Tokens)]
  BY <1>2 DEF TypeOK
<1>6. /\ thread' \in [Clients -> {"none", "sending", "receiving", "leaving", "closed"}]
      /\ out' \in [Clients -> Seq(Lines)]
      /\ \A d \in Clients : (out'[d] # <<>>) <=> thread'[d] \in {"sending", "leaving"}
  <2>1. CASE Empty
    BY <2>1 DEF Empty, TypeOK
  <2>2. CASE \E lines \in Seq(Lines), label \in {"sending", "leaving"} :
               Said(c, lines, label, more)
    <3>1. PICK lines \in Seq(Lines), label \in {"sending", "leaving"} :
            /\ out' = [out EXCEPT ![c] = lines] /\ thread' = [thread EXCEPT ![c] = label]
            /\ lines # <<>>
      BY <2>2 DEF Said
    <3>2. QED
      BY <3>1 DEF TypeOK
  <2>3. QED
    BY <1>2, <2>1, <2>2
<1>7. QED
  BY <1>1, <1>4, <1>5, <1>6 DEF TypeOK

\* What the thread sends, pointwise: the last line is followed by recv() or the end.
LEMMA SendGives ==
  ASSUME TypeOK, NEW c \in Clients, Send(c)
  PROVE  /\ alive /\ thread[c] \in {"sending", "leaving"}
         /\ out[c] \in Seq(Lines) /\ out[c] # <<>> /\ Head(out[c]) \in Lines
         /\ Tail(out[c]) \in Seq(Lines) /\ out' = [out EXCEPT ![c] = Tail(out[c])]
         /\ \E label \in {thread[c], "receiving", "closed"} :
              /\ thread' = [thread EXCEPT ![c] = label]
              /\ \/ Tail(out[c]) # <<>> /\ label = thread[c]
                 \/ Tail(out[c]) = <<>> /\ label = IF thread[c] = "leaving" THEN "closed"
                                                   ELSE "receiving"
         /\ toClient' = IF Gone(c) THEN toClient
                        ELSE [toClient EXCEPT ![c] = Append(@, Head(out[c]))]
         /\ reset' = [reset EXCEPT ![c] = Gone(c)]
         /\ UNCHANGED <<client, prompt, given, toServer, alive, cwd, extra, dropped>>
<1>1. /\ alive /\ thread[c] \in {"sending", "leaving"}
      /\ toClient' = IF Gone(c) THEN toClient
                     ELSE [toClient EXCEPT ![c] = Append(@, Head(out[c]))]
      /\ reset' = [reset EXCEPT ![c] = Gone(c)]
      /\ out' = [out EXCEPT ![c] = Tail(@)]
      /\ thread' = IF Len(out[c]) > 1 THEN thread
                   ELSE [thread EXCEPT ![c] = IF @ = "leaving" THEN "closed" ELSE "receiving"]
      /\ UNCHANGED <<client, prompt, given, toServer, alive, cwd, extra, dropped>>
  BY DEF Send, clientVars, ghosts
<1>2. out[c] \in Seq(Lines) /\ out[c] # <<>>
  BY <1>1 DEF TypeOK
<1>3. Head(out[c]) \in Lines /\ Tail(out[c]) \in Seq(Lines)
  BY <1>2
<1>4. (Tail(out[c]) # <<>>) <=> Len(out[c]) > 1
  BY <1>2
<1>5. \E label \in {thread[c], "receiving", "closed"} :
        /\ thread' = [thread EXCEPT ![c] = label]
        /\ \/ Tail(out[c]) # <<>> /\ label = thread[c]
           \/ Tail(out[c]) = <<>> /\ label = IF thread[c] = "leaving" THEN "closed"
                                             ELSE "receiving"
  <2>1. CASE Len(out[c]) > 1
    <3>1. thread' = [thread EXCEPT ![c] = thread[c]]
      BY <1>1, <2>1 DEF TypeOK
    <3>2. QED
      BY <1>4, <2>1, <3>1
  <2>2. CASE ~(Len(out[c]) > 1)
    <3>1. Tail(out[c]) = <<>>
      BY <1>4, <2>2
    <3>2. thread' = [thread EXCEPT ![c] = IF thread[c] = "leaving" THEN "closed" ELSE "receiving"]
      BY <1>1, <2>2
    <3>3. QED
      BY <3>1, <3>2
  <2>3. QED
    BY <2>1, <2>2
<1>6. out' = [out EXCEPT ![c] = Tail(out[c])]
  BY <1>1
<1>7. QED
  BY <1>1, <1>2, <1>3, <1>5, <1>6

LEMMA TypeSend ==
  ASSUME TypeOK, NEW c \in Clients, Send(c)
  PROVE  TypeOK'
<1>1. /\ Tail(out[c]) \in Seq(Lines) /\ out' = [out EXCEPT ![c] = Tail(out[c])]
      /\ thread[c] \in {"sending", "leaving"} /\ Head(out[c]) \in Lines
      /\ reset' = [reset EXCEPT ![c] = Gone(c)]
      /\ UNCHANGED <<client, prompt, given, toServer, alive, cwd, extra, dropped>>
  BY SendGives
<1>2. PICK label \in {thread[c], "receiving", "closed"} :
        /\ thread' = [thread EXCEPT ![c] = label]
        /\ \/ Tail(out[c]) # <<>> /\ label = thread[c]
           \/ Tail(out[c]) = <<>> /\ label \in {"closed", "receiving"}
  BY SendGives
<1>3. /\ thread' \in [Clients -> {"none", "sending", "receiving", "leaving", "closed"}]
      /\ out' \in [Clients -> Seq(Lines)]
  BY <1>1, <1>2 DEF TypeOK
<1>4. ASSUME NEW d \in Clients
      PROVE  (out'[d] # <<>>) <=> thread'[d] \in {"sending", "leaving"}
  <2>1. CASE d # c
    BY <1>1, <1>2, <2>1 DEF TypeOK
  <2>2. CASE d = c
    <3>1. out'[c] = Tail(out[c]) /\ thread'[c] = label
      BY <1>1, <1>2 DEF TypeOK
    <3>2. QED
      BY <1>1, <1>2, <2>2, <3>1
  <2>3. QED
    BY <2>1, <2>2
<1>5. toClient' \in [Clients -> Seq(Lines)]
  <2>1. toClient' \in {toClient, [toClient EXCEPT ![c] = Append(@, Head(out[c]))]}
    BY SendGives
  <2>2. toClient \in [Clients -> Seq(Lines)]
    BY DEF TypeOK
  <2>3. Append(toClient[c], Head(out[c])) \in Seq(Lines)
    BY <1>1, <2>2
  <2>4. QED
    BY <2>1, <2>2, <2>3
<1>6. reset' \in [Clients -> BOOLEAN]
  <2>1. Gone(c) \in BOOLEAN
    BY DEF Gone
  <2>2. QED
    BY <1>1, <2>1 DEF TypeOK
<1>7. QED
  BY <1>1, <1>3, <1>4, <1>5, <1>6 DEF TypeOK

LEMMA TypeEnds ==
  ASSUME TypeOK, NEW c \in Clients, BrokenPipe(c) \/ RecvEnd(c)
  PROVE  TypeOK'
<1>1. /\ UNCHANGED <<client, prompt, given, toServer, cwd, out, reset, toClient, extra, dropped>>
      /\ \/ alive' = FALSE /\ UNCHANGED thread
         \/ /\ UNCHANGED alive
            /\ thread[c] = "receiving" /\ thread' = [thread EXCEPT ![c] = "closed"]
  BY DEF BrokenPipe, RecvEnd, clientVars, threadVars, ghosts
<1>2. alive' \in BOOLEAN
  BY <1>1 DEF TypeOK
<1>3. /\ thread' \in [Clients -> {"none", "sending", "receiving", "leaving", "closed"}]
      /\ \A d \in Clients : (out'[d] # <<>>) <=> thread'[d] \in {"sending", "leaving"}
  BY <1>1 DEF TypeOK
<1>4. QED
  BY <1>1, <1>2, <1>3 DEF TypeOK

LEMMA TypeNext == TypeOK /\ [Next]_vars => TypeOK'
<1> SUFFICES ASSUME TypeOK, [Next]_vars PROVE TypeOK'
  OBVIOUS
<1>1. ASSUME NEW c \in Clients, Server(c) \/ Client(c) \/ User(c)
      PROVE  TypeOK'
  <2>1. CASE Server(c)
    BY <2>1, TypeAccept, TypeRecv, TypeSend, TypeEnds DEF Server
  <2>2. CASE Client(c) \/ User(c)
    BY <2>2, TypeReadLine, TypeUser, TypeSendNewline, TypeSendCommand DEF Client, User
  <2>3. QED
    BY <1>1, <2>1, <2>2
<1>2. CASE UNCHANGED vars
  <2>1. UNCHANGED <<client, prompt, given, toServer, alive, thread, cwd, out, reset, toClient,
                    extra, dropped>>
    BY <1>2 DEF vars, clientVars, threadVars, ghosts
  <2>2. QED
    BY <2>1 DEF TypeOK
<1>3. QED
  BY <1>1, <1>2 DEF Next

\* Every variable keeps its type: a thread has lines to send exactly while it sends, and
\* its working directory is what CD and build_path() make of it, the rest of the name of a
\* directory beside the root included.
THEOREM TypeCorrect == Spec => []TypeOK
<1>1. Init => TypeOK
  BY TypeInit
<1>2. TypeOK /\ [Next]_vars => TypeOK'
  BY TypeNext
<1>3. QED
  BY <1>1, <1>2, PTL DEF Spec

-----------------------------------------------------------------------------
(***************************************************************************)
(* A client and its thread share nothing with the others but the process   *)
(* of the server.                                                          *)
(***************************************************************************)

\* Nothing of d changes; the server may end.
Untouched(d) ==
  /\ client'[d] = client[d] /\ prompt'[d] = prompt[d]
  /\ toServer'[d] = toServer[d] /\ toClient'[d] = toClient[d]
  /\ thread'[d] = thread[d] /\ cwd'[d] = cwd[d] /\ out'[d] = out[d]
  /\ extra'[d] = extra[d] /\ dropped'[d] = dropped[d]
  /\ alive' \in {alive, FALSE}

LEMMA Frame ==
  ASSUME NEW d \in Clients, Untouched(d), alive \in BOOLEAN, ClientInv(d)
  PROVE  ClientInv(d)'
<1>1. InConversation(d)' => InConversation(d)
  BY DEF Untouched, InConversation, Gone
<1>2. Expected(d)' = Expected(d) /\ Awaited(d)' = Awaited(d)
  BY DEF Untouched, Expected, Awaited
<1>3. Balanced(d)'
  BY <1>1, <1>2 DEF ClientInv, Balanced, Untouched
<1>4. Ended(d)'
  BY DEF ClientInv, Ended, Untouched
<1>5. OutOf(d)' = OutOf(d) /\ ToClientOf(d)' = ToClientOf(d)
  BY DEF OutOf, ToClientOf, Untouched
<1>6. InStep(d)'
  BY <1>1, <1>5 DEF ClientInv, InStep, Untouched
<1>7. Quiet(d)'
  BY DEF ClientInv, Quiet, Untouched
<1>8. QED
  BY <1>3, <1>4, <1>6, <1>7 DEF ClientInv

LEMMA OthersUntouched ==
  ASSUME TypeOK, NEW c \in Clients, Server(c) \/ Client(c) \/ User(c), NEW d \in Clients, d # c
  PROVE  Untouched(d)
<1>1. CASE Connect(c) \/ ReadEnd(c) \/ EndOfInput(c) \/ Kill(c)
  BY <1>1 DEF Connect, ReadEnd, EndOfInput, Kill, TypeOK, Untouched, threadVars, ghosts
<1>2. CASE SendCommand(c)
  <2>1. PICK t \in Typed :
          toServer' = IF Disconnected(c) THEN toServer ELSE [toServer EXCEPT ![c] = Append(@, t)]
    BY <1>2 DEF SendCommand
  <2>2. toServer'[d] = toServer[d]
    BY <2>1 DEF TypeOK
  <2>3. QED
    BY <1>2, <2>2 DEF SendCommand, TypeOK, Untouched, threadVars, ghosts
<1>3. CASE SendNewline(c)
  <2>1. toServer'[d] = toServer[d] /\ client'[d] = client[d]
    BY <1>3 DEF SendNewline, TypeOK
  <2>2. QED
    BY <1>3, <2>1 DEF SendNewline, Untouched, threadVars, ghosts
<1>4. CASE ReadLine(c)
  <2>1. /\ prompt'[d] = prompt[d] /\ client'[d] = client[d] /\ toClient'[d] = toClient[d]
        /\ UNCHANGED <<given, toServer, alive, thread, cwd, out, reset, extra, dropped>>
    BY <1>4 DEF ReadLine, TypeOK, threadVars, ghosts
  <2>2. QED
    BY <2>1 DEF Untouched
<1>5. CASE Accept(c)
  BY <1>5 DEF Accept, TypeOK, Untouched, clientVars, ghosts
<1>6. CASE Recv(c)
  <2>1. /\ UNCHANGED <<client, prompt, given, alive, reset, toClient>>
        /\ cwd'[d] = cwd[d]
    BY <1>6, RecvGives
  <2>2. PICK left \in Seq(Tokens), more \in Nat, passed \in Nat :
          /\ toServer' = [toServer EXCEPT ![c] = left]
          /\ extra' = [extra EXCEPT ![c] = @ + more]
          /\ dropped' = [dropped EXCEPT ![c] = @ + passed]
          /\ Empty \/ \E lines \in Seq(Lines), label \in {"sending", "leaving"} :
                        Said(c, lines, label, more)
    BY <1>6, RecvGives
  <2>3. toServer'[d] = toServer[d] /\ extra'[d] = extra[d] /\ dropped'[d] = dropped[d]
    BY <2>2 DEF TypeOK
  <2>4. thread'[d] = thread[d] /\ out'[d] = out[d]
    BY <2>2 DEF TypeOK, Empty, Said
  <2>5. QED
    BY <2>1, <2>3, <2>4 DEF Untouched
<1>7. CASE Send(c)
  <2>1. /\ out' = [out EXCEPT ![c] = Tail(out[c])]
        /\ \E label \in {thread[c], "receiving", "closed"} :
             thread' = [thread EXCEPT ![c] = label]
        /\ toClient' \in {toClient, [toClient EXCEPT ![c] = Append(@, Head(out[c]))]}
        /\ UNCHANGED <<client, prompt, given, toServer, alive, cwd, extra, dropped>>
    BY <1>7, SendGives
  <2>2. out'[d] = out[d] /\ thread'[d] = thread[d] /\ toClient'[d] = toClient[d]
    BY <2>1 DEF TypeOK
  <2>3. QED
    BY <2>1, <2>2 DEF Untouched
<1>8. CASE BrokenPipe(c) \/ RecvEnd(c)
  BY <1>8 DEF BrokenPipe, RecvEnd, TypeOK, Untouched, clientVars, threadVars, ghosts
<1>9. QED
  BY <1>1, <1>2, <1>3, <1>4, <1>5, <1>6, <1>7, <1>8 DEF Server, Client, User

-----------------------------------------------------------------------------
(***************************************************************************)
(* What a client does, for the client itself.                              *)
(***************************************************************************)
LEMMA Counted ==
  ASSUME TypeOK, NEW c \in Clients
  PROVE  /\ Commands(toServer[c]) \in Nat /\ Ends(out[c]) \in Nat /\ Ends(toClient[c]) \in Nat
         /\ extra[c] \in Nat /\ dropped[c] \in Nat
         /\ Awaited(c) = IF client[c] = "prompt" THEN 0 ELSE 1
<1>1. /\ toServer[c] \in Seq(Tokens) /\ out[c] \in Seq(Lines) /\ toClient[c] \in Seq(Lines)
      /\ extra[c] \in Nat /\ dropped[c] \in Nat
  BY DEF TypeOK
<1>2. QED
  BY <1>1, CountType DEF Commands, Ends, Awaited

\* Lines whose last one ends the answer are counted.
LEMMA EndedCounts ==
  ASSUME NEW lines \in Seq(Lines), lines # <<>>, Last(lines) # Text
  PROVE  Ends(lines) # 0
<1>1. /\ Last(lines) = lines[Len(lines)] /\ Len(lines) \in DOMAIN lines
      /\ lines[Len(lines)] \in Lines
  BY DEF Last
<1>2. Last(lines) \in Range(lines) /\ Last(lines) \in Lines \ {Text}
  BY <1>1 DEF Range
<1>3. QED
  BY <1>2, CountZero DEF Ends

\* Naturals that add up to nothing.
LEMMA NothingExpected ==
  ASSUME TypeOK, NEW c \in Clients, Expected(c) + dropped[c] = 0
  PROVE  Commands(toServer[c]) = 0 /\ Ends(out[c]) = 0 /\ thread[c] # "none"
<1>1. PICK i \in Nat : i = Commands(toServer[c])
  BY Counted
<1>2. PICK j \in Nat : j = Ends(out[c])
  BY Counted
<1>3. PICK k \in Nat : k = Ends(toClient[c])
  BY Counted
<1>4. PICK m \in Nat : m = dropped[c]
  BY Counted
<1>5. PICK l \in Nat : l = IF thread[c] = "none" THEN 1 ELSE 0
  OBVIOUS
<1>6. i + j + k + l + m = 0
  BY <1>1, <1>2, <1>3, <1>4, <1>5 DEF Expected
<1>7. i = 0 /\ j = 0 /\ l = 0
  BY <1>6
<1>8. QED
  BY <1>1, <1>2, <1>5, <1>7

\* Connect, ReadEnd and Kill change the client alone, and it is not answered after it.
LEMMA ClientMoves ==
  ASSUME TypeOK, NEW c \in Clients, ClientInv(c), Connect(c) \/ ReadEnd(c) \/ Kill(c)
  PROVE  ClientInv(c)'
<1>1. /\ UNCHANGED <<prompt, given, toServer, alive, thread, cwd, out, reset, toClient, extra,
                     dropped>>
      /\ \/ client[c] = "start" /\ client'[c] = IF alive THEN "reading" ELSE "closed"
         \/ client[c] = "reading" /\ client'[c] = "prompt" /\ Disconnected(c)
         \/ client'[c] = "killed"
  BY DEF Connect, ReadEnd, Kill, TypeOK, threadVars, ghosts
<1>2. InConversation(c)' => InConversation(c) /\ client[c] = "start" /\ client'[c] = "reading"
  BY <1>1 DEF InConversation, Gone, Disconnected
<1>3. Balanced(c)'
  <2>1. InConversation(c)' => Awaited(c)' = Awaited(c)
    BY <1>2 DEF Awaited
  <2>2. Expected(c)' = Expected(c) /\ extra'[c] = extra[c] /\ dropped'[c] = dropped[c]
    BY <1>1 DEF Expected
  <2>3. QED
    BY <1>2, <2>1, <2>2 DEF ClientInv, Balanced
<1>4. Ended(c)'
  BY <1>1 DEF ClientInv, Ended
<1>5. OutOf(c)' = OutOf(c) /\ ToClientOf(c)' = ToClientOf(c)
  BY <1>1 DEF OutOf, ToClientOf
<1>6. InStep(c)'
  BY <1>1, <1>2, <1>5 DEF ClientInv, InStep
<1>7. Quiet(c)'
  BY <1>1 DEF Quiet
<1>8. QED
  BY <1>3, <1>4, <1>6, <1>7 DEF ClientInv

\* A client that ends at its prompt has had all the answers, unless one was too many.
LEMMA EndOfInputMoves ==
  ASSUME TypeOK, NEW c \in Clients, ClientInv(c), EndOfInput(c)
  PROVE  ClientInv(c)'
<1>1. /\ UNCHANGED <<prompt, given, toServer, alive, thread, cwd, out, reset, toClient, extra,
                     dropped>>
      /\ client[c] = "prompt" /\ client'[c] = "closed"
  BY DEF EndOfInput, TypeOK, threadVars, ghosts
<1>2. ~InConversation(c)'
  BY <1>1 DEF InConversation, Gone
<1>3. Balanced(c)' /\ Ended(c)'
  BY <1>1, <1>2 DEF ClientInv, Balanced, Ended
<1>4. OutOf(c)' = OutOf(c) /\ ToClientOf(c)' = ToClientOf(c)
  BY <1>1 DEF OutOf, ToClientOf
<1>5. InStep(c)'
  BY <1>1, <1>2, <1>4 DEF ClientInv, InStep
<1>6. Quiet(c)'
  <2> SUFFICES ASSUME extra[c] = 0, alive, thread[c] # "closed"
               PROVE  thread[c] = "receiving" /\ Commands(toServer[c]) = 0
    BY <1>1 DEF Quiet
  <2>1. Expected(c) + dropped[c] = 0
    <3>1. Expected(c) + dropped[c] = Awaited(c) + extra[c]
      BY <1>1 DEF ClientInv, Balanced, InConversation, Gone
    <3>2. Awaited(c) = 0
      BY <1>1 DEF Awaited
    <3>3. QED
      BY <3>1, <3>2
  <2>2. Commands(toServer[c]) = 0 /\ Ends(out[c]) = 0 /\ thread[c] # "none"
    BY <2>1, NothingExpected
  <2>3. thread[c] \notin {"sending", "leaving"}
    <3>1. out[c] \in Seq(Lines)
      BY DEF TypeOK
    <3>2. thread[c] \in {"sending", "leaving"} => out[c] # <<>> /\ Last(out[c]) # Text
      BY DEF TypeOK, ClientInv, Ended
    <3>3. QED
      BY <2>2, <3>1, <3>2, EndedCounts
  <2>4. thread[c] \in {"none", "sending", "receiving", "leaving", "closed"}
    BY DEF TypeOK
  <2>5. QED
    BY <2>2, <2>3, <2>4
<1>7. QED
  BY <1>3, <1>5, <1>6 DEF ClientInv

\* One command more under way, and one answer more to wait for.
LEMMA SendCommandMoves ==
  ASSUME TypeOK, NEW c \in Clients, ClientInv(c), SendCommand(c)
  PROVE  ClientInv(c)'
<1>1. /\ UNCHANGED <<prompt, alive, thread, cwd, out, reset, toClient, extra, dropped>>
      /\ client[c] = "prompt" /\ client'[c] = "newline"
  BY DEF SendCommand, TypeOK, threadVars, ghosts
<1>2. PICK t \in Typed :
        toServer' = IF Disconnected(c) THEN toServer ELSE [toServer EXCEPT ![c] = Append(@, t)]
  BY DEF SendCommand
<1>3. InConversation(c)' => InConversation(c) /\ ~Disconnected(c)
  BY <1>1 DEF InConversation, Gone, Disconnected
<1>4. Balanced(c)'
  <2> SUFFICES ASSUME InConversation(c)'
               PROVE  Expected(c)' + dropped'[c] = Awaited(c)' + extra'[c]
    BY DEF Balanced
  <2>1. toServer'[c] = Append(toServer[c], t) /\ toServer[c] \in Seq(Tokens)
    BY <1>2, <1>3 DEF TypeOK
  <2>2. t \in Tokens \ {Newline}
    <3>1. t \in Requests
      BY <1>2 DEF Requests
    <3>2. QED
      BY <3>1, TokensAre
  <2>3. Commands(toServer'[c]) = Commands(toServer[c]) + 1
    BY <2>1, <2>2, CountAppend DEF Commands
  <2>4. Expected(c)' = Expected(c) + 1
    <3>1. /\ Ends(out'[c]) = Ends(out[c]) /\ Ends(toClient'[c]) = Ends(toClient[c])
          /\ thread'[c] = thread[c]
      BY <1>1
    <3>2. QED
      BY <2>3, <3>1, Counted DEF Expected
  <2>5. Awaited(c) = 0 /\ Awaited(c)' = 1
    BY <1>1 DEF Awaited
  <2>6. Expected(c) + dropped[c] = Awaited(c) + extra[c]
    BY <1>3 DEF ClientInv, Balanced
  <2>7. Expected(c) \in Nat
    BY Counted DEF Expected
  <2>8. QED
    BY <1>1, <2>4, <2>5, <2>6, <2>7, Counted
<1>5. Ended(c)'
  BY <1>1 DEF ClientInv, Ended
<1>6. OutOf(c)' = OutOf(c) /\ ToClientOf(c)' = ToClientOf(c)
  BY <1>1 DEF OutOf, ToClientOf
<1>7. InStep(c)'
  BY <1>1, <1>3, <1>6 DEF ClientInv, InStep
<1>8. Quiet(c)'
  BY <1>1 DEF Quiet
<1>9. QED
  BY <1>4, <1>5, <1>7, <1>8 DEF ClientInv

\* The newline is no command.
LEMMA SendNewlineMoves ==
  ASSUME TypeOK, NEW c \in Clients, ClientInv(c), SendNewline(c)
  PROVE  ClientInv(c)'
<1>1. /\ UNCHANGED <<prompt, alive, thread, cwd, out, reset, toClient, extra, dropped>>
      /\ client[c] = "newline"
      /\ \/ Disconnected(c) /\ client'[c] \in {"reading", "killed"}
         \/ /\ client'[c] = "reading"
            /\ toServer' = [toServer EXCEPT ![c] = Append(@, Newline)]
  BY DEF SendNewline, TypeOK, threadVars, ghosts
<1>2. InConversation(c)' => InConversation(c) /\ ~Disconnected(c)
  BY <1>1 DEF InConversation, Gone, Disconnected
<1>3. Balanced(c)'
  <2> SUFFICES ASSUME InConversation(c)'
               PROVE  Expected(c)' + dropped'[c] = Awaited(c)' + extra'[c]
    BY DEF Balanced
  <2>1. /\ toServer'[c] = Append(toServer[c], Newline) /\ toServer[c] \in Seq(Tokens)
        /\ client'[c] = "reading"
    BY <1>1, <1>2 DEF TypeOK
  <2>2. Commands(toServer'[c]) = Commands(toServer[c]) + 0
    BY <2>1, CountAppend, TokensAre DEF Commands
  <2>3. Commands(toServer'[c]) = Commands(toServer[c])
    BY <2>2, Counted
  <2>4. Expected(c)' = Expected(c)
    BY <1>1, <2>3 DEF Expected
  <2>5. Awaited(c)' = Awaited(c)
    BY <1>1, <2>1 DEF Awaited
  <2>6. Expected(c) + dropped[c] = Awaited(c) + extra[c]
    BY <1>2 DEF ClientInv, Balanced
  <2>7. QED
    BY <1>1, <2>4, <2>5, <2>6
<1>4. Ended(c)'
  BY <1>1 DEF ClientInv, Ended
<1>5. OutOf(c)' = OutOf(c) /\ ToClientOf(c)' = ToClientOf(c)
  BY <1>1 DEF OutOf, ToClientOf
<1>6. InStep(c)'
  BY <1>1, <1>2, <1>5 DEF ClientInv, InStep
<1>7. Quiet(c)'
  BY <1>1 DEF Quiet
<1>8. QED
  BY <1>3, <1>4, <1>6, <1>7 DEF ClientInv

\* A line that ends the answer is one answer less under way and none to wait for.
LEMMA ReadLineMoves ==
  ASSUME TypeOK, NEW c \in Clients, ClientInv(c), ReadLine(c)
  PROVE  ClientInv(c)'
<1> DEFINE line == Head(toClient[c])
<1>1. /\ toClient[c] \in Seq(Lines) /\ toClient[c] # <<>> /\ client[c] = "reading"
      /\ toClient'[c] = Tail(toClient[c])
      /\ prompt'[c] = IF IsPrompt(line) THEN line ELSE prompt[c]
      /\ client'[c] = IF IsPrompt(line) THEN "prompt"
                      ELSE IF line = Bye THEN "closed" ELSE "reading"
      /\ UNCHANGED <<given, toServer, alive, thread, cwd, out, reset, extra, dropped>>
  BY DEF ReadLine, TypeOK, threadVars, ghosts
<1>2. /\ line \in Lines /\ line \in ToClientOf(c) /\ ToClientOf(c)' \subseteq ToClientOf(c)
      /\ OutOf(c)' = OutOf(c)
  BY <1>1, RangeTail DEF ToClientOf, OutOf
<1>3. /\ line # Text <=> IsPrompt(line) \/ line = Bye
      /\ IsPrompt(line) /\ line # TextGt => line.kind = "prompt"
  BY <1>2, LinesAre
<1>4. Ends(toClient[c]) = Ends(Tail(toClient[c])) + IF line # Text THEN 1 ELSE 0
  BY <1>1, <1>2, CountTail DEF Ends
<1> HIDE DEF line
<1>5. InConversation(c)' => InConversation(c) /\ (line = Text \/ IsPrompt(line))
  BY <1>1, <1>3 DEF InConversation, Gone
<1>6. Balanced(c)'
  <2> SUFFICES ASSUME InConversation(c)'
               PROVE  Expected(c)' + dropped'[c] = Awaited(c)' + extra'[c]
    BY DEF Balanced
  <2>1. Ends(Tail(toClient[c])) \in Nat
    <3>1. Tail(toClient[c]) \in Seq(Lines)
      BY <1>1
    <3>2. QED
      BY <3>1, CountType DEF Ends
  <2>2. Expected(c) = Expected(c)' + IF line # Text THEN 1 ELSE 0
    BY <1>1, <1>4, <2>1, Counted DEF Expected
  <2>3. Awaited(c) = Awaited(c)' + IF line # Text THEN 1 ELSE 0
    BY <1>1, <1>3, <1>5 DEF Awaited
  <2>4. Expected(c) + dropped[c] = Awaited(c) + extra[c]
    BY <1>5 DEF ClientInv, Balanced
  <2>5. Expected(c)' \in Nat /\ Awaited(c)' \in Nat
    BY <1>1, <2>1, Counted DEF Expected, Awaited
  <2>6. dropped'[c] = dropped[c] /\ extra'[c] = extra[c]
    BY <1>1
  <2>7. QED
    BY <2>2, <2>3, <2>4, <2>5, <2>6, Counted
<1>7. Ended(c)'
  BY <1>1 DEF ClientInv, Ended
<1>8. InStep(c)'
  <2> SUFFICES ASSUME extra[c] = 0
               PROVE  /\ TextGt \notin OutOf(c)' \cup ToClientOf(c)'
                      /\ Bye \in OutOf(c)' => thread[c] = "leaving"
                      /\ Bye \in ToClientOf(c)' => thread[c] = "closed"
                      /\ InConversation(c)' =>
                           /\ \A l \in OutOf(c)' \cup ToClientOf(c)' :
                                l.kind = "prompt" => l = Prompt(cwd[c])
                           /\ client'[c] = "prompt" => prompt'[c] = Prompt(cwd[c])
    BY <1>1 DEF InStep
  <2>1. InStep(c)
    BY DEF ClientInv
  <2>2. line # TextGt
    BY <1>2, <2>1 DEF InStep
  <2>3. InConversation(c)' /\ client'[c] = "prompt" => prompt'[c] = Prompt(cwd[c])
    <3> SUFFICES ASSUME InConversation(c)', client'[c] = "prompt"
                 PROVE  prompt'[c] = Prompt(cwd[c])
      OBVIOUS
    <3>1. IsPrompt(line) /\ prompt'[c] = line
      BY <1>1
    <3>2. line.kind = "prompt"
      BY <1>3, <2>2, <3>1
    <3>3. QED
      BY <1>2, <1>5, <2>1, <3>1, <3>2 DEF InStep
  <2>4. QED
    BY <1>2, <1>5, <2>1, <2>3 DEF InStep
<1>9. Quiet(c)'
  <2>1. client'[c] = "closed" => Bye \in ToClientOf(c)
    BY <1>1, <1>2
  <2>2. QED
    BY <1>1, <2>1 DEF ClientInv, InStep, Quiet
<1>10. QED
  BY <1>6, <1>7, <1>8, <1>9 DEF ClientInv

-----------------------------------------------------------------------------
(***************************************************************************)
(* What the thread of a client does, for the client.                       *)
(***************************************************************************)

\* The greeting is the answer that the client awaits from the start.
LEMMA AcceptMoves ==
  ASSUME TypeOK, NEW c \in Clients, ClientInv(c), Accept(c)
  PROVE  ClientInv(c)'
<1> DEFINE greeting == <<Text, Prompt(<<>>)>>
<1>1. /\ UNCHANGED <<client, prompt, given, toServer, alive, cwd, reset, toClient, extra,
                     dropped>>
      /\ alive /\ thread[c] = "none" /\ thread'[c] = "sending" /\ out'[c] = greeting
  BY DEF Accept, TypeOK, clientVars, ghosts
<1>2. out[c] = <<>> /\ cwd[c] = <<>>
  BY <1>1 DEF TypeOK, ClientInv, Ended
<1>3. /\ Ends(greeting) = 1 /\ Range(greeting) = {Text, Prompt(<<>>)}
      /\ Last(greeting) = Prompt(<<>>) /\ Prompt(<<>>) \notin {Text, TextGt, Bye}
      /\ Text \notin {TextGt, Bye} /\ Text.kind # "prompt"
  BY GreetingCounts, LinesAre
<1> HIDE DEF greeting
<1>4. InConversation(c)' => InConversation(c)
  BY <1>1 DEF InConversation, Gone
<1>5. Balanced(c)'
  <2>1. Ends(out[c]) = 0
    BY <1>2, CountEmpty DEF Ends
  <2>2. Expected(c)' = Expected(c)
    BY <1>1, <1>3, <2>1, Counted DEF Expected
  <2>3. Awaited(c)' = Awaited(c)
    BY <1>1 DEF Awaited
  <2>4. QED
    BY <1>1, <1>4, <2>2, <2>3 DEF ClientInv, Balanced
<1>6. Ended(c)'
  BY <1>1, <1>3 DEF Ended
<1>7. OutOf(c)' = {Text, Prompt(<<>>)} /\ ToClientOf(c)' = ToClientOf(c)
  BY <1>1, <1>3 DEF OutOf, ToClientOf
<1>8. InStep(c)'
  <2>1. InStep(c)
    BY DEF ClientInv
  <2>2. QED
    BY <1>1, <1>2, <1>3, <1>4, <1>7, <2>1 DEF InStep
<1>9. Quiet(c)'
  BY <1>1 DEF ClientInv, Quiet
<1>10. QED
  BY <1>5, <1>6, <1>8, <1>9 DEF ClientInv

\* A thread that ends has nothing to say.
LEMMA RecvEndMoves ==
  ASSUME TypeOK, NEW c \in Clients, ClientInv(c), RecvEnd(c)
  PROVE  ClientInv(c)'
<1>1. /\ UNCHANGED <<client, prompt, given, toServer, alive, cwd, out, reset, toClient, extra,
                     dropped>>
      /\ thread[c] = "receiving" /\ thread'[c] = "closed"
  BY DEF RecvEnd, TypeOK, clientVars, ghosts
<1>2. ~InConversation(c)'
  BY <1>1 DEF InConversation
<1>3. Balanced(c)' /\ Ended(c)' /\ Quiet(c)'
  BY <1>1, <1>2 DEF Balanced, Ended, Quiet
<1>4. OutOf(c)' = {} /\ ToClientOf(c)' = ToClientOf(c)
  <2>1. out'[c] = <<>>
    BY <1>1 DEF TypeOK
  <2>2. Range(<<>>) = {}
    BY DEF Range
  <2>3. QED
    BY <1>1, <2>1, <2>2 DEF OutOf, ToClientOf
<1>5. InStep(c)'
  BY <1>1, <1>2, <1>4 DEF ClientInv, InStep
<1>6. QED
  BY <1>3, <1>5 DEF ClientInv

LEMMA LastTail ==
  ASSUME NEW lines \in Seq(Lines), Tail(lines) # <<>>
  PROVE  Last(Tail(lines)) = Last(lines)
<1>1. CASE lines = <<>>
  BY <1>1 DEF Last
<1>2. CASE lines # <<>>
  <2>1. Len(Tail(lines)) = Len(lines) - 1 /\ Tail(lines) \in Seq(Lines)
    BY <1>2
  <2>2. Len(Tail(lines)) >= 1
    BY <2>1
  <2>3. Tail(lines)[Len(lines) - 1] = lines[Len(lines)]
    BY <1>2, <2>1, <2>2
  <2>4. QED
    BY <2>1, <2>3 DEF Last
<1>3. QED
  BY <1>1, <1>2

\* A line on its way is counted once, on this side or on the other.
LEMMA SendMoves ==
  ASSUME TypeOK, NEW c \in Clients, ClientInv(c), Send(c)
  PROVE  ClientInv(c)'
<1> DEFINE line == Head(out[c])
           rest == Tail(out[c])
<1>1. /\ alive /\ thread[c] \in {"sending", "leaving"}
      /\ out[c] \in Seq(Lines) /\ out[c] # <<>> /\ line \in Lines
      /\ rest \in Seq(Lines) /\ out'[c] = rest
      /\ toClient' = IF Gone(c) THEN toClient ELSE [toClient EXCEPT ![c] = Append(@, line)]
      /\ UNCHANGED <<client, prompt, given, toServer, alive, cwd, extra, dropped>>
  <2>1. /\ alive /\ thread[c] \in {"sending", "leaving"}
        /\ out[c] \in Seq(Lines) /\ out[c] # <<>> /\ line \in Lines
        /\ rest \in Seq(Lines) /\ out' = [out EXCEPT ![c] = rest]
        /\ toClient' = IF Gone(c) THEN toClient ELSE [toClient EXCEPT ![c] = Append(@, line)]
        /\ UNCHANGED <<client, prompt, given, toServer, alive, cwd, extra, dropped>>
    BY SendGives
  <2>2. out'[c] = rest
    BY <2>1 DEF TypeOK
  <2>3. QED
    BY <2>1, <2>2
<1>2. \/ rest # <<>> /\ thread'[c] = thread[c]
      \/ rest = <<>> /\ thread'[c] = IF thread[c] = "leaving" THEN "closed" ELSE "receiving"
  <2>1. PICK label \in {thread[c], "receiving", "closed"} :
          /\ thread' = [thread EXCEPT ![c] = label]
          /\ \/ rest # <<>> /\ label = thread[c]
             \/ rest = <<>> /\ label = IF thread[c] = "leaving" THEN "closed" ELSE "receiving"
    BY SendGives
  <2>2. thread'[c] = label
    BY <2>1 DEF TypeOK
  <2>3. QED
    BY <2>1, <2>2
<1>3. thread[c] = "leaving" => rest = <<>>
  <2>1. Tail(<<Bye>>) = <<>>
    OBVIOUS
  <2>2. QED
    BY <2>1 DEF ClientInv, Ended
<1>4. line \in OutOf(c) /\ OutOf(c)' \subseteq OutOf(c) /\ (rest = <<>> => OutOf(c)' = {})
  <2>1. line \in Range(out[c]) /\ Range(rest) \subseteq Range(out[c])
    BY <1>1, RangeTail
  <2>2. Range(<<>>) = {}
    BY DEF Range
  <2>3. OutOf(c)' = Range(rest)
    BY <1>1 DEF OutOf
  <2>4. QED
    BY <2>1, <2>2, <2>3 DEF OutOf
<1>5. toClient[c] \in Seq(Lines)
  BY DEF TypeOK
<1>6. ToClientOf(c)' \subseteq ToClientOf(c) \cup {line}
  <2>1. CASE Gone(c)
    BY <1>1, <2>1 DEF ToClientOf
  <2>2. CASE ~Gone(c)
    <3>1. toClient'[c] = Append(toClient[c], line)
      BY <1>1, <2>2 DEF TypeOK
    <3>2. QED
      BY <1>1, <1>5, <3>1, RangeAppend DEF ToClientOf
  <2>3. QED
    BY <2>1, <2>2
<1>7. InConversation(c)' => InConversation(c) /\ ~Gone(c)
  BY <1>1 DEF InConversation, Gone
<1>8. Balanced(c)'
  <2> SUFFICES ASSUME InConversation(c)'
               PROVE  Expected(c)' + dropped'[c] = Awaited(c)' + extra'[c]
    BY DEF Balanced
  <2> DEFINE one == IF line # Text THEN 1 ELSE 0
  <2>1. Ends(out[c]) = Ends(rest) + one /\ Ends(rest) \in Nat
    <3>1. Ends(out[c]) = Ends(rest) + IF line \in Lines \ {Text} THEN 1 ELSE 0
      BY <1>1, CountTail DEF Ends
    <3>2. Ends(rest) \in Nat
      BY <1>1, CountType DEF Ends
    <3>3. line \in Lines
      BY <1>1
    <3> HIDE DEF line, rest
    <3>4. QED
      BY <3>1, <3>2, <3>3
  <2>2. toClient'[c] = Append(toClient[c], line)
    BY <1>1, <1>7 DEF TypeOK
  <2>3. Ends(toClient'[c]) = Ends(toClient[c]) + one
    BY <1>1, <1>5, <2>2, CountAppend DEF Ends
  <2>4. one \in Nat
    OBVIOUS
  <2> HIDE DEF one
  <2>5. Commands(toServer[c]) \in Nat /\ Ends(toClient[c]) \in Nat
    BY Counted
  <2>6. Expected(c) = Commands(toServer[c]) + (Ends(rest) + one) + Ends(toClient[c]) + 0
    BY <1>1, <2>1 DEF Expected
  <2>7. Expected(c)' = Commands(toServer[c]) + Ends(rest) + (Ends(toClient[c]) + one) + 0
    <3>1. thread'[c] # "none"
      BY <1>1, <1>2
    <3>2. toServer'[c] = toServer[c] /\ out'[c] = rest
      BY <1>1
    <3>3. QED
      BY <2>3, <3>1, <3>2 DEF Expected
  <2>8. Expected(c)' = Expected(c)
    <3>1. \A i, j, k, l \in Nat : i + (j + l) + k + 0 = i + j + (k + l) + 0
      OBVIOUS
    <3>2. QED
      BY <2>1, <2>4, <2>5, <2>6, <2>7, <3>1
  <2>9. Awaited(c)' = Awaited(c)
    BY <1>1 DEF Awaited
  <2>10. QED
    BY <1>1, <1>7, <2>8, <2>9 DEF ClientInv, Balanced
<1>9. Ended(c)'
  <2>1. Last(out[c]) # Text
    BY <1>1 DEF ClientInv, Ended
  <2>2. rest # <<>> => Last(rest) = Last(out[c])
    BY <1>1, LastTail
  <2>3. thread'[c] \in {"sending", "leaving"} => rest # <<>> /\ thread'[c] # "leaving"
    BY <1>1, <1>2, <1>3
  <2>4. thread'[c] # "none"
    BY <1>1, <1>2
  <2>5. out'[c] = rest
    BY <1>1
  <2> HIDE DEF rest
  <2>6. QED
    BY <2>1, <2>2, <2>3, <2>4, <2>5 DEF Ended
<1> HIDE DEF line, rest
<1>10. InStep(c)'
  <2> SUFFICES ASSUME extra[c] = 0
               PROVE  /\ TextGt \notin OutOf(c)' \cup ToClientOf(c)'
                      /\ Bye \in OutOf(c)' => thread'[c] = "leaving"
                      /\ Bye \in ToClientOf(c)' => thread'[c] = "closed"
                      /\ InConversation(c)' =>
                           /\ \A l \in OutOf(c)' \cup ToClientOf(c)' :
                                l.kind = "prompt" => l = Prompt(cwd[c])
                           /\ client[c] = "prompt" => prompt[c] = Prompt(cwd[c])
    BY <1>1 DEF InStep
  <2>1. InStep(c)
    BY DEF ClientInv
  <2>2. Bye \notin OutOf(c)'
    BY <1>2, <1>3, <1>4, <2>1 DEF InStep
  <2>3. Bye \in ToClientOf(c)' => thread'[c] = "closed"
    <3>1. Bye \notin ToClientOf(c)
      BY <1>1, <2>1 DEF InStep
    <3>2. Bye \in OutOf(c) => thread[c] = "leaving"
      BY <2>1 DEF InStep
    <3>3. QED
      BY <1>2, <1>3, <1>4, <1>6, <3>1, <3>2
  <2>4. OutOf(c)' \cup ToClientOf(c)' \subseteq OutOf(c) \cup ToClientOf(c)
    BY <1>4, <1>6
  <2>5. QED
    BY <1>7, <2>1, <2>2, <2>3, <2>4 DEF InStep
<1>11. Quiet(c)'
  BY <1>1 DEF ClientInv, Quiet
<1>12. QED
  BY <1>8, <1>9, <1>10, <1>11 DEF ClientInv

\* An empty line: what is left is answered as before.
LEMMA RecvEmptyMoves ==
  ASSUME TypeOK, NEW c \in Clients, ClientInv(c), thread[c] = "receiving",
         UNCHANGED <<client, prompt, alive, thread, cwd, out, toClient>>,
         Commands(toServer'[c]) \in Nat, NEW more \in Nat, NEW passed \in Nat,
         extra'[c] = extra[c] + more, dropped'[c] = dropped[c] + passed,
         Commands(toServer'[c]) + passed = Commands(toServer[c]) + more
  PROVE  ClientInv(c)'
<1>1. InConversation(c)' => InConversation(c)
  BY DEF InConversation, Gone
<1>2. Balanced(c)'
  <2> SUFFICES ASSUME InConversation(c)'
               PROVE  Expected(c)' + dropped'[c] = Awaited(c)' + extra'[c]
    BY DEF Balanced
  <2>1. Expected(c) = Commands(toServer[c]) + Ends(out[c]) + Ends(toClient[c]) + 0
    BY DEF Expected
  <2>2. Expected(c)' = Commands(toServer'[c]) + Ends(out[c]) + Ends(toClient[c]) + 0
    BY DEF Expected
  <2>3. Awaited(c)' = Awaited(c) /\ Awaited(c) \in Nat
    BY DEF Awaited
  <2>4. Expected(c) + dropped[c] = Awaited(c) + extra[c]
    BY <1>1 DEF ClientInv, Balanced
  <2>5. \A i, j, k, l, m, n, o, p, q \in Nat :
          i + p = j + q /\ (j + k + l + 0) + m = n + o
            => (i + k + l + 0) + (m + p) = n + (o + q)
    OBVIOUS
  <2>6. QED
    BY <2>1, <2>2, <2>3, <2>4, <2>5, Counted
<1>3. Ended(c)'
  BY DEF ClientInv, Ended
<1>4. extra'[c] = 0 => extra[c] = 0 /\ more = 0
  BY Counted
<1>5. OutOf(c)' = OutOf(c) /\ ToClientOf(c)' = ToClientOf(c)
  BY DEF OutOf, ToClientOf
<1>6. InStep(c)'
  BY <1>1, <1>4, <1>5 DEF ClientInv, InStep
<1>7. Quiet(c)'
  <2> SUFFICES ASSUME client[c] = "closed", extra'[c] = 0, alive
               PROVE  Commands(toServer'[c]) = 0
    BY DEF Quiet
  <2>1. Commands(toServer[c]) = 0 /\ more = 0
    BY <1>4 DEF ClientInv, Quiet
  <2>2. QED
    BY <2>1
<1>8. QED
  BY <1>2, <1>3, <1>6, <1>7 DEF ClientInv

\* The answer takes the place of the command.
LEMMA Replaced ==
  ASSUME NEW i \in Nat, NEW j \in Nat, NEW k \in Nat, NEW l \in Nat, NEW m \in Nat, NEW n \in Nat,
         NEW o \in Nat, NEW more \in Nat, NEW passed \in Nat,
         i + passed + k = j + more, (j + 0 + l + 0) + m = n + o
  PROVE  (i + k + l + 0) + (m + passed) = n + (o + more)
OBVIOUS

\* A command: its answer takes its place.  In step, the client waits for this one alone,
\* so that no prompt for another directory is under way.
LEMMA RecvCommandMoves ==
  ASSUME TypeOK, NEW c \in Clients, ClientInv(c), alive, thread[c] = "receiving",
         UNCHANGED <<client, prompt, alive, toClient>>,
         NEW more \in Nat, NEW passed \in Nat, NEW lines \in Seq(Lines),
         NEW label \in {"sending", "leaving"},
         Said(c, lines, label, more),
         Commands(toServer'[c]) \in Nat, Ends(lines) \in Nat, Commands(toServer[c]) # 0,
         extra'[c] = extra[c] + more, dropped'[c] = dropped[c] + passed,
         Commands(toServer'[c]) + passed + Ends(lines) = Commands(toServer[c]) + more
  PROVE  ClientInv(c)'
<1>1. InConversation(c)' => InConversation(c)
  BY DEF InConversation, Gone
<1>2. /\ out'[c] = lines /\ thread'[c] = label /\ out[c] = <<>>
      /\ lines # <<>> /\ Last(lines) # Text
      /\ label = "leaving" => lines = <<Bye>>
      /\ label = "sending" /\ more = 0 => Range(lines) \subseteq {Text, Prompt(cwd'[c])}
  BY DEF Said, TypeOK
<1>3. Expected(c) = Commands(toServer[c]) + 0 + Ends(toClient[c]) + 0
  <2>1. Ends(out[c]) = 0
    BY <1>2, CountEmpty DEF Ends
  <2>2. QED
    BY <2>1 DEF Expected
<1>4. Awaited(c) \in {0, 1} /\ Awaited(c)' = Awaited(c) /\ (Awaited(c) = 0 <=> client[c] = "prompt")
  BY DEF Awaited
<1>5. InConversation(c) => Expected(c) + dropped[c] = Awaited(c) + extra[c]
  BY DEF ClientInv, Balanced
<1>6. Balanced(c)'
  <2> SUFFICES ASSUME InConversation(c)'
               PROVE  Expected(c)' + dropped'[c] = Awaited(c)' + extra'[c]
    BY DEF Balanced
  <2>1. Expected(c)' = Commands(toServer'[c]) + Ends(lines) + Ends(toClient[c]) + 0
    BY <1>2 DEF Expected
  <2>2. Awaited(c) \in Nat /\ Expected(c) + dropped[c] = Awaited(c) + extra[c]
    BY <1>1, <1>4, <1>5
  <2>3. PICK i \in Nat, j \in Nat, k \in Nat, l \in Nat :
          /\ i = Commands(toServer'[c]) /\ j = Commands(toServer[c])
          /\ k = Ends(lines) /\ l = Ends(toClient[c])
    BY Counted
  <2>4. PICK m \in Nat, n \in Nat, o \in Nat :
          m = dropped[c] /\ n = Awaited(c) /\ o = extra[c]
    BY <2>2, Counted
  <2>5. i + passed + k = j + more /\ (j + 0 + l + 0) + m = n + o
    BY <1>3, <2>2, <2>3, <2>4
  <2>6. (i + k + l + 0) + (m + passed) = n + (o + more)
    BY <2>5, Replaced
  <2>7. QED
    BY <1>4, <2>1, <2>3, <2>4, <2>6
<1>7. Ended(c)'
  BY <1>2 DEF Ended
<1>8. extra'[c] = 0 => extra[c] = 0 /\ more = 0
  BY Counted
<1>9. OutOf(c)' = Range(lines) /\ ToClientOf(c)' = ToClientOf(c)
  BY <1>2 DEF OutOf, ToClientOf
<1>10. more = 0 => Range(lines) \subseteq {Text, Prompt(cwd'[c])} \/ (Range(lines) = {Bye} /\ label = "leaving")
  <2>1. Range(<<Bye>>) = {Bye}
    BY DEF Range
  <2>2. QED
    BY <1>2, <2>1
<1>11. extra[c] = 0 /\ InConversation(c) => client[c] # "prompt" /\ ToClientOf(c) \subseteq {Text}
  <2> SUFFICES ASSUME extra[c] = 0, InConversation(c)
               PROVE  client[c] # "prompt" /\ ToClientOf(c) \subseteq {Text}
    OBVIOUS
  <2>1. (Commands(toServer[c]) + 0 + Ends(toClient[c]) + 0) + dropped[c] = Awaited(c) + 0
    BY <1>3, <1>5
  <2>2. PICK i \in Nat, j \in Nat, k \in Nat, n \in {0, 1} :
          /\ i = Commands(toServer[c]) /\ j = Ends(toClient[c])
          /\ k = dropped[c] /\ n = Awaited(c)
    BY <1>4, Counted
  <2>3. Ends(toClient[c]) = 0 /\ Awaited(c) = 1
    <3>1. (i + 0 + j + 0) + k = n + 0 /\ i # 0
      BY <2>1, <2>2
    <3>2. j = 0 /\ n = 1
      BY <3>1
    <3>3. QED
      BY <2>2, <3>2
  <2>4. toClient[c] \in Seq(Lines)
    BY DEF TypeOK
  <2>5. \A line \in Range(toClient[c]) : line \notin Lines \ {Text}
    BY <2>3, <2>4, CountZero DEF Ends
  <2>6. Range(toClient[c]) \subseteq Lines
    BY <2>4 DEF Range
  <2>7. QED
    BY <1>4, <2>3, <2>5, <2>6 DEF ToClientOf
<1>12. InStep(c)'
  <2> SUFFICES ASSUME extra'[c] = 0
               PROVE  /\ TextGt \notin Range(lines) \cup ToClientOf(c)
                      /\ Bye \in Range(lines) => label = "leaving"
                      /\ Bye \notin ToClientOf(c)
                      /\ InConversation(c) =>
                           /\ \A l \in Range(lines) \cup ToClientOf(c) :
                                l.kind = "prompt" => l = Prompt(cwd'[c])
                           /\ client[c] # "prompt"
    BY <1>1, <1>2, <1>9 DEF InStep
  <2>1. InStep(c) /\ extra[c] = 0 /\ more = 0
    BY <1>8 DEF ClientInv
  <2>2. Prompt(cwd'[c]) \notin {Text, TextGt, Bye} /\ TextGt \notin {Text, Bye} /\ Bye # Text
    BY LinesAre
  <2>3. TextGt \notin Range(lines) \cup ToClientOf(c)
    BY <1>10, <2>1, <2>2 DEF InStep
  <2>4. Bye \in Range(lines) => label = "leaving"
    BY <1>10, <2>1, <2>2
  <2>5. Bye \notin ToClientOf(c)
    BY <2>1 DEF InStep
  <2>6. ASSUME InConversation(c), NEW l \in Range(lines) \cup ToClientOf(c), l.kind = "prompt"
        PROVE  l = Prompt(cwd'[c])
    <3>1. l \in {Text, Prompt(cwd'[c]), Bye}
      BY <1>10, <1>11, <2>1, <2>6
    <3>2. QED
      BY <2>6, <3>1, LinesAre
  <2>7. InConversation(c) => client[c] # "prompt"
    BY <1>11, <2>1
  <2>8. QED
    BY <2>3, <2>4, <2>5, <2>6, <2>7
<1>13. Quiet(c)'
  BY <1>8 DEF ClientInv, Quiet
<1>14. QED
  BY <1>6, <1>7, <1>12, <1>13 DEF ClientInv

LEMMA RecvMoves ==
  ASSUME TypeOK, NEW c \in Clients, ClientInv(c), Recv(c)
  PROVE  ClientInv(c)'
<1>1. /\ alive /\ thread[c] = "receiving"
      /\ UNCHANGED <<client, prompt, alive, toClient>>
  BY RecvGives
<1>2. PICK left \in Seq(Tokens), more \in Nat, passed \in Nat :
        /\ toServer' = [toServer EXCEPT ![c] = left]
        /\ extra' = [extra EXCEPT ![c] = @ + more]
        /\ dropped' = [dropped EXCEPT ![c] = @ + passed]
        /\ Commands(left) \in Nat /\ Commands(toServer[c]) \in Nat
        /\ \/ /\ Empty
              /\ Commands(left) + passed = Commands(toServer[c]) + more
           \/ \E lines \in Seq(Lines), label \in {"sending", "leaving"} :
                /\ Said(c, lines, label, more)
                /\ Commands(toServer[c]) # 0
                /\ Ends(lines) \in Nat
                /\ Commands(left) + passed + Ends(lines) = Commands(toServer[c]) + more
  BY RecvGives
<1>3. /\ toServer'[c] = left
      /\ extra'[c] = extra[c] + more /\ dropped'[c] = dropped[c] + passed
  BY <1>2 DEF TypeOK
<1>4. Commands(toServer'[c]) = Commands(left) /\ Commands(toServer'[c]) \in Nat
  BY <1>2, <1>3
<1>5. CASE Empty /\ Commands(left) + passed = Commands(toServer[c]) + more
  <2>1. UNCHANGED <<client, prompt, alive, thread, cwd, out, toClient>>
    BY <1>1, <1>5 DEF Empty
  <2>2. Commands(toServer'[c]) + passed = Commands(toServer[c]) + more
    BY <1>4, <1>5
  <2>3. QED
    BY <1>1, <1>3, <1>4, <2>1, <2>2, RecvEmptyMoves
<1>6. ASSUME NEW lines \in Seq(Lines), NEW label \in {"sending", "leaving"},
             Said(c, lines, label, more), Commands(toServer[c]) # 0, Ends(lines) \in Nat,
             Commands(left) + passed + Ends(lines) = Commands(toServer[c]) + more
      PROVE  ClientInv(c)'
  <2>1. Commands(toServer'[c]) + passed + Ends(lines) = Commands(toServer[c]) + more
    BY <1>4, <1>6
  <2>2. QED
    BY <1>1, <1>3, <1>4, <1>6, <2>1, RecvCommandMoves
<1>7. QED
  BY <1>2, <1>5, <1>6

-----------------------------------------------------------------------------
(***************************************************************************)
(* The invariant, and what follows from it.                                *)
(***************************************************************************)
LEMMA InvInit == Init => SessionInv
<1> SUFFICES ASSUME Init PROVE SessionInv
  OBVIOUS
<1>1. TypeOK
  BY TypeInit
<1>2. ASSUME NEW c \in Clients
      PROVE  ClientInv(c)
  <2>1. /\ client[c] = "start" /\ thread[c] = "none" /\ cwd[c] = <<>>
        /\ out[c] = <<>> /\ toServer[c] = <<>> /\ toClient[c] = <<>>
        /\ extra[c] = 0 /\ dropped[c] = 0
    BY DEF Init
  <2>2. Ends(<<>>) = 0 /\ Commands(<<>>) = 0
    BY CountEmpty DEF Ends, Commands
  <2>3. Expected(c) = 0 + 0 + 0 + 1 /\ Awaited(c) = 1
    BY <2>1, <2>2 DEF Expected, Awaited
  <2>4. Balanced(c)
    BY <2>1, <2>3 DEF Balanced
  <2>5. OutOf(c) = {} /\ ToClientOf(c) = {}
    BY <2>1 DEF OutOf, ToClientOf, Range
  <2>6. Ended(c) /\ InStep(c) /\ Quiet(c)
    BY <2>1, <2>5 DEF Ended, InStep, Quiet
  <2>7. QED
    BY <2>4, <2>6 DEF ClientInv
<1>3. ServerSurvives
  BY DEF Init, ServerSurvives
<1>4. QED
  BY <1>1, <1>2, <1>3 DEF SessionInv

\* A client that was killed stays so, and answers that were too many stay counted.
LEMMA Lasting ==
  ASSUME TypeOK, NEW c \in Clients, Server(c) \/ Client(c) \/ User(c)
  PROVE  /\ client[c] = "killed" => client'[c] = "killed"
         /\ extra'[c] = 0 => extra[c] = 0
<1>1. CASE Connect(c) \/ ReadEnd(c) \/ EndOfInput(c) \/ Kill(c)
  BY <1>1 DEF Connect, ReadEnd, EndOfInput, Kill, TypeOK, ghosts
<1>2. CASE SendCommand(c) \/ SendNewline(c) \/ ReadLine(c)
  <2>1. client[c] # "killed" /\ UNCHANGED extra
    BY <1>2 DEF SendCommand, SendNewline, ReadLine, ghosts
  <2>2. QED
    BY <2>1
<1>3. CASE Recv(c)
  <2>1. UNCHANGED client /\ \E more \in Nat : extra' = [extra EXCEPT ![c] = @ + more]
    BY <1>3, RecvGives
  <2>2. PICK more \in Nat : extra'[c] = extra[c] + more
    BY <2>1 DEF TypeOK
  <2>3. extra[c] \in Nat
    BY DEF TypeOK
  <2>4. QED
    BY <2>1, <2>2, <2>3
<1>4. CASE Accept(c) \/ Send(c) \/ BrokenPipe(c) \/ RecvEnd(c)
  BY <1>4 DEF Accept, Send, BrokenPipe, RecvEnd, clientVars, ghosts
<1>5. QED
  BY <1>1, <1>2, <1>3, <1>4 DEF Server, Client, User

\* The server ends with the thread of a client that was killed, or that got out of step.
LEMMA SurvivesNext ==
  ASSUME SessionInv, NEW c \in Clients, Server(c) \/ Client(c) \/ User(c)
  PROVE  ServerSurvives'
<1> SUFFICES ASSUME \A d \in Clients : client'[d] # "killed" /\ extra'[d] = 0
             PROVE  alive'
  BY DEF ServerSurvives
<1>1. TypeOK
  BY DEF SessionInv
<1>2. client[c] # "killed" /\ extra[c] = 0
  BY <1>1, Lasting
<1>3. ASSUME NEW d \in Clients, d # c
      PROVE  client[d] # "killed" /\ extra[d] = 0
  BY <1>1, <1>3, OthersUntouched DEF Untouched
<1>4. alive
  BY <1>2, <1>3 DEF SessionInv, ServerSurvives
<1>5. CASE BrokenPipe(c)
  <2>1. client[c] = "closed" /\ thread[c] \in {"sending", "leaving"}
    BY <1>2, <1>5 DEF BrokenPipe, Gone
  <2>2. Quiet(c)
    BY DEF SessionInv, ClientInv
  <2>3. QED
    BY <1>2, <1>4, <2>1, <2>2 DEF Quiet
<1>6. CASE Recv(c)
  BY <1>1, <1>4, <1>6, RecvGives
<1>7. CASE Accept(c) \/ Send(c) \/ RecvEnd(c)
  BY <1>4, <1>7 DEF Accept, Send, RecvEnd
<1>8. CASE Client(c) \/ User(c)
  BY <1>4, <1>8 DEF Client, User, Connect, ReadLine, ReadEnd, SendCommand, SendNewline,
                    EndOfInput, Kill
<1>9. QED
  BY <1>5, <1>6, <1>7, <1>8 DEF Server

LEMMA InvNext == SessionInv /\ [Next]_vars => SessionInv'
<1> SUFFICES ASSUME SessionInv, [Next]_vars PROVE SessionInv'
  OBVIOUS
<1>1. TypeOK /\ TypeOK'
  BY TypeNext DEF SessionInv
<1>2. alive \in BOOLEAN
  BY <1>1 DEF TypeOK
<1>3. ASSUME NEW c \in Clients, Server(c) \/ Client(c) \/ User(c)
      PROVE  SessionInv'
  <2>1. ASSUME NEW d \in Clients, d # c
        PROVE  ClientInv(d)'
    <3>1. ClientInv(d)
      BY DEF SessionInv
    <3>2. Untouched(d)
      BY <1>1, <1>3, <2>1, OthersUntouched
    <3>3. QED
      BY <1>2, <3>1, <3>2, Frame
  <2>2. ClientInv(c)'
    <3>1. ClientInv(c)
      BY DEF SessionInv
    <3>2. CASE Client(c) \/ User(c)
      BY <1>1, <3>1, <3>2, ClientMoves, EndOfInputMoves, SendCommandMoves, SendNewlineMoves,
         ReadLineMoves DEF Client, User
    <3>3. CASE BrokenPipe(c)
      <4>1. Untouched(c)
        BY <3>3 DEF BrokenPipe, Untouched, clientVars, threadVars, ghosts
      <4>2. QED
        BY <1>2, <3>1, <4>1, Frame
    <3>4. CASE Accept(c) \/ Recv(c) \/ Send(c) \/ RecvEnd(c)
      BY <1>1, <3>1, <3>4, AcceptMoves, RecvMoves, SendMoves, RecvEndMoves
    <3>5. QED
      BY <1>3, <3>2, <3>3, <3>4 DEF Server
  <2>3. \A d \in Clients : ClientInv(d)'
    BY <2>1, <2>2
  <2>4. ServerSurvives'
    BY <1>3, SurvivesNext
  <2>5. QED
    BY <1>1, <2>3, <2>4 DEF SessionInv
<1>4. CASE UNCHANGED vars
  <2>1. UNCHANGED <<client, prompt, toServer, alive, thread, cwd, out, toClient, extra, dropped>>
    BY <1>4 DEF vars, clientVars, threadVars, ghosts
  <2>2. ASSUME NEW d \in Clients
        PROVE  ClientInv(d)'
    <3>1. ClientInv(d)
      BY DEF SessionInv
    <3>2. Untouched(d)
      BY <2>1 DEF Untouched
    <3>3. QED
      BY <1>2, <3>1, <3>2, Frame
  <2>3. ServerSurvives'
    BY <2>1 DEF SessionInv, ServerSurvives
  <2>4. QED
    BY <1>1, <2>2, <2>3 DEF SessionInv
<1>5. QED
  BY <1>3, <1>4 DEF Next

\* Every client and its thread keep their balance in every behaviour.
THEOREM SessionsInStep == Spec => []SessionInv
<1>1. Init => SessionInv
  BY InvInit
<1>2. SessionInv /\ [Next]_vars => SessionInv'
  BY InvNext
<1>3. QED
  BY <1>1, <1>2, PTL DEF Spec

\* client.c and client_thread() count the same: what is under way is what the client waits
\* for, up to the answers that were too many and the commands that were passed over.
THEOREM AnswersAreBalanced == Spec => []AnswersBalance
<1>1. SessionInv => AnswersBalance
  BY DEF SessionInv, ClientInv, Balanced, AnswersBalance
<1>2. QED
  BY <1>1, SessionsInStep, PTL

\* handle_server() comes back with the prompt of the directory that the next command will
\* be executed in, and with nothing more to come, as long as no answer was too many.
THEOREM PromptsAreCurrent == Spec => []PromptIsCurrent
<1>1. SessionInv => PromptIsCurrent
  <2> SUFFICES ASSUME SessionInv, NEW c \in Clients, InConversation(c), client[c] = "prompt",
                      extra[c] = 0
               PROVE  prompt[c] = Prompt(cwd[c]) /\ Expected(c) = 0
    BY DEF PromptIsCurrent
  <2>1. TypeOK /\ InStep(c) /\ Balanced(c)
    BY DEF SessionInv, ClientInv
  <2>2. prompt[c] = Prompt(cwd[c])
    BY <2>1 DEF InStep
  <2>3. Expected(c) + dropped[c] = Awaited(c) + extra[c] /\ Awaited(c) = 0
    BY <2>1 DEF Balanced, Awaited
  <2>4. Expected(c) \in Nat /\ dropped[c] \in Nat
    BY <2>1, Counted DEF Expected
  <2>5. Expected(c) = 0
    BY <2>3, <2>4
  <2>6. QED
    BY <2>2, <2>5
<1>2. QED
  BY <1>1, SessionsInStep, PTL

\* Clients that end at their prompt or by the BYE to QUIT find client_thread() at its
\* recv() or gone: no send() of the server ends in SIGPIPE.
THEOREM TheServerSurvives == Spec => []ServerSurvives
<1>1. SessionInv => ServerSurvives
  BY DEF SessionInv
<1>2. QED
  BY <1>1, SessionsInStep, PTL

\* As long as no command was passed over, client and thread never both wait for the other:
\* while handle_server() reads and client_thread() is at its recv(), a command is on its
\* way to the one or the end of an answer to the other.
THEOREM NobodyWaitsInVain ==
  Spec => [](\A c \in Clients :
               /\ InConversation(c) /\ dropped[c] = 0
               /\ client[c] = "reading" /\ thread[c] = "receiving"
               => Commands(toServer[c]) > 0 \/ Ends(toClient[c]) > 0)
<1>1. ASSUME SessionInv, NEW c \in Clients, InConversation(c), dropped[c] = 0,
             client[c] = "reading", thread[c] = "receiving"
      PROVE  Commands(toServer[c]) > 0 \/ Ends(toClient[c]) > 0
  <2>1. TypeOK /\ Balanced(c)
    BY <1>1 DEF SessionInv, ClientInv
  <2>2. Expected(c) + dropped[c] = 1 + extra[c]
    BY <1>1, <2>1 DEF Balanced, Awaited
  <2>3. Ends(out[c]) = 0
    <3>1. out[c] = <<>>
      BY <1>1, <2>1 DEF TypeOK
    <3>2. QED
      BY <3>1, CountEmpty DEF Ends
  <2>4. PICK m \in Nat, n \in Nat, x \in Nat :
          m = Commands(toServer[c]) /\ n = Ends(toClient[c]) /\ x = extra[c]
    BY <2>1, Counted
  <2>5. Expected(c) = m + 0 + n + 0
    BY <1>1, <2>3, <2>4 DEF Expected
  <2>6. m + n = 1 + x
    BY <1>1, <2>2, <2>4, <2>5
  <2>7. QED
    BY <2>4, <2>6
<1>2. SessionInv =>
        \A c \in Clients :
          /\ InConversation(c) /\ dropped[c] = 0
          /\ client[c] = "reading" /\ thread[c] = "receiving"
          => Commands(toServer[c]) > 0 \/ Ends(toClient[c]) > 0
  BY <1>1
<1>3. QED
  BY <1>2, SessionsInStep, PTL
=============================================================================
