-------------------------- MODULE ParserStageProofs --------------------------
(***************************************************************************)
(* The parser stage loses no file between the raw source's announcement    *)
(* and the parser's stream, writes none twice, commits nothing that is     *)
(* not whole and blames no plugin for another's failure: for any number of *)
(* files, any room in the pipes, any number of garbled lines, and failures *)
(* of every plugin between any two steps.                                  *)
(***************************************************************************)
EXTENDS ParserStage, TLAPS

\* What the feed has handed over is what it heard of; it hears of the end behind
\* the last announcement, and what the raw source reported it said.
FeedInv ==
  /\ sent \cup ToSet(events) = ToSet(announced)
  /\ ~objectsOpen => events = <<>> /\ ~rawOpen
  /\ rawHeard # "nothing" => rawHeard = rawSaid
  /\ inputClosed => ~objectsOpen /\ rawHeard = "success"
  /\ lastSent \in sent \cup {0}

\* The lines on their way are of files that were handed over, and the end of
\* the input is behind all of them.
InputInv ==
  /\ \A line \in ToSet(queue) : line.ok /\ line.file \in sent \cup {0}
  /\ \A line \in ToSet(stdin) : line.file \in sent \cup {0} /\ (line.file = 0 => line.ok)
  /\ \A i \in 1..Len(queue) : queue[i].file = 0 => inputClosed /\ i = Len(queue)
  /\ \A i \in 1..Len(stdin) : stdin[i].file = 0 => inputClosed /\ i = Len(stdin) /\ queue = <<>>
  /\ eof => inputClosed /\ queue = <<>> /\ stdin = <<>>

\* The parser has every file it saw once, and ends its stream behind them.
ParsedInv ==
  /\ IsInjective(written) /\ IsInjective(inbox) /\ ToSet(written) \cap ToSet(inbox) = {}
  /\ seen = ToSet(written) \cup ToSet(inbox) /\ seen \subseteq sent
  /\ parser \in {"parsing", "writing"} => inbox # <<>>
  /\ parser = "ended" => stream = "marker"
  /\ stream = "marker" => parser \in {"ended", "done"} /\ inbox = <<>> /\ (quit \/ eof)
  /\ parserGone => stream \in {"marker", "cut"}

Final(word) == word.say \in {"success", "error"}

\* What the parser says last is how it ended, and it says so once.
WordsInv ==
  /\ \A k \in 1..Len(fd1) :
       /\ Final(fd1[k]) => parser = "done" /\ k = Len(fd1) /\ parserHeard = "nothing"
       /\ fd1[k].say = "success" => stream = "marker"
       /\ fd1[k].say = "error" => stream # "marker"
       /\ fd1[k].say = "resend" => fd1[k].file \in sent
  /\ parser = "done" /\ parserHeard = "nothing" => fd1 # <<>> /\ Final(fd1[Len(fd1)])
  /\ parserHeard # "nothing" => parser = "done" /\ fd1 = <<>>
  /\ parserHeard = "success" => stream = "marker"
  /\ parserHeard = "error" => stream # "marker"
  /\ phase = "schema" /\ stream \in {"open", "marker"} => \E k \in 1..Len(fd1) : fd1[k].say = "schema"

\* A parser that will not end its stream any more.
Doomed == (parserGone \/ parser = "done") /\ stream # "marker"

\* Where a file that was handed over is: parsed, queued, on its way, or asked
\* for again.
Carried(f) ==
  \/ f \in ToSet(written) \cup ToSet(inbox)
  \/ \E line \in ToSet(stdin) \cup ToSet(queue) : line.file = f
  \/ \E word \in ToSet(fd1) : word.say = "resend" /\ word.file = f

CarriedInv == quit \/ Doomed \/ \A f \in sent \ unrepaired : Carried(f)

CommitInv ==
  phase = "reaping" => inputClosed /\ rawHeard = "success" /\ parserHeard = "success" /\ stream = "marker"

StageInv == FeedInv /\ InputInv /\ ParsedInv /\ WordsInv /\ CarriedInv /\ CommitInv /\ BlamesTheGuilty

----------------------------------------------------------------------------
(* Sequences *)

\* A sequence's elements are those at its places.
LEMMA Elements ==
  ASSUME NEW S, NEW s \in Seq(S)
  PROVE  /\ ToSet(s) = {s[i] : i \in 1..Len(s)} /\ ToSet(s) \subseteq S
         /\ DOMAIN s = 1..Len(s) /\ (s = <<>>) = (Len(s) = 0) /\ ToSet(<<>>) = {}
<1>1. DOMAIN s = 1..Len(s) /\ (s = <<>>) = (Len(s) = 0)
  OBVIOUS
<1>2. \A i \in 1..Len(s) : s[i] \in S
  OBVIOUS
<1>3. DOMAIN <<>> = {}
  OBVIOUS
<1> QED BY <1>1, <1>2, <1>3 DEF ToSet

\* What an appended element adds.
LEMMA Appended ==
  ASSUME NEW S, NEW s \in Seq(S), NEW e \in S
  PROVE  /\ Append(s, e) \in Seq(S) /\ Len(Append(s, e)) = Len(s) + 1 /\ Append(s, e) # <<>>
         /\ \A i \in 1..Len(s) : Append(s, e)[i] = s[i]
         /\ Append(s, e)[Len(s) + 1] = e
         /\ ToSet(Append(s, e)) = ToSet(s) \cup {e}
<1> DEFINE t == Append(s, e)
<1>1. t \in Seq(S) /\ Len(t) = Len(s) + 1
  OBVIOUS
<1>2. /\ \A i \in 1..Len(s) : t[i] = s[i]
      /\ t[Len(s) + 1] = e
  OBVIOUS
<1>3. Len(s) \in Nat
  OBVIOUS
<1> HIDE DEF t
<1>4. ToSet(t) = {t[i] : i \in 1..Len(t)} /\ ToSet(s) = {s[i] : i \in 1..Len(s)}
  BY <1>1, Elements
<1>5. ToSet(t) = ToSet(s) \cup {e}
  BY <1>1, <1>2, <1>3, <1>4
<1>6. t # <<>>
  BY <1>1, <1>3, Elements
<1> QED BY <1>1, <1>2, <1>5, <1>6 DEF t

\* What is left without the head.
LEMMA Shortened ==
  ASSUME NEW S, NEW s \in Seq(S), s # <<>>
  PROVE  /\ Tail(s) \in Seq(S) /\ Len(Tail(s)) = Len(s) - 1 /\ Len(s) \in Nat \ {0}
         /\ \A i \in 1..Len(s) - 1 : Tail(s)[i] = s[i + 1]
         /\ Head(s) = s[1] /\ Head(s) \in S
         /\ ToSet(s) = ToSet(Tail(s)) \cup {Head(s)}
<1> DEFINE t == Tail(s)
<1>1. t \in Seq(S) /\ Len(t) = Len(s) - 1 /\ Len(s) \in Nat \ {0}
  OBVIOUS
<1>2. Head(s) = s[1] /\ Head(s) \in S
  OBVIOUS
<1>3. \A i \in 1..Len(s) - 1 : t[i] = s[i + 1]
  OBVIOUS
<1> HIDE DEF t
<1>4. ToSet(t) = {t[i] : i \in 1..Len(t)} /\ ToSet(s) = {s[i] : i \in 1..Len(s)}
  BY <1>1, Elements
<1>5. ToSet(s) \subseteq ToSet(t) \cup {s[1]}
  <2> SUFFICES ASSUME NEW i \in 1..Len(s), i # 1 PROVE s[i] \in ToSet(t)
    BY <1>4
  <2>1. i - 1 \in 1..Len(t) /\ t[i - 1] = s[i]
    BY <1>1, <1>3
  <2> QED BY <2>1, <1>4
<1>6. ToSet(t) \cup {s[1]} \subseteq ToSet(s)
  <2>1. s[1] \in ToSet(s)
    BY <1>1, <1>4
  <2>2. ASSUME NEW i \in 1..Len(t) PROVE t[i] \in ToSet(s)
    <3>1. i + 1 \in 1..Len(s) /\ t[i] = s[i + 1]
      BY <1>1, <1>3
    <3> QED BY <3>1, <1>4
  <2> QED BY <2>1, <2>2, <1>4
<1> QED BY <1>1, <1>2, <1>3, <1>5, <1>6 DEF t

\* A sequence without repetition grows by what is not in it, and shrinks.
LEMMA OnceGrows ==
  ASSUME NEW S, NEW s \in Seq(S), NEW e \in S, IsInjective(s), e \notin ToSet(s)
  PROVE  IsInjective(Append(s, e))
<1> DEFINE t == Append(s, e)
<1>1. /\ t \in Seq(S) /\ Len(t) = Len(s) + 1
      /\ \A i \in 1..Len(s) : t[i] = s[i]
      /\ t[Len(s) + 1] = e
  BY Appended
<1> HIDE DEF t
<1>2. Len(s) \in Nat /\ DOMAIN t = 1..Len(t) /\ DOMAIN s = 1..Len(s) /\ ToSet(s) = {s[i] : i \in 1..Len(s)}
  BY <1>1, Elements
<1>3. \A a, b \in 1..Len(s) : s[a] = s[b] => a = b
  BY <1>2 DEF IsInjective
<1>4. \A a \in 1..Len(s) : s[a] # e
  BY <1>2
<1>5. ASSUME NEW a \in 1..Len(t), NEW b \in 1..Len(t), t[a] = t[b] PROVE a = b
  BY <1>1, <1>2, <1>3, <1>4, <1>5
<1>6. IsInjective(t)
  BY <1>2, <1>5 DEF IsInjective
<1> QED BY <1>6 DEF t

\* And what was its head is not in the rest.
LEMMA OnceShrinks ==
  ASSUME NEW S, NEW s \in Seq(S), s # <<>>, IsInjective(s)
  PROVE  IsInjective(Tail(s)) /\ Head(s) \notin ToSet(Tail(s))
<1> DEFINE t == Tail(s)
<1>1. /\ t \in Seq(S) /\ Len(t) = Len(s) - 1 /\ Len(s) \in Nat \ {0}
      /\ \A i \in 1..Len(s) - 1 : t[i] = s[i + 1]
      /\ Head(s) = s[1]
  BY Shortened
<1> HIDE DEF t
<1>2. DOMAIN t = 1..Len(t) /\ DOMAIN s = 1..Len(s) /\ ToSet(t) = {t[i] : i \in 1..Len(t)}
  BY <1>1, Elements
<1>3. \A a, b \in 1..Len(s) : s[a] = s[b] => a = b
  BY <1>2 DEF IsInjective
<1>4. ASSUME NEW a \in 1..Len(t), NEW b \in 1..Len(t), t[a] = t[b] PROVE a = b
  <2>1. a + 1 \in 1..Len(s) /\ b + 1 \in 1..Len(s) /\ s[a + 1] = s[b + 1]
    BY <1>1, <1>4
  <2> QED BY <2>1, <1>3
<1>5. IsInjective(t)
  BY <1>2, <1>4 DEF IsInjective
<1>6. ASSUME NEW a \in 1..Len(t) PROVE t[a] # s[1]
  <2>1. a + 1 \in 1..Len(s) /\ t[a] = s[a + 1] /\ 1 \in 1..Len(s) /\ a + 1 # 1
    BY <1>1
  <2> QED BY <2>1, <1>3
<1> QED BY <1>1, <1>2, <1>5, <1>6 DEF t

----------------------------------------------------------------------------
(* Types *)

Word == [say : {"schema", "resend", "success", "error"}, file : Names \cup {0}]

\* Lines and words are of their kinds.
LEMMA Kinds ==
  /\ End \in Line /\ \A f \in Names : [file |-> f, ok |-> TRUE] \in Line
  /\ \A line \in Line : [line EXCEPT !.ok = FALSE] \in Line /\ [line EXCEPT !.ok = FALSE].file = line.file
  /\ \A w \in {"schema", "resend", "success", "error"} : Says(w) \in Word
  /\ \A f \in Names \cup {0} : [say |-> "resend", file |-> f] \in Word
<1>1. TRUE \in BOOLEAN /\ FALSE \in BOOLEAN /\ 0 \in Names \cup {0}
  OBVIOUS
<1>2. \A f \in Names \cup {0} : [file |-> f, ok |-> TRUE] \in Line
  BY <1>1 DEF Line
<1>3. ASSUME NEW line \in Line
      PROVE  [line EXCEPT !.ok = FALSE] \in Line /\ [line EXCEPT !.ok = FALSE].file = line.file
  BY DEF Line
<1> QED BY <1>1, <1>2, <1>3 DEF End, Says, Word

\* The raw source keeps its types.
LEMMA RawTypes == TypeOK /\ RawStep => TypeOK'
<1> SUFFICES ASSUME TypeOK, RawStep PROVE TypeOK'
  OBVIOUS
<1>1. CASE RawAnnounces
  <2>1. PICK f \in Names : announced' = Append(announced, f) /\ events' = Append(events, f)
    BY <1>1 DEF RawAnnounces
  <2>2. announced' \in Seq(Names) /\ events' \in Seq(Names)
    BY <2>1, Appended DEF TypeOK
  <2> QED BY <1>1, <2>2 DEF TypeOK, RawAnnounces, BesideRaw, feedVars, inputVars, parserVars, pumpVars, coreVars
<1>2. CASE RawCloses \/ RawFinishes \/ RawExits \/ RawCrashes \/ RawStopped \/ RawHangs
  <2>1. /\ rawOpen' \in BOOLEAN /\ rawGone' \in BOOLEAN /\ rawHung' \in BOOLEAN /\ rawSaid' \in Said
        /\ announced' = announced /\ events' = events
    BY <1>2, Zenon DEF TypeOK, RawCloses, RawFinishes, RawExits, RawCrashes, RawStopped, RawHangs, RawLeaves, Said
  <2>2. BesideRaw
    BY <1>2 DEF RawCloses, RawFinishes, RawExits, RawCrashes, RawStopped, RawHangs, RawLeaves
  <2> QED BY <2>1, <2>2 DEF TypeOK, BesideRaw, feedVars, inputVars, parserVars, pumpVars, coreVars
<1> QED BY <1>1, <1>2 DEF RawStep

\* So do the queue and the pipe to the parser.
LEMMA WriterTypes == TypeOK /\ (WriterWrites \/ WriterBreaks) => TypeOK'
<1> SUFFICES ASSUME TypeOK, WriterWrites \/ WriterBreaks PROVE TypeOK'
  OBVIOUS
<1>1. CASE WriterWrites
  <2>1. queue' \in Seq(Line) /\ Head(queue) \in Line
    BY <1>1, Shortened DEF TypeOK, WriterWrites
  <2>2. \E line \in Line : stdin' = Append(stdin, line)
    BY <1>1, <2>1, Kinds DEF WriterWrites
  <2>3. stdin' \in Seq(Line) /\ Len(stdin') = Len(stdin) + 1
    BY <2>2, Appended DEF TypeOK
  <2>4. Len(stdin') <= StdinRoom
    BY <1>1, <2>3, StageAssumption DEF WriterWrites, TypeOK
  <2>5. garbled' \in 0..Garbles
    BY <1>1, StageAssumption DEF WriterWrites, TypeOK
  <2> QED BY <1>1, <2>1, <2>3, <2>4, <2>5
          DEF TypeOK, WriterWrites, rawVars, feedVars, parserVars, pumpVars, coreVars
<1>2. CASE WriterBreaks
  <2>1. queue' \in Seq(Line)
    BY <1>2 DEF WriterBreaks
  <2> QED BY <1>2, <2>1 DEF TypeOK, WriterBreaks, rawVars, feedVars, parserVars, pumpVars, coreVars
<1> QED BY <1>1, <1>2

\* What a line makes of the parser.
LEMMA TakeTypes ==
  ASSUME TypeOK, NEW line \in Line, Take(line)
  PROVE  /\ parser' \in {parser, "done"} /\ inbox' \in Seq(Names) /\ seen' \subseteq Names
         /\ eof' \in BOOLEAN /\ streak' \in 0..1 /\ fd1' \in Seq(Word)
<1>1. line.file \in Names \cup {0}
  BY DEF Line
<1>2. fd1 \in Seq(Word) /\ inbox \in Seq(Names)
  BY DEF TypeOK, Word
<1>3. CASE line.ok /\ line.file = 0 /\ eof' = TRUE /\ UNCHANGED <<parser, inbox, seen, streak, fd1>>
  BY <1>2, <1>3 DEF TypeOK
<1>4. CASE /\ line.file # 0 /\ streak' = 0
           /\ inbox' = IF line.file \in seen THEN inbox ELSE Append(inbox, line.file)
           /\ seen' = seen \cup {line.file}
           /\ UNCHANGED <<parser, eof, fd1>>
  <2>1. inbox' \in Seq(Names)
    BY <1>1, <1>2, <1>4, Appended
  <2> QED BY <1>1, <1>2, <1>4, <2>1 DEF TypeOK
<1>5. CASE /\ streak' = 1 /\ fd1' = Append(fd1, [say |-> "resend", file |-> line.file])
           /\ UNCHANGED <<parser, inbox, seen, eof>>
  <2>1. fd1' \in Seq(Word)
    BY <1>1, <1>2, <1>5, Kinds, Appended
  <2> QED BY <1>2, <1>5, <2>1 DEF TypeOK
<1>6. CASE ParserGivesUp /\ UNCHANGED <<inbox, seen, eof, streak>>
  <2>1. fd1' \in Seq(Word)
    BY <1>2, <1>6, Kinds, Appended DEF ParserGivesUp
  <2> QED BY <1>2, <1>6, <2>1 DEF TypeOK, ParserGivesUp
<1> QED BY <1>3, <1>4, <1>5, <1>6 DEF Take

\* And the parser.
LEMMA ParserTypes ==
  ASSUME TypeOK, ParsedInv, ParserStep
  PROVE  TypeOK'
<1> USE DEF BesideParser, rawVars, feedVars, pumpVars, coreVars
<1>1. fd1 \in Seq(Word) /\ \A w \in {"schema", "resend", "success", "error"} : Append(fd1, Says(w)) \in Seq(Word)
  BY Kinds, Appended DEF TypeOK, Word
<1>2. CASE ParserReads
  <2>1. Head(stdin) \in Line /\ stdin' \in Seq(Line) /\ Len(stdin') = Len(stdin) - 1 /\ Len(stdin) \in Nat
    BY <1>2, Shortened DEF TypeOK, ParserReads
  <2>2. Take(Head(stdin))
    BY <1>2 DEF ParserReads
  <2>3. /\ parser' \in {parser, "done"} /\ inbox' \in Seq(Names) /\ seen' \subseteq Names
        /\ eof' \in BOOLEAN /\ streak' \in 0..1 /\ fd1' \in Seq(Word)
    BY <2>1, <2>2, TakeTypes
  <2>4. Len(stdin') <= StdinRoom
    BY <2>1, StageAssumption DEF TypeOK
  <2> QED BY <1>2, <2>1, <2>3, <2>4 DEF TypeOK, ParserReads, Word
<1>3. CASE ParserPicks
  BY <1>3 DEF TypeOK, ParserPicks
<1>4. CASE ParserParses
  <2>1. fd1' \in Seq(Word)
    BY <1>1, <1>4 DEF ParserParses
  <2> QED BY <1>4, <2>1 DEF TypeOK, ParserParses, Word
<1>5. CASE ParserWrites
  <2>1. inbox # <<>>
    BY <1>5 DEF ParserWrites, ParsedInv
  <2>2. inbox' \in Seq(Names) /\ written' \in Seq(Names) /\ Len(written') = Len(written) + 1 /\ Len(written) \in Nat
    BY <1>5, <2>1, Shortened, Appended, Elements DEF TypeOK, ParserWrites
  <2>3. pumped' \in 0..Len(written')
    BY <1>5, <2>2 DEF TypeOK, ParserWrites
  <2> QED BY <1>5, <2>2, <2>3 DEF TypeOK, ParserWrites
<1>6. CASE ParserEnds
  <2>1. fd1' \in Seq(Word)
    BY <1>1, <1>6 DEF ParserEnds, ParserGivesUp
  <2>2. /\ quit' \in BOOLEAN /\ stream' \in {"none", "open", "marker", "cut"}
        /\ parser' \in {"ended", "done"}
    BY <1>6 DEF TypeOK, ParserEnds, ParserGivesUp
  <2>3. UNCHANGED <<inbox, seen, eof, streak, written, parserGone, parserHung, stdin>> /\ BesideParser
    BY <1>6 DEF ParserEnds
  <2> QED BY <2>1, <2>2, <2>3 DEF TypeOK, Word
<1>7. CASE ParserFinishes
  <2>1. fd1' \in Seq(Word)
    BY <1>1, <1>7 DEF ParserFinishes
  <2> QED BY <1>7, <2>1 DEF TypeOK, ParserFinishes, Word
<1>8. CASE ParserFails
  <2>1. fd1' \in Seq(Word)
    BY <1>1, <1>8 DEF ParserFails, ParserGivesUp
  <2> QED BY <1>8, <2>1 DEF TypeOK, ParserFails, ParserGivesUp, Word
<1>9. CASE ParserLeaves
  BY <1>9 DEF TypeOK, ParserLeaves
<1>10. CASE ParserHangs
  BY <1>10 DEF TypeOK, ParserHangs
<1> QED BY <1>2, <1>3, <1>4, <1>5, <1>6, <1>7, <1>8, <1>9, <1>10
        DEF ParserStep, ParserWork, ParserExits, ParserCrashes, ParserStopped

\* And the feed.
LEMMA FeedTypes ==
  ASSUME TypeOK, FeedStep
  PROVE  TypeOK'
<1> USE DEF BesideFeed, rawVars, parserVars, pumpVars, feedVars, GoOn, Fail
<1>1. \A line \in Line : Append(queue, line) \in Seq(Line)
  BY Appended DEF TypeOK
<1>2. CASE FeedObject
  <2>1. Head(events) \in Names /\ events' \in Seq(Names)
    BY <1>2, Shortened DEF TypeOK, FeedObject
  <2>2. sent' \subseteq Names /\ lastSent' \in Names \cup {0}
    BY <1>2, <2>1 DEF TypeOK, FeedObject
  <2>3. queue' \in Seq(Line)
    BY <1>1, <1>2, <2>1, Kinds DEF TypeOK, FeedObject
  <2> QED BY <1>2, <2>1, <2>2, <2>3 DEF TypeOK, FeedObject
<1>3. CASE FeedClosed
  <2>1. objectsOpen' \in BOOLEAN
    BY <1>3, Zenon DEF FeedClosed
  <2> QED BY <1>3, <2>1 DEF TypeOK, FeedClosed
<1>4. CASE FeedFinished
  <2>1. rawHeard' \in Said
    BY <1>4 DEF TypeOK, FeedFinished
  <2>3. overdueSet' \in BOOLEAN
    <3>1. overdueSet' = ("finish" \in Limits) \/ overdueSet' = overdueSet
      BY <1>4 DEF FeedFinished
    <3>2. ("finish" \in Limits) \in BOOLEAN /\ overdueSet \in BOOLEAN
      BY DEF TypeOK
    <3> QED BY <3>1, <3>2, Zenon
  <2>2. phase' \in {phase, "aborting"} /\ failure' \in {failure, "source"}
    BY <1>4 DEF FeedFinished
  <2> QED BY <1>4, <2>1, <2>2, <2>3 DEF TypeOK, FeedFinished
<1>5. CASE FeedGone \/ FeedOverdue
  BY <1>5 DEF TypeOK, FeedGone, FeedOverdue
<1>6. CASE EndInput
  <2>1. queue' \in Seq(Line)
    BY <1>1, <1>6, Kinds DEF EndInput
  <2> QED BY <1>6, <2>1 DEF TypeOK, EndInput
<1> QED BY <1>2, <1>3, <1>4, <1>5, <1>6 DEF FeedStep

\* And what the core hears of the parser.
LEMMA HearTypes ==
  ASSUME TypeOK, WordsInv, HearParser
  PROVE  TypeOK'
<1>1. fd1' \in Seq(Word)
  BY Shortened DEF TypeOK, HearParser, Word
<1>2. queue' \in Seq(Line)
  <2>1. ASSUME lastSent # 0 PROVE Append(queue, [file |-> lastSent, ok |-> TRUE]) \in Seq(Line)
    BY <2>1, Kinds, Appended DEF TypeOK
  <2> QED BY <2>1 DEF TypeOK, HearParser, Replay
<1>3. unrepaired' \subseteq Names
  <2>1. Head(fd1) = fd1[1] /\ 1 \in 1..Len(fd1)
    BY Shortened DEF TypeOK, HearParser, Word
  <2>2. Head(fd1).say = "resend" => Head(fd1).file \in Names
    BY <2>1 DEF WordsInv, TypeOK
  <2> QED BY <2>2 DEF TypeOK, HearParser, Replay
<1>4. /\ phase' \in {phase, "header", "aborting"} /\ failure' \in {failure, "parser"}
      /\ parserHeard' \in {parserHeard, "success", "error"}
  BY DEF HearParser, GoOn, Fail
<1>5. finishDue' \in BOOLEAN
  BY DEF TypeOK, HearParser, Fail
<1> QED
  BY <1>1, <1>2, <1>3, <1>4, <1>5
     DEF TypeOK, HearParser, BesideHearing, rawVars, feedVars, parserVars, pumpVars, Word, Said

\* What the core's other steps do is to move on, or to fail.
OtherStep ==
  \/ HearParserGone \/ EarlySuccess \/ HeaderRead \/ DestinationReady \/ Commit \/ Collect
  \/ Deadlines \/ DestinationFails \/ Signal

\* They leave everything else alone.
LEMMA OtherSteps ==
  ASSUME OtherStep
  PROVE  /\ BesideHearing /\ UNCHANGED <<fd1, queue, unrepaired, parserHeard, finishDue>>
         /\ \/ phase' = "aborting" /\ failure' \in {"parser", "parserLate", "stalled", "destination", "signal"}
            \/ phase' \in {"starting", "supervising", "reaping", "over"} /\ failure' = failure
  BY DEF OtherStep, HearParserGone, EarlySuccess, HeaderRead, DestinationReady, Commit, Collect,
     Deadlines, DestinationFails, Signal, Fail

\* Every step keeps the types.
LEMMA TypesStep ==
  ASSUME TypeOK, ParsedInv, WordsInv, [Next]_vars
  PROVE  TypeOK'
<1>1. CASE OtherStep
  BY <1>1, OtherSteps DEF TypeOK, BesideHearing, rawVars, feedVars, parserVars, pumpVars
<1>2. CASE Pump
  <2>1. Len(written) \in Nat
    BY DEF TypeOK
  <2>2. pumped' \in 0..Len(written)
    BY <1>2, <2>1 DEF TypeOK, Pump
  <2> QED BY <1>2, <2>2 DEF TypeOK, Pump, rawVars, feedVars, inputVars, parserVars, coreVars
<1>3. CASE HearPump
  <2>1. phase' \in {phase, "aborting"} /\ failure' \in {failure, "parser"} /\ finishDue' \in BOOLEAN
    BY <1>3 DEF TypeOK, HearPump, Fail, GoOn
  <2> QED BY <1>3, <2>1 DEF TypeOK, HearPump, rawVars, feedVars, inputVars, parserVars
<1>4. CASE UNCHANGED vars
  BY <1>4 DEF TypeOK, vars, rawVars, feedVars, inputVars, parserVars, pumpVars, coreVars
<1> QED
  BY <1>1, <1>2, <1>3, <1>4, RawTypes, WriterTypes, ParserTypes, FeedTypes, HearTypes
     DEF Next, CoreStep, OtherStep, Over

----------------------------------------------------------------------------
(* What a step leaves alone *)

\* Each part of the invariant stands while what it speaks of does.
LEMMA FeedStays ==
  ASSUME FeedInv,
         UNCHANGED <<announced, events, rawOpen, rawSaid, objectsOpen, sent, rawHeard, inputClosed, lastSent>>
  PROVE  FeedInv'
  BY DEF FeedInv

\* Of the lines on their way.
LEMMA InputStays ==
  ASSUME InputInv, UNCHANGED <<queue, stdin, sent, inputClosed, eof>>
  PROVE  InputInv'
  BY DEF InputInv

\* Of the parser's files.
LEMMA ParsedStays ==
  ASSUME ParsedInv, UNCHANGED <<written, inbox, seen, parser, stream, quit, eof, parserGone>>, sent \subseteq sent'
  PROVE  ParsedInv'
  BY DEF ParsedInv

\* Of the parser's words.
LEMMA WordsStay ==
  ASSUME WordsInv, UNCHANGED <<fd1, parser, parserHeard>>, sent \subseteq sent', phase' = "schema" => phase = "schema",
         stream' = stream \/ (stream # "marker" /\ stream' = "cut")
  PROVE  WordsInv'
  BY DEF WordsInv

\* Of where the files are: it takes a step that loses one.
LEMMA CarriedStays ==
  ASSUME CarriedInv, quit => quit', unrepaired \subseteq unrepaired', Doomed => Doomed', sent' = sent,
         \A f \in sent \ unrepaired' : Carried(f) => Carried(f)'
  PROVE  CarriedInv'
  BY DEF CarriedInv

\* A parser that gave up, or is gone, stays so.
LEMMA DoomedStays ==
  ASSUME UNCHANGED <<parser, parserGone, stream>>, Doomed
  PROVE  Doomed'
  BY DEF Doomed

\* A file is where it was.
LEMMA FileStays ==
  ASSUME UNCHANGED <<written, inbox, stdin, queue, fd1>>, NEW f, Carried(f)
  PROVE  Carried(f)'
  BY DEF Carried

\* Of the commit.
LEMMA CommitStays ==
  ASSUME CommitInv, UNCHANGED <<inputClosed, rawHeard, parserHeard, stream>>, phase' = "reaping" => phase = "reaping"
  PROVE  CommitInv'
  BY DEF CommitInv

\* Of the blame.
LEMMA BlameStays ==
  ASSUME BlamesTheGuilty, UNCHANGED <<quit, stream, parserGone, parser, rawSaid, rawGone>>,
         failure' \in {failure, "none", "sourceLate", "parserLate", "stalled", "destination", "signal"}
  PROVE  BlamesTheGuilty'
  BY DEF BlamesTheGuilty

----------------------------------------------------------------------------
(* The raw source and the parser's input *)

\* The raw source's steps: what it announces is on its way to the feed.
LEMMA RawOK ==
  ASSUME TypeOK, StageInv, RawStep
  PROVE  StageInv'
<1>1. BesideRaw
  BY DEF RawStep, RawAnnounces, RawCloses, RawFinishes, RawExits, RawCrashes, RawStopped, RawHangs, RawLeaves
<1> USE DEF BesideRaw, feedVars, inputVars, parserVars, pumpVars, coreVars
<1>2. FeedInv'
  <2>1. CASE RawAnnounces
    <3>1. PICK f \in Names : announced' = Append(announced, f) /\ events' = Append(events, f)
      BY <2>1 DEF RawAnnounces
    <3>2. ToSet(announced') = ToSet(announced) \cup {f} /\ ToSet(events') = ToSet(events) \cup {f}
      BY <3>1, Appended DEF TypeOK
    <3> QED BY <1>1, <2>1, <3>2 DEF RawAnnounces, StageInv, FeedInv
  <2>2. CASE RawFinishes
    BY <1>1, <2>2 DEF RawFinishes, StageInv, FeedInv
  <2>3. CASE RawCloses \/ RawExits \/ RawCrashes \/ RawStopped \/ RawHangs
    BY <1>1, <2>3 DEF RawCloses, RawExits, RawCrashes, RawStopped, RawHangs, RawLeaves, StageInv, FeedInv
  <2> QED BY <2>1, <2>2, <2>3 DEF RawStep
<1>3. BlamesTheGuilty'
  <2>1. rawGone => rawGone' /\ rawSaid' = rawSaid
    BY DEF RawStep, RawAnnounces, RawCloses, RawFinishes, RawExits, RawCrashes, RawStopped, RawHangs, RawLeaves,
       RawAlive
  <2>2. rawSaid # "nothing" => rawSaid' = rawSaid
    BY DEF RawStep, RawAnnounces, RawCloses, RawFinishes, RawExits, RawCrashes, RawStopped, RawHangs, RawLeaves,
       RawAlive
  <2> QED BY <1>1, <2>1, <2>2 DEF StageInv, BlamesTheGuilty
<1>4. CarriedInv'
  BY <1>1, CarriedStays, DoomedStays, FileStays DEF StageInv
<1> QED
  BY <1>1, <1>2, <1>3, <1>4, InputStays, ParsedStays, WordsStay, CommitStays DEF StageInv

\* A line that is written goes from the queue to the pipe, whole or garbled.
LEMMA WriterWritesOK ==
  ASSUME TypeOK, StageInv, WriterWrites
  PROVE  StageInv'
<1> USE DEF rawVars, feedVars, parserVars, pumpVars, coreVars
<1>1. /\ Head(queue) \in Line /\ Head(queue) = queue[1] /\ Len(queue) \in Nat \ {0} /\ queue' = Tail(queue)
      /\ ToSet(queue) = ToSet(queue') \cup {Head(queue)}
      /\ Len(queue') = Len(queue) - 1 /\ \A i \in 1..Len(queue) - 1 : queue'[i] = queue[i + 1]
  BY Shortened DEF TypeOK, WriterWrites
<1>2. PICK line \in Line : /\ stdin' = Append(stdin, line) /\ line.file = Head(queue).file
                           /\ line.file = 0 => line.ok
  <2>1. Head(queue).ok
    BY <1>1 DEF StageInv, InputInv
  <2> QED BY <1>1, <2>1, Kinds DEF WriterWrites
<1>3. /\ Len(stdin') = Len(stdin) + 1 /\ Len(stdin) \in Nat
      /\ \A i \in 1..Len(stdin) : stdin'[i] = stdin[i]
      /\ stdin'[Len(stdin) + 1] = line /\ ToSet(stdin') = ToSet(stdin) \cup {line}
  BY <1>2, Appended DEF TypeOK
<1>4. InputInv'
  <2>1. \A l \in ToSet(queue') : l.ok /\ l.file \in sent' \cup {0}
    BY <1>1 DEF WriterWrites, StageInv, InputInv
  <2>2. \A l \in ToSet(stdin') : l.file \in sent' \cup {0} /\ (l.file = 0 => l.ok)
    BY <1>1, <1>2, <1>3 DEF WriterWrites, StageInv, InputInv
  <2>3. ASSUME NEW i \in 1..Len(queue'), queue'[i].file = 0 PROVE inputClosed /\ i = Len(queue')
    <3>1. i + 1 \in 1..Len(queue) /\ queue[i + 1].file = 0
      BY <1>1, <2>3
    <3>2. i + 1 = Len(queue)
      BY <3>1 DEF StageInv, InputInv
    <3>3. inputClosed
      BY <3>1 DEF StageInv, InputInv
    <3>4. i \in Int /\ Len(queue) \in Int
      BY <1>1
    <3>5. i = Len(queue) - 1
      BY <3>2, <3>4
    <3> QED BY <1>1, <3>3, <3>5
  <2>4. ASSUME NEW i \in 1..Len(stdin'), stdin'[i].file = 0
        PROVE  inputClosed /\ i = Len(stdin') /\ queue' = <<>>
    <3>1. queue # <<>>
      BY DEF WriterWrites
    <3>2. i \notin 1..Len(stdin)
      BY <1>3, <2>4, <3>1 DEF StageInv, InputInv
    <3>3. i = Len(stdin) + 1 /\ queue[1].file = 0
      BY <1>1, <1>2, <1>3, <2>4, <3>2
    <3>a. \A k \in 1..Len(queue) : queue[k].file = 0 => inputClosed /\ k = Len(queue)
      BY DEF StageInv, InputInv
    <3>b. 1 \in 1..Len(queue)
      BY <1>1
    <3>4. inputClosed /\ 1 = Len(queue)
      BY <3>3, <3>a, <3>b
    <3>5. queue' \in Seq(Line)
      BY <1>1, Shortened, <3>1 DEF TypeOK
    <3>6. queue' = <<>>
      BY <1>1, <3>4, <3>5, Elements
    <3> QED BY <1>3, <3>3, <3>4, <3>6
  <2>5. ~eof
    BY DEF WriterWrites, StageInv, InputInv
  <2> QED BY <2>1, <2>2, <2>3, <2>4, <2>5 DEF InputInv, WriterWrites
<1>5. CarriedInv'
  <2>1. ASSUME NEW f, Carried(f) PROVE Carried(f)'
    BY <1>1, <1>2, <1>3, <2>1 DEF Carried, WriterWrites
  <2> QED BY <2>1, CarriedStays, DoomedStays DEF WriterWrites, StageInv
<1> QED
  BY <1>4, <1>5, FeedStays, ParsedStays, WordsStay, CommitStays, BlameStays DEF StageInv, WriterWrites

\* What is queued for a parser that is gone is lost, with its stream.
LEMMA WriterBreaksOK ==
  ASSUME TypeOK, StageInv, WriterBreaks
  PROVE  StageInv'
<1> USE DEF rawVars, feedVars, parserVars, pumpVars, coreVars
<1>1. queue' \in Seq(Line) /\ queue' = <<>> /\ ToSet(queue') = {} /\ Len(queue') = 0
  <2>1. queue' = <<>> /\ queue' \in Seq(Line)
    BY DEF WriterBreaks
  <2>2. ToSet(queue') = {}
    BY <2>1, Elements
  <2> QED BY <2>1, <2>2
<1>2. InputInv'
  BY <1>1 DEF WriterBreaks, StageInv, InputInv
<1>3. quit \/ Doomed
  <2>1. ~eof
    BY DEF WriterBreaks, StageInv, InputInv
  <2> QED BY <2>1 DEF WriterBreaks, StageInv, ParsedInv, Doomed
<1>4. CarriedInv'
  BY <1>3, DoomedStays DEF CarriedInv, WriterBreaks
<1> QED
  BY <1>2, <1>4, FeedStays, ParsedStays, WordsStay, CommitStays, BlameStays DEF StageInv, WriterBreaks

----------------------------------------------------------------------------
(* The parser *)

Working == ParserAlive /\ parser # "done"

\* While the parser works nothing is lost, and nobody blames it wrongly.
LEMMA WorkingKeeps ==
  ASSUME StageInv, Working, BesideParser, quit => quit', stream = "cut" => stream' = "cut"
  PROVE  /\ FeedInv' /\ CommitInv' /\ BlamesTheGuilty' /\ ~Doomed
         /\ \A k \in 1..Len(fd1) : ~Final(fd1[k])
         /\ parserHeard = "nothing"
<1> USE DEF BesideParser, rawVars, feedVars, pumpVars, coreVars
<1>1. ~Doomed /\ parserHeard = "nothing" /\ \A k \in 1..Len(fd1) : ~Final(fd1[k])
  BY DEF Working, ParserAlive, Doomed, StageInv, WordsInv
<1>2. FeedInv'
  BY FeedStays DEF StageInv
<1>3. CommitInv'
  BY <1>1 DEF StageInv, CommitInv
<1>4. BlamesTheGuilty'
  BY DEF StageInv, BlamesTheGuilty, Working, ParserAlive
<1> QED BY <1>1, <1>2, <1>3, <1>4

\* What it says while it works is added to its words.
LEMMA SaysOne ==
  ASSUME TypeOK, WordsInv, parser # "done", UNCHANGED <<sent, parserHeard, phase>>,
         NEW word \in Word, fd1' = Append(fd1, word),
         Final(word) => parser' = "done", parser' = "done" => Final(word),
         word.say = "resend" => word.file \in sent,
         word.say = "success" => stream' = "marker", word.say = "error" => stream' # "marker",
         stream' \in {"open", "marker"} => stream \in {"open", "marker"} \/ word.say = "schema"
  PROVE  WordsInv'
<1>1. /\ Len(fd1') = Len(fd1) + 1 /\ Len(fd1) \in Nat /\ fd1' # <<>>
      /\ \A k \in 1..Len(fd1) : fd1'[k] = fd1[k]
      /\ fd1'[Len(fd1) + 1] = word
  <2>1. fd1 \in Seq(Word)
    BY DEF TypeOK, Word
  <2> QED BY <2>1, Appended, Elements
<1>2. parserHeard = "nothing" /\ \A k \in 1..Len(fd1) : ~Final(fd1[k])
  BY DEF WordsInv
<1>3. ASSUME NEW k \in 1..Len(fd1')
      PROVE  /\ Final(fd1'[k]) => parser' = "done" /\ k = Len(fd1') /\ parserHeard' = "nothing"
             /\ fd1'[k].say = "success" => stream' = "marker"
             /\ fd1'[k].say = "error" => stream' # "marker"
             /\ fd1'[k].say = "resend" => fd1'[k].file \in sent'
  <2>1. CASE k \in 1..Len(fd1)
    <3>1. fd1'[k] = fd1[k] /\ ~Final(fd1[k])
      BY <1>1, <1>2, <2>1
    <3>2. fd1[k].say = "resend" => fd1[k].file \in sent
      BY <2>1 DEF WordsInv
    <3> QED BY <3>1, <3>2 DEF Final
  <2>2. CASE k \notin 1..Len(fd1)
    <3>1. k = Len(fd1) + 1
      BY <1>1, <2>2
    <3>2. k = Len(fd1') /\ fd1'[k] = word
      BY <1>1, <3>1
    <3> QED BY <1>2, <3>2 DEF Final
  <2> QED BY <2>1, <2>2
<1>4. parser' = "done" => fd1' # <<>> /\ Final(fd1'[Len(fd1')])
  BY <1>1
<1>5. phase' = "schema" /\ stream' \in {"open", "marker"} => \E k \in 1..Len(fd1') : fd1'[k].say = "schema"
  <2> SUFFICES ASSUME phase' = "schema", stream' \in {"open", "marker"}
               PROVE  \E k \in 1..Len(fd1') : fd1'[k].say = "schema"
    OBVIOUS
  <2>1. CASE stream \in {"open", "marker"}
    <3>1. PICK k \in 1..Len(fd1) : fd1[k].say = "schema"
      BY <2>1 DEF WordsInv
    <3>2. k \in 1..Len(fd1') /\ fd1'[k] = fd1[k]
      BY <1>1
    <3> QED BY <3>1, <3>2
  <2>2. CASE word.say = "schema"
    <3>1. Len(fd1) + 1 \in 1..Len(fd1')
      BY <1>1
    <3> QED BY <1>1, <2>2, <3>1
  <2> QED BY <2>1, <2>2
<1> QED BY <1>2, <1>3, <1>4, <1>5 DEF WordsInv

\* And when it says nothing, they stay.
LEMMA SaysNone ==
  ASSUME WordsInv, parser # "done", parser' # "done", UNCHANGED <<fd1, sent, parserHeard, phase>>,
         stream' \in {"open", "marker"} => stream \in {"open", "marker"}
  PROVE  WordsInv'
  BY DEF WordsInv, Final

\* A line it reads becomes a file in its queue, a request to repeat the line,
\* or the end.
LEMMA ParserReadsOK ==
  ASSUME TypeOK, StageInv, ParserReads
  PROVE  StageInv'
<1> DEFINE line == Head(stdin)
<1> USE DEF BesideParser, rawVars, feedVars, pumpVars, coreVars
<1>1. /\ line \in Line /\ line = stdin[1] /\ Len(stdin) \in Nat \ {0}
      /\ ToSet(stdin) = ToSet(stdin') \cup {line} /\ stdin' \in Seq(Line)
      /\ Len(stdin') = Len(stdin) - 1 /\ \A i \in 1..Len(stdin) - 1 : stdin'[i] = stdin[i + 1]
  BY Shortened DEF TypeOK, ParserReads
<1>2. /\ parser \in {"idle", "parsing"} /\ Working /\ Take(line) /\ BesideParser
      /\ UNCHANGED <<stream, written, parserGone, parserHung, quit>>
  BY DEF ParserReads, Working
<1>3. line.file \in sent \cup {0} /\ line.file \in Names \cup {0} /\ (line.file = 0 => line.ok)
  BY <1>1 DEF StageInv, InputInv, Line
<1>4. stream # "marker" /\ ~eof
  BY <1>2 DEF StageInv, ParsedInv, InputInv, ParserReads
<1>5. FeedInv' /\ CommitInv' /\ BlamesTheGuilty' /\ ~Doomed /\ \A k \in 1..Len(fd1) : ~Final(fd1[k])
  BY <1>2, WorkingKeeps
<1>6. line.file = 0 => inputClosed /\ queue = <<>> /\ stdin' = <<>>
  <2> SUFFICES ASSUME line.file = 0 PROVE inputClosed /\ queue = <<>> /\ stdin' = <<>>
    OBVIOUS
  <2>1. 1 \in 1..Len(stdin) /\ stdin[1].file = 0
    BY <1>1
  <2>2. 1 = Len(stdin)
    BY <2>1 DEF StageInv, InputInv
  <2>3. Len(stdin') = 0
    <3>1. Len(stdin') = Len(stdin) - 1
      BY <1>1
    <3> QED BY <2>2, <3>1
  <2>4. inputClosed /\ queue = <<>>
    BY <2>1 DEF StageInv, InputInv
  <2> QED BY <1>1, <2>3, <2>4, Elements
<1> HIDE DEF line
<1>7. InputInv'
  <2>1. \A l \in ToSet(stdin') : l.file \in sent' \cup {0} /\ (l.file = 0 => l.ok)
    BY <1>1, <1>2 DEF StageInv, InputInv
  <2>2. ASSUME NEW i \in 1..Len(stdin'), stdin'[i].file = 0
        PROVE  inputClosed' /\ i = Len(stdin') /\ queue' = <<>>
    <3>1. i + 1 \in 1..Len(stdin) /\ stdin[i + 1].file = 0 /\ i \in Int /\ Len(stdin) \in Int
      BY <1>1, <2>2
    <3>2. i + 1 = Len(stdin)
      BY <3>1 DEF StageInv, InputInv
    <3>3. inputClosed /\ queue = <<>>
      BY <3>1 DEF StageInv, InputInv
    <3>4. i = Len(stdin) - 1
      BY <3>1, <3>2
    <3> QED BY <1>1, <1>2, <3>3, <3>4
  <2>3. eof' => inputClosed' /\ queue' = <<>> /\ stdin' = <<>>
    <3>1. eof' => line.file = 0
      BY <1>2, <1>4 DEF Take, ParserGivesUp
    <3> QED BY <1>2, <1>6, <3>1
  <2> QED BY <1>2, <2>1, <2>2, <2>3 DEF StageInv, InputInv
<1>8. CASE line.ok /\ line.file = 0 /\ eof' = TRUE /\ UNCHANGED <<parser, inbox, seen, streak, fd1>>
  <2>1. ParsedInv'
    BY <1>2, <1>4, <1>8 DEF StageInv, ParsedInv
  <2>2. WordsInv'
    BY <1>2, <1>8, WordsStay DEF StageInv
  <2>3. ASSUME NEW f \in sent, Carried(f) PROVE Carried(f)'
    <3>1. f # 0
      BY DEF TypeOK, Names
    <3> QED BY <1>1, <1>2, <1>8, <2>3, <3>1 DEF Carried
  <2>4. CarriedInv'
    BY <1>2, <1>5, <2>3, CarriedStays DEF StageInv
  <2> QED BY <1>5, <1>7, <2>1, <2>2, <2>4 DEF StageInv
<1>9. CASE /\ line.file # 0
           /\ inbox' = IF line.file \in seen THEN inbox ELSE Append(inbox, line.file)
           /\ seen' = seen \cup {line.file}
           /\ UNCHANGED <<parser, eof, fd1>>
  <2>1. line.file \in sent /\ line.file \in Names /\ inbox \in Seq(Names)
    BY <1>3, <1>9 DEF TypeOK
  <2>2. /\ IsInjective(inbox') /\ ToSet(written) \cap ToSet(inbox') = {}
        /\ seen' = ToSet(written) \cup ToSet(inbox')
        /\ ToSet(inbox) \subseteq ToSet(inbox')
        /\ inbox # <<>> => inbox' # <<>>
    <3>1. CASE line.file \in seen
      BY <1>9, <3>1 DEF StageInv, ParsedInv
    <3>2. CASE line.file \notin seen
      <4>1. inbox' = Append(inbox, line.file) /\ line.file \notin ToSet(inbox) /\ line.file \notin ToSet(written)
        BY <1>9, <3>2 DEF StageInv, ParsedInv
      <4>2. IsInjective(inbox')
        BY <2>1, <4>1, OnceGrows DEF StageInv, ParsedInv
      <4>3. ToSet(inbox') = ToSet(inbox) \cup {line.file} /\ inbox' # <<>>
        BY <2>1, <4>1, Appended
      <4> QED BY <1>9, <4>1, <4>2, <4>3 DEF StageInv, ParsedInv
    <3> QED BY <3>1, <3>2
  <2>3. ParsedInv'
    BY <1>2, <1>4, <1>9, <2>1, <2>2 DEF StageInv, ParsedInv
  <2>4. WordsInv'
    BY <1>2, <1>9, WordsStay DEF StageInv
  <2>5. ASSUME NEW f \in sent, Carried(f) PROVE Carried(f)'
    <3>1. line.file \in ToSet(written) \cup ToSet(inbox')
      BY <1>9, <2>2
    <3> QED BY <1>1, <1>2, <1>9, <2>2, <2>5, <3>1 DEF Carried
  <2>6. CarriedInv'
    BY <1>2, <1>5, <2>5, CarriedStays DEF StageInv
  <2> QED BY <1>5, <1>7, <2>3, <2>4, <2>6 DEF StageInv
<1>10. CASE /\ ~line.ok /\ fd1' = Append(fd1, [say |-> "resend", file |-> line.file])
            /\ UNCHANGED <<parser, inbox, seen, eof>>
  <2> DEFINE word == [say |-> "resend", file |-> line.file]
  <2>1. word \in Word /\ word.say = "resend" /\ word.file = line.file /\ ~Final(word) /\ line.file \in sent
    BY <1>3, <1>10, Kinds DEF Final
  <2>2. fd1 \in Seq(Word)
    BY DEF TypeOK, Word
  <2>3. ToSet(fd1') = ToSet(fd1) \cup {word}
    BY <1>10, <2>1, <2>2, Appended
  <2>4. fd1' = Append(fd1, word)
    BY <1>10
  <2> HIDE DEF word
  <2>5. ParsedInv'
    BY <1>2, <1>10, ParsedStays DEF StageInv
  <2>6. WordsInv'
    <3>1. WordsInv /\ parser # "done" /\ parser' # "done" /\ UNCHANGED <<sent, parserHeard, phase, stream>>
      BY <1>2, <1>10 DEF StageInv, Working
    <3> QED BY <2>1, <2>4, <3>1, SaysOne
  <2>7. ASSUME NEW f \in sent, Carried(f) PROVE Carried(f)'
    BY <1>1, <1>2, <1>10, <2>1, <2>3, <2>7 DEF Carried
  <2>8. CarriedInv'
    BY <1>2, <1>5, <2>7, CarriedStays DEF StageInv
  <2> QED BY <1>5, <1>7, <2>5, <2>6, <2>8 DEF StageInv
<1>11. CASE ParserGivesUp /\ UNCHANGED <<inbox, seen, eof, streak>>
  <2>1. Says("error") \in Word /\ Says("error").say = "error" /\ Final(Says("error"))
    BY Kinds DEF Says, Final
  <2>2. parser' = "done" /\ fd1' = Append(fd1, Says("error"))
    BY <1>11 DEF ParserGivesUp
  <2>3. ParsedInv'
    BY <1>2, <1>4, <1>11, <2>2 DEF StageInv, ParsedInv
  <2>4. WordsInv'
    <3>1. WordsInv /\ parser # "done" /\ UNCHANGED <<sent, parserHeard, phase, stream>>
      BY <1>2 DEF StageInv, Working
    <3>2. Says("error").say \notin {"resend", "success"}
      BY <2>1
    <3> QED BY <1>4, <2>1, <2>2, <3>1, <3>2, SaysOne
  <2>5. CarriedInv'
    BY <1>2, <1>4, <2>2 DEF CarriedInv, Doomed
  <2> QED BY <1>5, <1>7, <2>3, <2>4, <2>5 DEF StageInv
<1> QED BY <1>2, <1>8, <1>9, <1>10, <1>11 DEF Take

\* A file it picks, opens and reads is still in its queue.
LEMMA ParserOpensOK ==
  ASSUME TypeOK, StageInv, ParserPicks \/ ParserParses
  PROVE  StageInv'
<1> USE DEF BesideParser, rawVars, feedVars, pumpVars, coreVars
<1>1. /\ Working /\ BesideParser /\ inbox # <<>> /\ parser' \in {"parsing", "writing"} /\ stream # "marker"
      /\ stream' \in {stream, "open"} /\ stream' # "marker" /\ (stream = "cut" => stream' = "cut")
      /\ UNCHANGED <<inbox, seen, eof, streak, written, parserGone, parserHung, quit, stdin>>
  BY DEF ParserPicks, ParserParses, Working, ParserAlive, StageInv, ParsedInv
<1>2. FeedInv' /\ CommitInv' /\ BlamesTheGuilty' /\ ~Doomed
  BY <1>1, WorkingKeeps
<1>3. ParsedInv'
  BY <1>1 DEF StageInv, ParsedInv, Working, ParserAlive
<1>4. Says("schema") \in Word /\ Says("schema").say = "schema" /\ ~Final(Says("schema"))
  BY Kinds DEF Says, Final
<1>5. WordsInv'
  <2>1. WordsInv /\ parser # "done" /\ parser' # "done" /\ UNCHANGED <<sent, parserHeard, phase>>
    BY <1>1 DEF StageInv, Working
  <2>2. CASE fd1' = Append(fd1, Says("schema"))
    <3>1. Says("schema").say \notin {"resend", "success", "error"}
      BY <1>4
    <3> QED BY <1>4, <2>1, <2>2, <3>1, SaysOne
  <2>3. CASE UNCHANGED <<stream, fd1>>
    BY <2>1, <2>3, SaysNone
  <2> QED BY <2>2, <2>3 DEF ParserPicks, ParserParses
<1>6. ASSUME NEW f \in sent, Carried(f) PROVE Carried(f)'
  <2>1. CASE fd1' = Append(fd1, Says("schema"))
    <3>1. fd1 \in Seq(Word)
      BY DEF TypeOK, Word
    <3>2. ToSet(fd1') = ToSet(fd1) \cup {Says("schema")}
      BY <1>4, <2>1, <3>1, Appended
    <3> QED BY <1>1, <1>6, <3>2 DEF Carried
  <2>2. CASE UNCHANGED fd1
    BY <1>1, <1>6, <2>2 DEF Carried
  <2> QED BY <2>1, <2>2 DEF ParserPicks, ParserParses
<1>7. CarriedInv'
  BY <1>1, <1>2, <1>6, CarriedStays DEF StageInv
<1> QED BY <1>1, <1>2, <1>3, <1>5, <1>7, InputStays DEF StageInv

\* A file that is written goes from the queue to the stream.
LEMMA ParserWritesOK ==
  ASSUME TypeOK, StageInv, ParserWrites
  PROVE  StageInv'
<1> USE DEF BesideParser, rawVars, feedVars, pumpVars, coreVars
<1>1. /\ Working /\ BesideParser /\ parser = "writing" /\ parser' = "idle" /\ inbox # <<>>
      /\ UNCHANGED <<seen, eof, streak, stream, parserGone, parserHung, quit, stdin, fd1>>
      /\ written' = Append(written, Head(inbox)) /\ inbox' = Tail(inbox)
  BY DEF ParserWrites, Working, ParserAlive, StageInv, ParsedInv
<1>2. FeedInv' /\ CommitInv' /\ BlamesTheGuilty' /\ ~Doomed
  BY <1>1, WorkingKeeps
<1>3. /\ Head(inbox) \in Names /\ written \in Seq(Names) /\ inbox \in Seq(Names)
      /\ ToSet(inbox) = ToSet(inbox') \cup {Head(inbox)}
  BY <1>1, Shortened DEF TypeOK
<1>4. IsInjective(inbox') /\ Head(inbox) \notin ToSet(inbox') /\ Head(inbox) \notin ToSet(written)
  BY <1>1, <1>3, OnceShrinks DEF StageInv, ParsedInv
<1>5. IsInjective(written')
  BY <1>1, <1>3, <1>4, OnceGrows DEF StageInv, ParsedInv
<1>6. ToSet(written') = ToSet(written) \cup {Head(inbox)}
  BY <1>1, <1>3, Appended
<1>7. ParsedInv'
  BY <1>1, <1>3, <1>4, <1>5, <1>6 DEF StageInv, ParsedInv, Working, ParserAlive
<1>8. WordsInv'
  BY <1>1, SaysNone DEF StageInv, Working
<1>9. ASSUME NEW f \in sent, Carried(f) PROVE Carried(f)'
  BY <1>1, <1>3, <1>6, <1>9 DEF Carried
<1>10. CarriedInv'
  BY <1>1, <1>2, <1>9, CarriedStays DEF StageInv
<1> QED BY <1>1, <1>2, <1>7, <1>8, <1>10, InputStays DEF StageInv

\* It ends its stream with nothing in its queue; whatever is left of the rest
\* still counts.
LEMMA ParserEndsOK ==
  ASSUME TypeOK, StageInv, ParserEnds
  PROVE  StageInv'
<1> USE DEF BesideParser, rawVars, feedVars, pumpVars, coreVars
<1>1. /\ Working /\ BesideParser /\ parser = "idle" /\ inbox = <<>> /\ stream # "marker"
      /\ (quit => quit') /\ (eof \/ quit')
      /\ UNCHANGED <<inbox, seen, eof, streak, written, parserGone, parserHung, stdin>>
  BY DEF ParserEnds, Working, ParserAlive, StageInv, ParsedInv
<1>2. CASE stream = "open" /\ stream' = "marker" /\ parser' = "ended" /\ UNCHANGED fd1
  <2>1. FeedInv' /\ CommitInv' /\ BlamesTheGuilty' /\ ~Doomed
    BY <1>1, <1>2, WorkingKeeps
  <2>2. ParsedInv'
    <3>1. quit' \/ eof'
      BY <1>1
    <3>2. ~parserGone'
      BY <1>1 DEF Working, ParserAlive
    <3> QED BY <1>1, <1>2, <3>1, <3>2 DEF StageInv, ParsedInv
  <2>3. WordsInv'
    BY <1>1, <1>2, SaysNone DEF StageInv, Working
  <2>4. ASSUME NEW f \in sent, Carried(f) PROVE Carried(f)'
    BY <1>1, <1>2, <2>4, FileStays
  <2>5. CarriedInv'
    BY <1>1, <2>1, <2>4, CarriedStays DEF StageInv
  <2> QED BY <1>1, <2>1, <2>2, <2>3, <2>5, InputStays DEF StageInv
<1>3. CASE stream # "open" /\ ParserGivesUp /\ UNCHANGED stream
  <2>1. FeedInv' /\ CommitInv' /\ BlamesTheGuilty'
    BY <1>1, <1>3, WorkingKeeps
  <2>2. parser' = "done" /\ fd1' = Append(fd1, Says("error"))
    BY <1>3 DEF ParserGivesUp
  <2>3. ParsedInv'
    BY <1>1, <1>3, <2>2 DEF StageInv, ParsedInv
  <2>4. WordsInv'
    <3>1. Says("error") \in Word /\ Says("error").say = "error" /\ Final(Says("error"))
      BY Kinds DEF Says, Final
    <3>2. Says("error").say \notin {"resend", "success"}
      BY <3>1
    <3>3. WordsInv /\ parser # "done" /\ UNCHANGED <<sent, parserHeard, phase, stream>>
      BY <1>1, <1>3 DEF StageInv, Working
    <3> QED BY <1>1, <2>2, <3>1, <3>2, <3>3, SaysOne
  <2>5. CarriedInv'
    BY <1>1, <1>3, <2>2 DEF CarriedInv, Doomed
  <2> QED BY <1>1, <2>1, <2>3, <2>4, <2>5, InputStays DEF StageInv
<1> QED BY <1>2, <1>3 DEF ParserEnds

\* How it ended is its last word.
LEMMA ParserConcludesOK ==
  ASSUME TypeOK, StageInv, ParserFinishes \/ ParserFails
  PROVE  StageInv'
<1> USE DEF BesideParser, rawVars, feedVars, pumpVars, coreVars
<1>1. PICK say \in {"success", "error"} :
        /\ parser' = "done" /\ fd1' = Append(fd1, Says(say))
        /\ (say = "success") = (stream = "marker")
  BY DEF ParserFinishes, ParserFails, ParserGivesUp, StageInv, ParsedInv
<1>2. /\ Working /\ BesideParser
      /\ UNCHANGED <<inbox, seen, eof, streak, stream, written, parserGone, parserHung, quit, stdin>>
  BY DEF ParserFinishes, ParserFails, Working
<1>3. FeedInv' /\ CommitInv' /\ BlamesTheGuilty' /\ ~Doomed
  BY <1>2, WorkingKeeps
<1>4. ParsedInv'
  BY <1>1, <1>2 DEF StageInv, ParsedInv
<1>5. Says(say) \in Word /\ Says(say).say = say /\ Final(Says(say)) /\ say # "resend"
  BY Kinds DEF Says, Final
<1>6. WordsInv'
  <2>1. WordsInv /\ parser # "done" /\ UNCHANGED <<sent, parserHeard, phase, stream>>
    BY <1>2 DEF StageInv, Working
  <2> QED BY <1>1, <1>5, <2>1, SaysOne
<1>7. ASSUME NEW f \in sent, Carried(f) PROVE Carried(f)'
  <2>1. fd1 \in Seq(Word)
    BY DEF TypeOK, Word
  <2>2. ToSet(fd1') = ToSet(fd1) \cup {Says(say)}
    BY <1>1, <1>5, <2>1, Appended
  <2> QED BY <1>2, <1>7, <2>2 DEF Carried
<1>8. CarriedInv'
  BY <1>2, <1>3, <1>7, CarriedStays DEF StageInv
<1> QED BY <1>2, <1>3, <1>4, <1>6, <1>8, InputStays DEF StageInv

\* A parser that is gone without its marker is doomed, and so it stays.
LEMMA ParserLeavesOK ==
  ASSUME TypeOK, StageInv, ParserLeaves \/ ParserHangs
  PROVE  StageInv'
<1> USE DEF BesideParser, rawVars, feedVars, pumpVars, coreVars
<1>1. /\ BesideParser /\ UNCHANGED <<parser, inbox, seen, eof, streak, written, quit, stdin, fd1>>
      /\ \/ parserGone' = TRUE /\ stream' = IF stream = "marker" THEN stream ELSE "cut"
         \/ UNCHANGED <<parserGone, stream>>
  BY DEF ParserLeaves, ParserHangs
<1>2. ParsedInv'
  BY <1>1 DEF StageInv, ParsedInv
<1>3. WordsInv'
  BY <1>1, WordsStay DEF StageInv
<1>4. CarriedInv'
  <2>1. Doomed => Doomed'
    BY <1>1 DEF Doomed
  <2> QED BY <1>1, <2>1, FileStays, CarriedStays DEF StageInv
<1>5. BlamesTheGuilty'
  BY <1>1 DEF StageInv, BlamesTheGuilty
<1>6. CommitInv'
  BY <1>1 DEF StageInv, CommitInv
<1>7. FeedInv' /\ InputInv'
  BY <1>1, FeedStays, InputStays DEF StageInv
<1> QED BY <1>2, <1>3, <1>4, <1>5, <1>6, <1>7 DEF StageInv

\* Every step of the parser's.
LEMMA ParserOK ==
  ASSUME TypeOK, StageInv, ParserStep
  PROVE  StageInv'
  BY ParserReadsOK, ParserOpensOK, ParserWritesOK, ParserEndsOK, ParserConcludesOK, ParserLeavesOK
     DEF ParserStep, ParserWork, ParserExits, ParserCrashes, ParserStopped

----------------------------------------------------------------------------
(* The feed *)

\* A line that is queued is behind no end of the input.
LEMMA QueueGrows ==
  ASSUME TypeOK, InputInv, ~inputClosed, sent \subseteq sent', NEW line \in Line, queue' = Append(queue, line),
         line.ok, line.file \in sent' \cup {0}, line.file = 0 => inputClosed', UNCHANGED <<stdin, eof>>
  PROVE  InputInv' /\ ToSet(queue') = ToSet(queue) \cup {line}
<1>1. /\ Len(queue') = Len(queue) + 1 /\ Len(queue) \in Nat
      /\ \A i \in 1..Len(queue) : queue'[i] = queue[i]
      /\ queue'[Len(queue) + 1] = line /\ ToSet(queue') = ToSet(queue) \cup {line}
  BY Appended DEF TypeOK
<1>2. /\ \A i \in 1..Len(queue) : queue[i].file # 0
      /\ \A i \in 1..Len(stdin) : stdin[i].file # 0
      /\ ~eof
  BY DEF InputInv
<1>3. \A l \in ToSet(queue') : l.ok /\ l.file \in sent' \cup {0}
  BY <1>1 DEF InputInv
<1>4. ASSUME NEW i \in 1..Len(queue'), queue'[i].file = 0 PROVE inputClosed' /\ i = Len(queue')
  <2>1. i \notin 1..Len(queue)
    BY <1>1, <1>2, <1>4
  <2>2. i = Len(queue) + 1
    BY <1>1, <2>1
  <2> QED BY <1>1, <1>4, <2>2
<1>5. ~eof' /\ (\A i \in 1..Len(stdin') : stdin'[i].file # 0)
  BY <1>2
<1>6. \A l \in ToSet(stdin') : l.file \in sent' \cup {0} /\ (l.file = 0 => l.ok)
  BY DEF InputInv
<1> QED BY <1>1, <1>3, <1>4, <1>5, <1>6 DEF InputInv

\* A file that is handed over is on its way.
LEMMA FeedObjectOK ==
  ASSUME TypeOK, StageInv, FeedObject
  PROVE  StageInv'
<1> USE DEF BesideFeed, rawVars, parserVars, pumpVars, GoOn
<1>0. PICK f : f = Head(events)
  OBVIOUS
<1>1. f \in Names /\ f # 0 /\ ToSet(events) = ToSet(events') \cup {f}
  <2>1. events \in Seq(Names) /\ events # <<>> /\ events' = Tail(events)
    BY DEF TypeOK, FeedObject
  <2>2. f \in Names /\ ToSet(events) = ToSet(events') \cup {f}
    BY <1>0, <2>1, Shortened
  <2> QED BY <2>2 DEF Names
<1>2. /\ BesideFeed /\ GoOn /\ UNCHANGED <<objectsOpen, rawHeard, overdueSet, inputClosed>> /\ objectsOpen
      /\ IF f \in sent THEN UNCHANGED <<sent, queue, lastSent>>
         ELSE /\ sent' = sent \cup {f} /\ lastSent' = f
              /\ queue' = Append(queue, [file |-> f, ok |-> TRUE])
  BY <1>0 DEF FeedObject
<1>3. sent' = sent \cup {f} /\ lastSent' \in {lastSent, f} /\ ~inputClosed
  BY <1>2 DEF StageInv, FeedInv
<1>4. FeedInv'
  BY <1>1, <1>2, <1>3 DEF StageInv, FeedInv
<1>5. InputInv' /\ ToSet(queue) \subseteq ToSet(queue') /\ (f \in sent \/ \E line \in ToSet(queue') : line.file = f)
  <2>1. CASE f \in sent
    BY <1>2, <2>1, InputStays DEF StageInv
  <2>2. CASE f \notin sent
    <3> DEFINE line == [file |-> f, ok |-> TRUE]
    <3>1. line \in Line /\ line.ok /\ line.file = f
      BY <1>1, Kinds
    <3>2. queue' = Append(queue, line)
      BY <1>2, <2>2
    <3> HIDE DEF line
    <3>3. InputInv' /\ ToSet(queue') = ToSet(queue) \cup {line}
      BY <1>1, <1>2, <1>3, <3>1, <3>2, QueueGrows DEF StageInv
    <3> QED BY <3>1, <3>3
  <2> QED BY <2>1, <2>2
<1>6. CarriedInv'
  <2>1. Doomed => Doomed'
    BY <1>2, DoomedStays
  <2>2. ASSUME NEW g \in sent, Carried(g) PROVE Carried(g)'
    BY <1>2, <1>5, <2>2 DEF Carried
  <2>3. f \notin sent => Carried(f)'
    BY <1>2, <1>5 DEF Carried
  <2>4. quit' = quit /\ unrepaired' = unrepaired
    BY <1>2
  <2>5. (\A g \in sent \ unrepaired : Carried(g)) => (\A g \in sent' \ unrepaired' : Carried(g)')
    BY <1>3, <2>2, <2>3, <2>4
  <2> QED BY <2>1, <2>4, <2>5 DEF StageInv, CarriedInv
<1> QED
  BY <1>2, <1>3, <1>4, <1>5, <1>6, ParsedStays, WordsStay, CommitStays, BlameStays DEF StageInv

\* What the feed hears of the raw source's end is so.
LEMMA FeedHearsOK ==
  ASSUME TypeOK, StageInv, FeedClosed \/ FeedFinished \/ FeedGone \/ FeedOverdue
  PROVE  StageInv'
<1> USE DEF BesideFeed, rawVars, feedVars, parserVars, pumpVars, GoOn, Fail
<1>1. /\ UNCHANGED <<announced, rawOpen, rawSaid, rawGone, rawHung, events, sent, queue, stdin, lastSent, inputClosed>>
      /\ UNCHANGED <<garbled, unrepaired, parser, inbox, seen, eof, streak, stream, written, parserGone, parserHung, quit>>
      /\ UNCHANGED <<fd1, pumped, pumpHeard, parserHeard, finishDue>>
      /\ phase \in {"schema", "supervising"} /\ phase' \in {phase, "aborting"}
  BY DEF FeedClosed, FeedFinished, FeedGone, FeedOverdue, Hearing, Looping
<1>2. FeedInv'
  <2>1. CASE FeedClosed
    BY <1>1, <2>1 DEF FeedClosed, StageInv, FeedInv
  <2>2. CASE FeedFinished
    BY <1>1, <2>2 DEF FeedFinished, StageInv, FeedInv
  <2>3. CASE FeedGone \/ FeedOverdue
    <3>1. UNCHANGED feedVars
      BY <2>3 DEF FeedGone, FeedOverdue
    <3> QED BY <1>1, <3>1, FeedStays DEF StageInv
  <2> QED BY <2>1, <2>2, <2>3
<1>3. BlamesTheGuilty'
  <2>1. \/ failure' \in {failure, "sourceLate"}
        \/ failure' = "source" /\ (rawSaid = "error" \/ (rawGone /\ rawSaid = "nothing"))
    BY DEF FeedClosed, FeedFinished, FeedGone, FeedOverdue, TypeOK, Said
  <2> QED BY <1>1, <2>1 DEF StageInv, BlamesTheGuilty
<1>4. CommitInv'
  BY <1>1 DEF CommitInv
<1>5. CarriedInv'
  BY <1>1, CarriedStays, DoomedStays, FileStays DEF StageInv
<1> QED BY <1>1, <1>2, <1>3, <1>4, <1>5, InputStays, ParsedStays, WordsStay DEF StageInv

\* The end of the input is behind every line that was queued.
LEMMA EndInputOK ==
  ASSUME TypeOK, StageInv, EndInput
  PROVE  StageInv'
<1> USE DEF BesideFeed, rawVars, feedVars, parserVars, pumpVars, GoOn
<1>1. /\ BesideFeed /\ GoOn /\ UNCHANGED <<events, feedVars, lastSent>> /\ inputClosed' = TRUE
      /\ ~inputClosed /\ ~objectsOpen /\ rawHeard = "success" /\ queue' = Append(queue, End)
      /\ phase \in {"schema", "supervising"}
  BY DEF EndInput, EndDue, Looping
<1>2. InputInv' /\ ToSet(queue') = ToSet(queue) \cup {End}
  <2>1. End \in Line /\ End.ok /\ End.file = 0
    BY Kinds DEF End
  <2> QED BY <1>1, <2>1, QueueGrows DEF StageInv
<1>3. FeedInv'
  BY <1>1 DEF StageInv, FeedInv
<1>4. CarriedInv'
  <2>1. ASSUME NEW f \in sent, Carried(f) PROVE Carried(f)'
    BY <1>1, <1>2, <2>1 DEF Carried
  <2> QED BY <1>1, <2>1, CarriedStays, DoomedStays DEF StageInv
<1>5. CommitInv'
  BY <1>1 DEF CommitInv
<1> QED BY <1>1, <1>2, <1>3, <1>4, <1>5, ParsedStays, WordsStay, BlameStays DEF StageInv

----------------------------------------------------------------------------
(* The core *)

\* A repetition is of the line that was asked for, or the file it is for
\* is not repaired.
LEMMA ReplayOK ==
  ASSUME TypeOK, InputInv, FeedInv, NEW file, file \in sent, Replay(file),
         UNCHANGED <<sent, stdin, eof, inputClosed, lastSent>>
  PROVE  /\ InputInv' /\ ToSet(queue) \subseteq ToSet(queue') /\ unrepaired \subseteq unrepaired'
         /\ file \in unrepaired' \/ \E line \in ToSet(queue') : line.file = file
<1>1. file \in Names /\ file # 0
  BY DEF TypeOK, Names
<1>2. CASE inputClosed \/ lastSent = 0
  BY <1>1, <1>2, InputStays DEF Replay
<1>3. CASE ~inputClosed /\ lastSent # 0
  <2>1. PICK line \in Line : line = [file |-> lastSent, ok |-> TRUE]
    BY <1>3, Kinds DEF TypeOK
  <2>2. line.ok /\ line.file = lastSent /\ lastSent \in sent /\ queue' = Append(queue, line)
    BY <1>3, <2>1 DEF Replay, FeedInv
  <2>3. InputInv' /\ ToSet(queue') = ToSet(queue) \cup {line}
    BY <1>3, <2>2, QueueGrows
  <2>4. unrepaired \subseteq unrepaired' /\ (file \in unrepaired' \/ lastSent = file)
    BY DEF Replay
  <2> QED BY <2>2, <2>3, <2>4
<1> QED BY <1>2, <1>3

\* The words that are left when one was heard.
LEMMA HeardWords ==
  ASSUME TypeOK, StageInv, HearParser
  PROVE  WordsInv'
<1>1. fd1 \in Seq(Word) /\ fd1 # <<>> /\ fd1' = Tail(fd1)
  BY DEF TypeOK, HearParser, Word
<1>2. PICK word \in Word : word = fd1[1] /\ word = Head(fd1)
  BY <1>1, Shortened
<1>3. /\ Len(fd1') = Len(fd1) - 1 /\ Len(fd1) \in Nat \ {0} /\ fd1' \in Seq(Word)
      /\ \A k \in 1..Len(fd1) - 1 : fd1'[k] = fd1[k + 1]
  BY <1>1, Shortened
<1>4. /\ UNCHANGED <<sent, parser, stream>> /\ phase' \in {phase, "header", "aborting"}
      /\ phase' = "schema" => word.say # "schema"
      /\ word.say \in {"schema", "resend"} => parserHeard' = parserHeard
      /\ word.say \in {"success", "error"} => parserHeard' = word.say
  BY <1>2 DEF HearParser, BesideHearing, feedVars, parserVars, GoOn, Fail
<1>5. parserHeard = "nothing"
  BY <1>1 DEF StageInv, WordsInv
<1>6. /\ Final(word) => parser = "done" /\ Len(fd1) = 1
      /\ word.say = "success" => stream = "marker"
      /\ word.say = "error" => stream # "marker"
  <2>1. 1 \in 1..Len(fd1)
    BY <1>3
  <2> QED BY <1>2, <2>1 DEF StageInv, WordsInv
<1>7. word.say \in {"schema", "resend"} \/ Final(word)
  BY DEF Word, Final
<1>8. CASE Final(word)
  <2>1. fd1' = <<>>
    <3>1. Len(fd1) = 1
      BY <1>6, <1>8
    <3>2. Len(fd1') = 0
      BY <1>3, <3>1
    <3> QED BY <1>3, <3>2, Elements
  <2>2. Len(fd1') = 0
    BY <2>1
  <2>3. parserHeard' = word.say /\ word.say \in {"success", "error"} /\ parser' = "done" /\ stream' = stream
    BY <1>4, <1>6, <1>8 DEF Final
  <2>4. phase' # "schema" \/ stream \notin {"open", "marker"}
    <3> SUFFICES ASSUME phase' = "schema", stream \in {"open", "marker"} PROVE FALSE
      OBVIOUS
    <3>1. PICK k \in 1..Len(fd1) : fd1[k].say = "schema"
      BY <1>4 DEF StageInv, WordsInv
    <3>2. Len(fd1) = 1
      BY <1>6, <1>8
    <3>3. k = 1
      BY <3>1, <3>2
    <3> QED BY <1>2, <1>4, <3>1, <3>3
  <2> QED BY <1>6, <2>1, <2>2, <2>3, <2>4 DEF WordsInv
<1>9. CASE word.say \in {"schema", "resend"}
  <2>1. ~Final(word) /\ parserHeard' = "nothing"
    BY <1>4, <1>5, <1>9 DEF Final
  <2>2. ASSUME NEW k \in 1..Len(fd1')
        PROVE  /\ Final(fd1'[k]) => parser' = "done" /\ k = Len(fd1') /\ parserHeard' = "nothing"
               /\ fd1'[k].say = "success" => stream' = "marker"
               /\ fd1'[k].say = "error" => stream' # "marker"
               /\ fd1'[k].say = "resend" => fd1'[k].file \in sent'
    <3>1. k + 1 \in 1..Len(fd1) /\ fd1'[k] = fd1[k + 1] /\ k \in Int /\ Len(fd1) \in Int
      BY <1>3
    <3>2. /\ Final(fd1[k + 1]) => parser = "done" /\ k + 1 = Len(fd1)
          /\ fd1[k + 1].say = "success" => stream = "marker"
          /\ fd1[k + 1].say = "error" => stream # "marker"
          /\ fd1[k + 1].say = "resend" => fd1[k + 1].file \in sent
      BY <3>1 DEF StageInv, WordsInv
    <3>3. k + 1 = Len(fd1) => k = Len(fd1')
      BY <1>3, <3>1
    <3> QED BY <1>4, <2>1, <3>1, <3>2, <3>3
  <2>3. parser' = "done" => fd1' # <<>> /\ Final(fd1'[Len(fd1')])
    <3> SUFFICES ASSUME parser = "done" PROVE fd1' # <<>> /\ Final(fd1'[Len(fd1')])
      BY <1>4
    <3>1. Final(fd1[Len(fd1)])
      BY <1>5 DEF StageInv, WordsInv
    <3>2. Len(fd1) # 1
      BY <1>2, <2>1, <3>1
    <3>3. Len(fd1) - 1 \in 1..Len(fd1) - 1 /\ Len(fd1) - 1 + 1 = Len(fd1)
      BY <1>3, <3>2
    <3>4. fd1'[Len(fd1')] = fd1[Len(fd1)]
      BY <1>3, <3>3
    <3>5. fd1' # <<>>
      BY <1>3, <3>2, Elements
    <3> QED BY <3>1, <3>4, <3>5
  <2>4. phase' = "schema" /\ stream' \in {"open", "marker"} => \E k \in 1..Len(fd1') : fd1'[k].say = "schema"
    <3> SUFFICES ASSUME phase' = "schema", stream \in {"open", "marker"}
                 PROVE  \E k \in 1..Len(fd1') : fd1'[k].say = "schema"
      BY <1>4
    <3>1. PICK k \in 1..Len(fd1) : fd1[k].say = "schema"
      BY <1>4 DEF StageInv, WordsInv
    <3>2. k # 1
      BY <1>2, <1>4, <3>1
    <3>3. k - 1 \in 1..Len(fd1) - 1 /\ k - 1 + 1 = k
      BY <1>3, <3>2
    <3>4. fd1'[k - 1] = fd1[k] /\ k - 1 \in 1..Len(fd1')
      BY <1>3, <3>3
    <3> QED BY <3>1, <3>4
  <2> QED BY <2>1, <2>2, <2>3, <2>4 DEF WordsInv
<1> QED BY <1>7, <1>8, <1>9

\* What is heard of the parser: its end is not blamed on it where the raw
\* source's was heard, and a line it asks for is on its way again.
LEMMA HearParserOK ==
  ASSUME TypeOK, StageInv, HearParser
  PROVE  StageInv'
<1> USE DEF BesideHearing, rawVars, feedVars, parserVars, pumpVars
<1>1. WordsInv'
  BY HeardWords
<1>2. fd1 \in Seq(Word) /\ fd1 # <<>> /\ fd1' = Tail(fd1) /\ BesideHearing
  BY DEF TypeOK, HearParser, Word
<1>3. PICK word \in Word : word = fd1[1] /\ word = Head(fd1)
  BY <1>2, Shortened
<1>4. ToSet(fd1) = ToSet(fd1') \cup {word} /\ 1 \in 1..Len(fd1)
  BY <1>2, <1>3, Shortened
<1>5. /\ Final(word) => parser = "done" /\ Len(fd1) = 1
      /\ word.say = "success" => stream = "marker"
      /\ word.say = "error" => stream # "marker"
      /\ word.say = "resend" => word.file \in sent
  BY <1>3, <1>4 DEF StageInv, WordsInv
<1>6. FeedInv' /\ ParsedInv'
  BY <1>2, FeedStays, ParsedStays DEF StageInv
<1>7. CommitInv'
  BY DEF HearParser, Hearing, Looping, CommitInv, GoOn, Fail
<1>8. (Doomed => Doomed') /\ (quit => quit')
  BY <1>2, DoomedStays
<1>9. CASE word.say # "resend"
  <2>1. UNCHANGED <<queue, unrepaired>>
    BY <1>3, <1>9 DEF HearParser
  <2>2. InputInv'
    BY <1>2, <2>1, InputStays DEF StageInv
  <2>3. ASSUME NEW f \in sent, Carried(f) PROVE Carried(f)'
    BY <1>2, <1>4, <1>9, <2>1, <2>3 DEF Carried
  <2>4. CarriedInv'
    BY <1>2, <1>8, <2>1, <2>3, CarriedStays DEF StageInv
  <2>5. BlamesTheGuilty'
    <3>1. CASE UNCHANGED failure
      BY <1>2, <3>1, BlameStays DEF StageInv
    <3>2. CASE failure' = "parser" /\ word.say = "error"
      BY <1>2, <1>5, <3>2 DEF BlamesTheGuilty, Final
    <3>3. CASE failure' = "parser" /\ word.say = "success" /\ phase = "schema"
      <4>1. PICK k \in 1..Len(fd1) : fd1[k].say = "schema"
        BY <1>5, <3>3 DEF StageInv, WordsInv
      <4>2. Len(fd1) = 1
        BY <1>5, <3>3 DEF Final
      <4>3. k = 1
        BY <4>1, <4>2
      <4> QED BY <1>3, <3>3, <4>1, <4>3
    <3>4. CASE failure' = "parser" /\ word.say = "success" /\ ~inputClosed
      <4>1. quit
        BY <1>5, <3>4 DEF StageInv, ParsedInv, InputInv
      <4> QED BY <1>2, <3>4, <4>1 DEF BlamesTheGuilty
    <3> QED BY <1>3, <1>9, <3>1, <3>2, <3>3, <3>4 DEF HearParser, Fail, GoOn
  <2> QED BY <1>1, <1>6, <1>7, <2>2, <2>4, <2>5 DEF StageInv
<1>10. CASE word.say = "resend"
  <2>1. Replay(word.file) /\ UNCHANGED failure
    BY <1>3, <1>10 DEF HearParser, GoOn
  <2>2. /\ InputInv' /\ ToSet(queue) \subseteq ToSet(queue') /\ unrepaired \subseteq unrepaired'
        /\ word.file \in unrepaired' \/ \E line \in ToSet(queue') : line.file = word.file
    BY <1>2, <1>5, <1>10, <2>1, ReplayOK DEF StageInv
  <2>3. ASSUME NEW f \in sent \ unrepaired', Carried(f) PROVE Carried(f)'
    BY <1>2, <1>4, <2>2, <2>3 DEF Carried
  <2>4. CarriedInv'
    BY <1>2, <1>8, <2>2, <2>3, CarriedStays DEF StageInv
  <2>5. BlamesTheGuilty'
    BY <1>2, <2>1, BlameStays DEF StageInv
  <2> QED BY <1>1, <1>6, <1>7, <2>2, <2>4, <2>5 DEF StageInv
<1> QED BY <1>9, <1>10

\* A parser that is gone without a word broke down; one that finished early
\* did so before the end of its input.
LEMMA OtherOK ==
  ASSUME TypeOK, StageInv, OtherStep
  PROVE  StageInv'
<1> USE DEF BesideHearing, rawVars, feedVars, parserVars, pumpVars
<1>1. /\ BesideHearing /\ UNCHANGED <<fd1, queue, unrepaired, parserHeard, finishDue>>
      /\ \/ phase' = "aborting" /\ failure' \in {"parser", "parserLate", "stalled", "destination", "signal"}
         \/ phase' \in {"starting", "supervising", "reaping", "over"} /\ failure' = failure
  BY OtherSteps
<1>2. FeedInv' /\ InputInv' /\ ParsedInv' /\ WordsInv'
  BY <1>1, FeedStays, InputStays, ParsedStays, WordsStay DEF StageInv
<1>3. CarriedInv'
  BY <1>1, CarriedStays, DoomedStays, FileStays DEF StageInv
<1>4. CommitInv'
  <2>1. phase' = "reaping" => Commit
    BY <1>1 DEF OtherStep, HearParserGone, EarlySuccess, HeaderRead, DestinationReady, Collect,
       Deadlines, DestinationFails, Signal, Fail
  <2> QED BY <1>1, <2>1 DEF Commit, CommitInv
<1>5. BlamesTheGuilty'
  <2>1. failure' = "parser" /\ failure # "parser" => quit \/ stream = "cut" \/ (parserGone /\ parser # "done")
    <3>1. CASE HearParserGone
      BY <3>1 DEF HearParserGone, StageInv, WordsInv
    <3>2. CASE EarlySuccess
      BY <3>2 DEF EarlySuccess, EarlyDue, StageInv, WordsInv, ParsedInv, InputInv
    <3>3. CASE HeaderRead
      BY <3>3 DEF HeaderRead
    <3>4. CASE DestinationReady \/ Commit \/ Collect \/ Deadlines \/ DestinationFails \/ Signal
      BY <3>4 DEF DestinationReady, Commit, Collect, Deadlines, DestinationFails, Signal, Fail
    <3> QED BY <3>1, <3>2, <3>3, <3>4 DEF OtherStep
  <2> QED BY <1>1, <2>1 DEF StageInv, BlamesTheGuilty
<1> QED BY <1>2, <1>3, <1>4, <1>5 DEF StageInv

\* The pump takes what is there, and hears how the stream ended.
LEMMA PumpOK ==
  ASSUME TypeOK, StageInv, Pump \/ HearPump
  PROVE  StageInv'
<1> USE DEF rawVars, feedVars, inputVars, parserVars, coreVars
<1>1. /\ UNCHANGED <<rawVars, events, feedVars, inputVars, parserVars, fd1, parserHeard>>
      /\ phase = "supervising" /\ phase' \in {"supervising", "aborting"}
      /\ failure' = failure \/ (failure' = "parser" /\ stream = "cut")
  BY DEF Pump, HearPump, Fail, GoOn
<1>2. FeedInv' /\ InputInv' /\ ParsedInv' /\ WordsInv'
  BY <1>1, FeedStays, InputStays, ParsedStays, WordsStay DEF StageInv
<1>3. CarriedInv'
  BY <1>1, CarriedStays, DoomedStays, FileStays DEF StageInv
<1>4. CommitInv'
  BY <1>1 DEF CommitInv
<1>5. BlamesTheGuilty'
  BY <1>1 DEF StageInv, BlamesTheGuilty
<1> QED BY <1>2, <1>3, <1>4, <1>5 DEF StageInv

----------------------------------------------------------------------------
(* Theorems *)

\* The stage begins with nothing announced and nothing said but a schema.
LEMMA StageInit == Init => TypeOK /\ StageInv
<1> SUFFICES ASSUME Init PROVE TypeOK /\ StageInv
  OBVIOUS
<1>1. Says("schema") \in Word /\ Says("schema").say = "schema" /\ Says("schema").file = 0
  BY Kinds DEF Says
<1>2. /\ fd1 \in Seq(Word) /\ stream \in {"none", "open"} /\ (stream = "open" => Len(fd1) = 1)
      /\ \A k \in 1..Len(fd1) : fd1[k] = Says("schema")
  <2>1. CASE stream = "none" /\ fd1 = <<>>
    BY <2>1
  <2>2. CASE stream = "open" /\ fd1 = <<Says("schema")>>
    BY <1>1, <2>2
  <2> QED BY <2>1, <2>2 DEF Init
<1>3. /\ queue = <<>> /\ stdin = <<>> /\ announced = <<>> /\ events = <<>> /\ written = <<>> /\ inbox = <<>>
      /\ ToSet(queue) = {} /\ ToSet(stdin) = {} /\ ToSet(announced) = {} /\ ToSet(events) = {}
      /\ ToSet(written) = {} /\ ToSet(inbox) = {}
  <2>1. DOMAIN <<>> = {}
    OBVIOUS
  <2>2. ToSet(<<>>) = {}
    BY <2>1 DEF ToSet
  <2> QED BY <2>2 DEF Init
<1>4. TypeOK
  <2>1. fd1 \in Seq([say : {"schema", "resend", "success", "error"}, file : Names \cup {0}])
    BY <1>2 DEF Word
  <2>2. 0 \in 0..Garbles /\ Len(stdin) <= StdinRoom /\ 0 \in 0..Len(written)
    BY <1>3, StageAssumption
  <2>3. /\ rawOpen \in BOOLEAN /\ rawGone \in BOOLEAN /\ rawHung \in BOOLEAN /\ objectsOpen \in BOOLEAN
        /\ overdueSet \in BOOLEAN /\ inputClosed \in BOOLEAN /\ eof \in BOOLEAN
        /\ parserGone \in BOOLEAN /\ parserHung \in BOOLEAN /\ quit \in BOOLEAN
        /\ pumpHeard \in BOOLEAN /\ finishDue \in BOOLEAN
    BY Zenon DEF Init
  <2> QED BY <1>2, <2>1, <2>2, <2>3 DEF Init, TypeOK, Said
<1>5. FeedInv /\ InputInv /\ CommitInv /\ BlamesTheGuilty
  BY <1>3 DEF Init, FeedInv, InputInv, CommitInv, BlamesTheGuilty
<1>6. ParsedInv
  <2>1. IsInjective(<<>>)
    <3>1. DOMAIN <<>> = {}
      OBVIOUS
    <3> QED BY <3>1 DEF IsInjective
  <2> QED BY <1>3, <2>1 DEF Init, ParsedInv
<1>7. WordsInv
  <2>1. phase = "schema" /\ stream \in {"open", "marker"} => \E k \in 1..Len(fd1) : fd1[k].say = "schema"
    <3>1. Len(fd1) = 1 => 1 \in 1..Len(fd1)
      OBVIOUS
    <3> QED BY <1>1, <1>2, <3>1
  <2> QED BY <1>1, <1>2, <2>1 DEF Init, WordsInv, Final
<1>8. CarriedInv
  BY DEF Init, CarriedInv
<1> QED BY <1>4, <1>5, <1>6, <1>7, <1>8 DEF StageInv

\* Every step keeps it.
LEMMA StageStep == TypeOK /\ StageInv /\ [Next]_vars => (TypeOK /\ StageInv)'
<1> SUFFICES ASSUME TypeOK, StageInv, [Next]_vars PROVE (TypeOK /\ StageInv)'
  OBVIOUS
<1>1. TypeOK'
  BY TypesStep DEF StageInv
<1>2. CASE UNCHANGED vars
  <2> USE DEF vars, rawVars, feedVars, inputVars, parserVars, pumpVars, coreVars
  <2>1. FeedInv' /\ InputInv' /\ ParsedInv' /\ WordsInv' /\ CommitInv' /\ BlamesTheGuilty'
    BY <1>2, FeedStays, InputStays, ParsedStays, WordsStay, CommitStays, BlameStays DEF StageInv
  <2>2. CarriedInv'
    BY <1>2, CarriedStays, DoomedStays, FileStays DEF StageInv
  <2> QED BY <1>1, <2>1, <2>2 DEF StageInv
<1>3. CASE FeedStep
  BY <1>1, <1>3, FeedObjectOK, FeedHearsOK, EndInputOK DEF FeedStep
<1>4. CASE CoreStep
  BY <1>1, <1>4, HearParserOK, OtherOK, PumpOK DEF CoreStep, OtherStep
<1>5. CASE Pump \/ Deadlines \/ DestinationFails \/ Signal
  BY <1>1, <1>5, OtherOK, PumpOK DEF OtherStep
<1> QED
  BY <1>1, <1>2, <1>3, <1>4, <1>5, RawOK, WriterWritesOK, WriterBreaksOK, ParserOK DEF Next, Over

\* The types and the invariant hold in every state of the stage.
THEOREM StageSafe == Spec => [](TypeOK /\ StageInv)
<1> QED BY StageInit, StageStep, PTL DEF Spec

\* The stream holds no file twice, for any number of files, announced as often
\* as the raw source likes, and any number of garbled lines.
THEOREM StageNothingTwice == Spec => []NothingTwice
<1>1. StageInv => NothingTwice
  BY DEF StageInv, ParsedInv, NothingTwice
<1> QED BY <1>1, StageSafe, PTL

\* What is committed lacks no file but one whose own garbled line was not the
\* one repeated, unless the parser stopped by itself.
THEOREM StageCommitsEveryFile == Spec => []CommitsEveryFile
<1>1. TypeOK /\ StageInv => CommitsEveryFile
  <2> SUFFICES ASSUME TypeOK, StageInv, phase = "reaping"
               PROVE  /\ rawSaid = "success" /\ ToSet(written) \subseteq ToSet(announced)
                      /\ quit \/ \A f \in ToSet(announced) \ unrepaired : f \in ToSet(written)
    BY DEF CommitsEveryFile
  <2>1. inputClosed /\ rawHeard = "success" /\ parserHeard = "success" /\ stream = "marker"
    BY DEF StageInv, CommitInv
  <2>2. rawSaid = "success" /\ events = <<>>
    BY <2>1 DEF StageInv, FeedInv
  <2>3. sent = ToSet(announced) /\ ToSet(written) \subseteq sent
    <3>1. ToSet(events) = {}
      BY <2>2, Elements DEF TypeOK
    <3> QED BY <3>1 DEF StageInv, FeedInv, ParsedInv
  <2>4. ASSUME ~quit PROVE \A f \in sent \ unrepaired : f \in ToSet(written)
    <3>1. inbox = <<>> /\ queue = <<>> /\ stdin = <<>> /\ fd1 = <<>>
      BY <2>1, <2>4 DEF StageInv, ParsedInv, InputInv, WordsInv
    <3>2. ToSet(inbox) = {} /\ ToSet(queue) = {} /\ ToSet(stdin) = {} /\ ToSet(fd1) = {}
      BY <3>1, Elements DEF TypeOK
    <3> QED BY <2>1, <2>4, <3>2 DEF StageInv, CarriedInv, Doomed, Carried
  <2> QED BY <2>2, <2>3, <2>4
<1> QED BY <1>1, StageSafe, PTL

\* Of the raw source and the parser, the one that is blamed is the one that
\* failed.
THEOREM StageBlamesTheGuilty == Spec => []BlamesTheGuilty
<1>1. StageInv => BlamesTheGuilty
  BY DEF StageInv
<1> QED BY <1>1, StageSafe, PTL

\* A parser whose raw source failed is never told that its input is complete.
THEOREM StageNoEndAfterFailure == Spec => []NoEndAfterFailure
<1>1. StageInv => NoEndAfterFailure
  BY DEF StageInv, FeedInv, InputInv, NoEndAfterFailure
<1> QED BY <1>1, StageSafe, PTL
=============================================================================
