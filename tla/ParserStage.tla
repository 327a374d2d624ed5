---------------------------- MODULE ParserStage ----------------------------
(***************************************************************************)
(* The parser stage: a raw source announces files on its event channel     *)
(* (loadsmith-plugin-sdk/src/object_source.rs), the core's Feed hands each *)
(* one to the parser as parse_object (loadsmith-core/src/parser_feed.rs),  *)
(* and the parser turns them into one Arrow stream                         *)
(* (loadsmith-plugin-sdk/src/parser.rs).  The parser's input is a queue, a *)
(* writer task and a pipe; a line of it may arrive garbled, and the parser *)
(* then asks for a repetition, which is answered with the last message the *)
(* core sent (loadsmith-core/src/peer.rs).                                 *)
(*                                                                         *)
(* The destination is reduced to what the stage sees of it: the pump takes *)
(* batches once the data phase runs, and it may fail.  Every file is one   *)
(* batch.  A deadline that is set may pass at any time.                    *)
(***************************************************************************)
EXTENDS Integers, Sequences, SequencesExt

CONSTANTS
  Files,     \* bound: the raw source has the files 1..Files
  StdinRoom, \* lines the parser's stdin holds
  PipeRoom,  \* batches the parser's data pipe holds
  Garbles,   \* bound: lines to the parser that arrive garbled
  Limits,    \* the timeouts that are not 0
  Faults     \* what may go wrong (StageFaults)

StageLimits == {"start", "finish", "stall"}
StageFaults == {"rawFails", "rawCrashes", "rawHangs", "rawRepeats",
                "parserFails", "parserCrashes", "parserHangs", "parserQuits",
                "dstFails", "signal"}

ASSUME StageAssumption ==
  /\ Files \in Nat /\ Garbles \in Nat
  /\ StdinRoom \in Nat \ {0} /\ PipeRoom \in Nat \ {0}
  /\ Limits \subseteq StageLimits
  /\ Faults \subseteq StageFaults

VARIABLES
  announced, \* files the raw source has announced
  events,    \* the announcements the feed has not read
  rawOpen,   \* the raw source's event channel is open
  rawSaid, rawGone, rawHung,
  objectsOpen, \* Feed.objects_open
  sent,        \* Feed.sent: the files handed over
  rawHeard,    \* raw.finished()
  overdueSet,  \* Feed.closing_deadline is set
  queue,       \* lines the parser's writer task has not written
  stdin,       \* lines in the parser's stdin; garbled ones are marked
  lastSent,    \* Peer.last_sent, towards the parser
  inputClosed, \* Peer.input_closed
  garbled,     \* lines garbled so far
  unrepaired,  \* the files whose garbled line was not the one that was repeated
  parser,      \* the parser process
  inbox,       \* Inbox: the files it has queued
  seen, eof, streak,
  stream,      \* the stream on fd3: not begun, open, ended, cut
  written,     \* the files written to it, in order
  fd1,         \* what the parser said and the core has not read
  parserGone, parserHung, quit,
  pumped,      \* batches the pump has read
  pumpHeard,   \* pump_outcome
  parserHeard, \* src.finished()
  finishDue,   \* source_end_deadline is set
  phase, failure

rawVars    == <<announced, rawOpen, rawSaid, rawGone, rawHung>>
feedVars   == <<objectsOpen, sent, rawHeard, overdueSet>>
inputVars  == <<queue, stdin, lastSent, inputClosed, garbled, unrepaired>>
parserVars == <<parser, inbox, seen, eof, streak, stream, written, parserGone, parserHung, quit>>
coreVars   == <<phase, failure, parserHeard, finishDue>>
pumpVars   == <<pumped, pumpHeard>>
vars == <<rawVars, events, feedVars, inputVars, parserVars, fd1, pumpVars, coreVars>>

Names == 1..Files
Said == {"nothing", "success", "error"}
Line == [file : Names \cup {0}, ok : BOOLEAN]   \* 0: the end of the input
End == [file |-> 0, ok |-> TRUE]
Says(word) == [say |-> word, file |-> 0]

TypeOK ==
  /\ announced \in Seq(Names) /\ events \in Seq(Names) /\ rawOpen \in BOOLEAN
  /\ rawSaid \in Said /\ rawGone \in BOOLEAN /\ rawHung \in BOOLEAN
  /\ objectsOpen \in BOOLEAN /\ sent \subseteq Names /\ rawHeard \in Said /\ overdueSet \in BOOLEAN
  /\ queue \in Seq(Line) /\ stdin \in Seq(Line) /\ Len(stdin) <= StdinRoom
  /\ lastSent \in Names \cup {0} /\ inputClosed \in BOOLEAN
  /\ garbled \in 0..Garbles /\ unrepaired \subseteq Names
  /\ parser \in {"idle", "parsing", "writing", "ended", "done"}
  /\ inbox \in Seq(Names) /\ seen \subseteq Names /\ eof \in BOOLEAN /\ streak \in 0..1
  /\ stream \in {"none", "open", "marker", "cut"} /\ written \in Seq(Names)
  /\ fd1 \in Seq([say : {"schema", "resend", "success", "error"}, file : Names \cup {0}])
  /\ parserGone \in BOOLEAN /\ parserHung \in BOOLEAN /\ quit \in BOOLEAN
  /\ pumped \in 0..Len(written) /\ pumpHeard \in BOOLEAN
  /\ parserHeard \in Said /\ finishDue \in BOOLEAN
  /\ phase \in {"schema", "header", "starting", "supervising", "aborting", "reaping", "over"}
  /\ failure \in {"none", "source", "sourceLate", "parser", "parserLate", "stalled", "destination", "signal"}

\* A parser whose config declares the schema sends it at once.
Init ==
  /\ announced = <<>> /\ events = <<>> /\ rawOpen = TRUE
  /\ rawSaid = "nothing" /\ rawGone = FALSE /\ rawHung = FALSE
  /\ objectsOpen = TRUE /\ sent = {} /\ rawHeard = "nothing" /\ overdueSet = FALSE
  /\ queue = <<>> /\ stdin = <<>> /\ lastSent = 0 /\ inputClosed = FALSE
  /\ garbled = 0 /\ unrepaired = {}
  /\ parser = "idle" /\ inbox = <<>> /\ seen = {} /\ eof = FALSE /\ streak = 0
  /\ \/ stream = "none" /\ fd1 = <<>>
     \/ stream = "open" /\ fd1 = <<Says("schema")>>
  /\ written = <<>> /\ parserGone = FALSE /\ parserHung = FALSE /\ quit = FALSE
  /\ pumped = 0 /\ pumpHeard = FALSE /\ parserHeard = "nothing" /\ finishDue = FALSE
  /\ phase = "schema" /\ failure = "none"

----------------------------------------------------------------------------
(* The raw source: drive_object_source *)

RawAlive == ~rawGone /\ ~rawHung
BesideRaw == UNCHANGED <<feedVars, inputVars, parserVars, fd1, pumpVars, coreVars>>

RawAnnounces ==
  /\ RawAlive /\ rawOpen /\ rawSaid = "nothing"
  /\ \E f \in Names :
       /\ \/ f = Len(announced) + 1
          \/ "rawRepeats" \in Faults /\ Len(announced) < Files /\ f \in ToSet(announced)
       /\ announced' = Append(announced, f)
       /\ events' = Append(events, f)
  /\ UNCHANGED <<rawOpen, rawSaid, rawGone, rawHung>> /\ BesideRaw

\* No more files: the event channel closes, then finished is sent.
RawCloses ==
  /\ RawAlive /\ rawOpen /\ rawSaid = "nothing"
  /\ rawOpen' = FALSE
  /\ UNCHANGED <<announced, events, rawSaid, rawGone, rawHung>> /\ BesideRaw

RawFinishes ==
  /\ RawAlive /\ rawSaid = "nothing"
  /\ \/ ~rawOpen /\ rawSaid' = "success"
     \/ rawOpen /\ "rawFails" \in Faults /\ rawSaid' = "error"
  /\ UNCHANGED <<announced, events, rawOpen, rawGone, rawHung>> /\ BesideRaw

RawLeaves ==
  /\ rawGone' = TRUE /\ rawOpen' = FALSE
  /\ UNCHANGED <<announced, events, rawSaid, rawHung>> /\ BesideRaw

RawExits   == RawAlive /\ rawSaid # "nothing" /\ RawLeaves
RawCrashes == ~rawGone /\ "rawCrashes" \in Faults /\ RawLeaves
RawStopped == phase \in {"aborting", "reaping"} /\ ~rawGone /\ RawLeaves
RawHangs ==
  /\ RawAlive /\ "rawHangs" \in Faults
  /\ rawHung' = TRUE
  /\ UNCHANGED <<announced, events, rawOpen, rawSaid, rawGone>> /\ BesideRaw

RawStep == RawAnnounces \/ RawCloses \/ RawFinishes \/ RawExits \/ RawCrashes \/ RawHangs \/ RawStopped

----------------------------------------------------------------------------
(* The parser's input: the writer task of Peer::queue_input, and the pipe *)

\* The end of the input is the pipe's: the writer drops its end behind the
\* last line.
WriterWrites ==
  /\ queue # <<>> /\ ~parserGone /\ Len(stdin) < StdinRoom
  /\ \/ stdin' = Append(stdin, Head(queue)) /\ UNCHANGED garbled
     \/ /\ Head(queue).file # 0 /\ garbled < Garbles
        /\ stdin' = Append(stdin, [Head(queue) EXCEPT !.ok = FALSE])
        /\ garbled' = garbled + 1
  /\ queue' = Tail(queue)
  /\ UNCHANGED <<rawVars, events, feedVars, lastSent, inputClosed, unrepaired, parserVars, fd1, pumpVars, coreVars>>

\* A write to a parser that is gone fails; its fd1 reports that.
WriterBreaks ==
  /\ queue # <<>> /\ parserGone
  /\ queue' = <<>>
  /\ UNCHANGED <<rawVars, events, feedVars, stdin, lastSent, inputClosed, garbled, unrepaired,
                 parserVars, fd1, pumpVars, coreVars>>

----------------------------------------------------------------------------
(* The parser: drive_parser, Inbox, Stream *)

ParserAlive == ~parserGone /\ ~parserHung
BesideParser ==
  UNCHANGED <<rawVars, events, feedVars, queue, lastSent, inputClosed, garbled, unrepaired, pumpVars, coreVars>>

\* A failure of its own: finished{error}, and the process goes.
ParserGivesUp == parser' = "done" /\ fd1' = Append(fd1, Says("error"))

\* Mutant of Take: a file is parsed as often as it is named.
TakeAgain(line) ==
  \/ /\ line.ok /\ line.file = 0
     /\ eof' = TRUE
     /\ UNCHANGED <<parser, inbox, seen, streak, fd1>>
  \/ /\ line.ok /\ line.file # 0
     /\ streak' = 0
     /\ inbox' = Append(inbox, line.file)
     /\ seen' = seen \cup {line.file}
     /\ UNCHANGED <<parser, eof, fd1>>
  \/ /\ ~line.ok
     /\ streak' = 1
     /\ fd1' = Append(fd1, [say |-> "resend", file |-> line.file])
     /\ UNCHANGED <<parser, inbox, seen, eof>>

\* A line: a file is queued once, however often it is named; the second
\* garbled line in a row is fatal.
Take(line) ==
  \/ /\ line.ok /\ line.file = 0
     /\ eof' = TRUE
     /\ UNCHANGED <<parser, inbox, seen, streak, fd1>>
  \/ /\ line.ok /\ line.file # 0
     /\ streak' = 0
     /\ inbox' = IF line.file \in seen THEN inbox ELSE Append(inbox, line.file)
     /\ seen' = seen \cup {line.file}
     /\ UNCHANGED <<parser, eof, fd1>>
  \/ /\ ~line.ok /\ streak = 0
     /\ streak' = 1
     /\ fd1' = Append(fd1, [say |-> "resend", file |-> line.file])
     /\ UNCHANGED <<parser, inbox, seen, eof>>
  \/ /\ ~line.ok /\ streak = 1
     /\ ParserGivesUp
     /\ UNCHANGED <<inbox, seen, eof, streak>>

\* The control channel is read beside opening and parsing a file, and when
\* there is nothing to parse: never while a batch is written.
ParserReads ==
  /\ ParserAlive /\ stdin # <<>>
  /\ \/ parser = "idle" /\ inbox = <<>>
     \/ parser = "parsing"
  /\ Take(Head(stdin))
  /\ stdin' = Tail(stdin)
  /\ UNCHANGED <<stream, written, parserGone, parserHung, quit>> /\ BesideParser

ParserPicks ==
  /\ ParserAlive /\ parser = "idle" /\ inbox # <<>>
  /\ parser' = "parsing"
  /\ UNCHANGED <<inbox, seen, eof, streak, stream, written, parserGone, parserHung, quit, stdin, fd1>>
  /\ BesideParser

\* The file is opened and read; the first one opens the stream of a parser
\* that infers its schema.
ParserParses ==
  /\ ParserAlive /\ parser = "parsing"
  /\ parser' = "writing"
  /\ IF stream = "none"
     THEN stream' = "open" /\ fd1' = Append(fd1, Says("schema"))
     ELSE UNCHANGED <<stream, fd1>>
  /\ UNCHANGED <<inbox, seen, eof, streak, written, parserGone, parserHung, quit, stdin>> /\ BesideParser

\* The write waits for room in the data pipe.
ParserWrites ==
  /\ ParserAlive /\ parser = "writing"
  /\ Len(written) - pumped < PipeRoom
  /\ written' = Append(written, Head(inbox))
  /\ inbox' = Tail(inbox)
  /\ parser' = "idle"
  /\ UNCHANGED <<seen, eof, streak, stream, parserGone, parserHung, quit, stdin, fd1>> /\ BesideParser

\* The input ended and every file is parsed: the end-of-stream marker, or
\* NO_INPUT without a schema.
ParserEnds ==
  /\ ParserAlive /\ parser = "idle" /\ inbox = <<>>
  /\ \/ eof /\ UNCHANGED quit
     \/ "parserQuits" \in Faults /\ ~eof /\ stream = "open" /\ quit' = TRUE
  /\ IF stream = "open"
     THEN stream' = "marker" /\ parser' = "ended" /\ UNCHANGED fd1
     ELSE ParserGivesUp /\ UNCHANGED stream
  /\ UNCHANGED <<inbox, seen, eof, streak, written, parserGone, parserHung, stdin>> /\ BesideParser

ParserFinishes ==
  /\ ParserAlive /\ parser = "ended"
  /\ parser' = "done"
  /\ fd1' = Append(fd1, Says("success"))
  /\ UNCHANGED <<inbox, seen, eof, streak, stream, written, parserGone, parserHung, quit, stdin>> /\ BesideParser

\* A file that cannot be opened or parsed, or does not fit the stream.
ParserFails ==
  /\ ParserAlive /\ "parserFails" \in Faults /\ parser = "parsing"
  /\ ParserGivesUp
  /\ UNCHANGED <<inbox, seen, eof, streak, stream, written, parserGone, parserHung, quit, stdin>> /\ BesideParser

ParserLeaves ==
  /\ parserGone' = TRUE
  /\ stream' = IF stream = "marker" THEN stream ELSE "cut"
  /\ UNCHANGED <<parser, inbox, seen, eof, streak, written, parserHung, quit, stdin, fd1>> /\ BesideParser

ParserExits   == ParserAlive /\ parser = "done" /\ ParserLeaves
ParserCrashes == ~parserGone /\ "parserCrashes" \in Faults /\ ParserLeaves
ParserStopped == phase \in {"aborting", "reaping"} /\ ~parserGone /\ ParserLeaves
ParserHangs ==
  /\ ParserAlive /\ "parserHangs" \in Faults
  /\ parserHung' = TRUE
  /\ UNCHANGED <<parser, inbox, seen, eof, streak, stream, written, parserGone, quit, stdin, fd1>> /\ BesideParser

ParserWork ==
  \/ ParserReads \/ ParserPicks \/ ParserParses \/ ParserWrites
  \/ ParserFinishes \/ ParserExits
ParserStep ==
  \/ ParserWork \/ ParserEnds \/ ParserFails \/ ParserCrashes \/ ParserHangs \/ ParserStopped

----------------------------------------------------------------------------
(* The core: the feed *)

\* A failure: every plugin is told, and past the grace period killed.
Fail(cause) == phase' = "aborting" /\ failure' = cause
GoOn == UNCHANGED <<phase, failure>>

\* Mutant of EarlyDue: any success of the parser is too early.
EarlyAlways == phase = "supervising" /\ parserHeard = "success"

\* maybe_end_input is due: it runs at the top of the loop, before anything
\* else is heard.  So is the check for a success that came too early.
EndDue   == ~inputClosed /\ ~objectsOpen /\ rawHeard = "success"
EarlyDue == phase = "supervising" /\ parserHeard = "success" /\ ~inputClosed
Looping  == phase \in {"schema", "supervising"} /\ ~EarlyDue
Hearing  == Looping /\ ~EndDue

BesideFeed == UNCHANGED <<rawVars, parserVars, fd1, pumpVars, stdin, garbled, unrepaired, parserHeard, finishDue>>

\* A path goes to the parser, once; one that is gone reports itself.
FeedObject ==
  /\ Hearing /\ objectsOpen /\ events # <<>>
  /\ events' = Tail(events)
  /\ LET f == Head(events) IN
     IF f \in sent THEN UNCHANGED <<sent, queue, lastSent>>
     ELSE /\ sent' = sent \cup {f}
          /\ queue' = Append(queue, [file |-> f, ok |-> TRUE])
          /\ lastSent' = f
  /\ GoOn /\ BesideFeed /\ UNCHANGED <<objectsOpen, rawHeard, overdueSet, inputClosed>>

FeedClosed ==
  /\ Hearing /\ objectsOpen /\ events = <<>> /\ ~rawOpen
  /\ objectsOpen' = FALSE
  /\ GoOn /\ BesideFeed /\ UNCHANGED <<events, sent, rawHeard, overdueSet, queue, lastSent, inputClosed>>

FeedFinished ==
  /\ Hearing /\ rawSaid # "nothing" /\ rawHeard = "nothing"
  /\ rawHeard' = rawSaid
  /\ IF rawSaid = "success"
     THEN overdueSet' = ("finish" \in Limits) /\ GoOn
     ELSE Fail("source") /\ UNCHANGED overdueSet
  /\ BesideFeed /\ UNCHANGED <<events, objectsOpen, sent, queue, lastSent, inputClosed>>

FeedGone ==
  /\ Hearing /\ rawGone /\ rawSaid = "nothing"
  /\ Fail("source")
  /\ BesideFeed /\ UNCHANGED <<events, feedVars, queue, lastSent, inputClosed>>

FeedOverdue ==
  /\ Hearing /\ objectsOpen /\ overdueSet
  /\ Fail("sourceLate")
  /\ BesideFeed /\ UNCHANGED <<events, feedVars, queue, lastSent, inputClosed>>

\* Mutant of EndInput: the end of the announcements is enough.
EndInputAtClose ==
  /\ Looping /\ ~inputClosed /\ ~objectsOpen
  /\ inputClosed' = TRUE
  /\ queue' = Append(queue, End)
  /\ GoOn /\ BesideFeed /\ UNCHANGED <<events, feedVars, lastSent>>

\* Mutant of EndInput: the raw source's report is enough.
EndInputAtReport ==
  /\ Looping /\ ~inputClosed /\ rawHeard = "success"
  /\ inputClosed' = TRUE
  /\ queue' = Append(queue, End)
  /\ GoOn /\ BesideFeed /\ UNCHANGED <<events, feedVars, lastSent>>

EndInput ==
  /\ Looping /\ EndDue
  /\ inputClosed' = TRUE
  /\ queue' = Append(queue, End)
  /\ GoOn /\ BesideFeed /\ UNCHANGED <<events, feedVars, lastSent>>

FeedStep == FeedObject \/ FeedClosed \/ FeedFinished \/ FeedGone \/ FeedOverdue \/ EndInput

----------------------------------------------------------------------------
(* The core: the parser's fd1, its stream, the data phase *)

BesideHearing ==
  UNCHANGED <<rawVars, events, feedVars, stdin, lastSent, inputClosed, garbled, parserVars, pumpVars>>

\* The last message is sent again; a closed stdin takes none.
Replay(file) ==
  /\ IF inputClosed \/ lastSent = 0 THEN UNCHANGED queue
     ELSE queue' = Append(queue, [file |-> lastSent, ok |-> TRUE])
  /\ unrepaired' = IF inputClosed \/ lastSent # file THEN unrepaired \cup {file} ELSE unrepaired

\* The parser's control channel, in await_parser_schema, open_source_stream
\* and the data phase.
HearParser ==
  /\ Hearing \/ phase = "header"
  /\ fd1 # <<>>
  /\ fd1' = Tail(fd1)
  /\ \/ /\ Head(fd1).say = "schema"
        /\ phase' = IF phase = "schema" THEN "header" ELSE phase
        /\ UNCHANGED <<failure, parserHeard, finishDue, queue, unrepaired>>
     \/ /\ Head(fd1).say = "resend"
        /\ Replay(Head(fd1).file)
        /\ GoOn /\ UNCHANGED <<parserHeard, finishDue>>
     \/ /\ Head(fd1).say = "error"
        /\ parserHeard' = "error" /\ Fail("parser")
        /\ UNCHANGED <<finishDue, queue, unrepaired>>
     \/ /\ Head(fd1).say = "success"
        /\ parserHeard' = "success"
        /\ IF phase = "schema" \/ (phase = "supervising" /\ ~inputClosed)
           THEN Fail("parser") /\ UNCHANGED finishDue
           ELSE /\ GoOn
                /\ finishDue' = (finishDue \/ (phase = "supervising" /\ ~pumpHeard /\ "finish" \in Limits))
        /\ UNCHANGED <<queue, unrepaired>>
  /\ BesideHearing

\* fd1 ended without finished.
HearParserGone ==
  /\ Hearing
  /\ parserGone /\ fd1 = <<>> /\ parserHeard = "nothing"
  /\ Fail("parser")
  /\ BesideHearing /\ UNCHANGED <<fd1, queue, unrepaired, parserHeard, finishDue>>

\* A success that came while the header was read or the destination started.
EarlySuccess ==
  /\ EarlyDue
  /\ Fail("parser")
  /\ BesideHearing /\ UNCHANGED <<fd1, queue, unrepaired, parserHeard, finishDue>>

HeaderRead ==
  /\ phase = "header"
  /\ \/ stream \in {"open", "marker"} /\ phase' = "starting" /\ UNCHANGED failure
     \/ stream = "cut" /\ Fail("parser")
  /\ BesideHearing /\ UNCHANGED <<fd1, queue, unrepaired, parserHeard, finishDue>>

\* The destination answers ready, and the pump starts.
DestinationReady ==
  /\ phase = "starting"
  /\ phase' = "supervising" /\ UNCHANGED failure
  /\ BesideHearing /\ UNCHANGED <<fd1, queue, unrepaired, parserHeard, finishDue>>

DestinationFails ==
  /\ "dstFails" \in Faults /\ (phase = "starting" \/ Hearing)
  /\ Fail("destination")
  /\ BesideHearing /\ UNCHANGED <<fd1, queue, unrepaired, parserHeard, finishDue>>

Signal ==
  /\ "signal" \in Faults /\ phase \in {"schema", "header", "starting", "supervising"}
  /\ ~EarlyDue
  /\ Fail("signal")
  /\ BesideHearing /\ UNCHANGED <<fd1, queue, unrepaired, parserHeard, finishDue>>

\* Mutant of Deadlines: silence on the data plane has no limit.
DeadlinesUnstalled ==
  /\ \/ phase \in {"schema", "header", "starting"} /\ "start" \in Limits /\ Fail("parserLate")
     \/ phase = "supervising" /\ Hearing /\ finishDue /\ Fail("parserLate")
  /\ BesideHearing /\ UNCHANGED <<fd1, queue, unrepaired, parserHeard, finishDue>>

\* The limits on the schema and the header, on silence, on finished.
Deadlines ==
  /\ \/ phase \in {"schema", "header", "starting"} /\ "start" \in Limits /\ Fail("parserLate")
     \/ phase = "supervising" /\ Hearing /\ "stall" \in Limits /\ ~pumpHeard /\ Fail("stalled")
     \/ phase = "supervising" /\ Hearing /\ finishDue /\ Fail("parserLate")
  /\ BesideHearing /\ UNCHANGED <<fd1, queue, unrepaired, parserHeard, finishDue>>

\* The pump reads the parser's stream from the data phase on.  (What it drains
\* of an aborted run goes nowhere.)
Pump ==
  /\ phase = "supervising"
  /\ pumped < Len(written)
  /\ pumped' = pumped + 1
  /\ UNCHANGED <<rawVars, events, feedVars, inputVars, parserVars, fd1, pumpHeard, coreVars>>

HearPump ==
  /\ phase = "supervising" /\ Hearing
  /\ ~pumpHeard /\ pumped = Len(written) /\ stream \in {"marker", "cut"}
  /\ pumpHeard' = TRUE
  /\ IF stream = "cut" THEN Fail("parser") ELSE GoOn
  /\ finishDue' = (finishDue \/ (stream = "marker" /\ parserHeard = "nothing" /\ "finish" \in Limits))
  /\ UNCHANGED <<rawVars, events, feedVars, inputVars, parserVars, fd1, pumped, parserHeard>>

\* The commit point needs the parser's success, after the end of its input,
\* and the raw source's.
Commit ==
  /\ phase = "supervising" /\ Hearing
  /\ inputClosed /\ rawHeard = "success"
  /\ parserHeard = "success" /\ pumpHeard /\ stream = "marker"
  /\ phase' = "reaping" /\ UNCHANGED failure
  /\ BesideHearing /\ UNCHANGED <<fd1, queue, unrepaired, parserHeard, finishDue>>

Collect ==
  /\ phase \in {"aborting", "reaping"} /\ rawGone /\ parserGone
  /\ phase' = "over" /\ UNCHANGED failure
  /\ BesideHearing /\ UNCHANGED <<fd1, queue, unrepaired, parserHeard, finishDue>>

CoreStep ==
  \/ HearParser \/ HearParserGone \/ EarlySuccess \/ HeaderRead \/ DestinationReady
  \/ HearPump \/ Commit \/ Collect

Over == phase = "over" /\ UNCHANGED vars

Next ==
  \/ RawStep \/ WriterWrites \/ WriterBreaks \/ ParserStep \/ FeedStep \/ CoreStep \/ Pump
  \/ Deadlines \/ DestinationFails \/ Signal \/ Over

Spec == Init /\ [][Next]_vars

\* Everything that is neither hung nor gone gets on with its work: the
\* plugins' processes, the writer task, the pump and each branch of the
\* runner's loop.  A deadline that stays set passes.  Nothing has to fail.
Fairness ==
  /\ WF_vars(RawAnnounces) /\ WF_vars(RawCloses) /\ WF_vars(RawFinishes) /\ WF_vars(RawExits)
  /\ WF_vars(RawStopped) /\ WF_vars(ParserStopped)
  /\ WF_vars(WriterWrites) /\ WF_vars(WriterBreaks) /\ WF_vars(Pump)
  /\ WF_vars(ParserWork) /\ WF_vars(ParserEnds)
  /\ WF_vars(FeedObject) /\ WF_vars(FeedClosed) /\ WF_vars(FeedFinished) /\ WF_vars(FeedGone)
  /\ WF_vars(FeedOverdue) /\ WF_vars(EndInput)
  /\ WF_vars(HearParser) /\ WF_vars(HearParserGone) /\ WF_vars(EarlySuccess) /\ WF_vars(HeaderRead)
  /\ WF_vars(DestinationReady) /\ WF_vars(HearPump) /\ WF_vars(Commit) /\ WF_vars(Deadlines)
  /\ WF_vars(Collect)

FairSpec == Spec /\ Fairness

----------------------------------------------------------------------------
(* Properties *)

\* No file is in the stream twice, whatever the raw source announces and
\* however often a line is repeated.
NothingTwice == IsInjective(written)

\* The load is committed only when the raw source succeeded, and then it lacks
\* no announced file but one whose own line was garbled and not repeated: the
\* repetition is of the last line sent, and there is none once the input is
\* closed.  A garbled line costs no other file.  (A parser that stops by
\* itself may leave out what it likes.)
CommitsEveryFile ==
  phase = "reaping" =>
    /\ rawSaid = "success"
    /\ ToSet(written) \subseteq ToSet(announced)
    /\ quit \/ ToSet(announced) \ unrepaired \subseteq ToSet(written)

\* What the protocol's rules promise of a garbled line: it is repaired, or
\* the run fails.
NoFileLost == phase = "reaping" => ToSet(written) = ToSet(announced) \/ quit

\* The failure is laid on the plugin that failed: neither an honest parser
\* that finished is taken for one that ended early, nor is one plugin's
\* breakdown laid on the other.
BlamesTheGuilty ==
  /\ failure = "parser" =>
       \/ quit \/ stream = "cut"
       \/ parserGone /\ parser # "done"
       \/ parser = "done" /\ stream # "marker"
  /\ failure = "source" => rawSaid = "error" \/ (rawGone /\ rawSaid = "nothing")

\* After an upstream failure the parser never sees the end of its input.
NoEndAfterFailure ==
  (rawSaid # "success" /\ (rawSaid = "error" \/ rawGone)) => ~eof

\* With every limit set the stage ends, whatever hangs.
StageEnds == <>(phase = "over")
============================================================================
