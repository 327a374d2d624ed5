------------------------ MODULE ControlChannelProofs ------------------------
(***************************************************************************)
(* Core and plugin stay in step for any number of garbled lines, any       *)
(* limits and any faults: an answer that arrives was once given, whether   *)
(* it is the first copy of it or a repetition.  And while one line only is *)
(* garbled, the repetition of it is all that the sides need.               *)
(***************************************************************************)
EXTENDS ControlChannel, TLAPS

\* The plugin carries out configure and start once each, in this order, and
\* goes on only behind them.
CarriedOut ==
  /\ expects < 5 => configured = 0 /\ ~busy
  /\ expects < 6 => started = 0
  /\ expects = 5 => configured <= 1
  /\ expects = 5 /\ busy => configured = 0
  /\ expects = 5 /\ ~busy /\ stopped = "no" => configured = 1
  /\ expects = 6 => configured = 1 /\ started <= 1
  /\ expects = 6 /\ busy => started = 0

\* What an answer says has been done.
Truthful(line) ==
  /\ line = "configure_ack" => configured = 1
  /\ line = "ready" => started = 1

\* So says every answer on its way, and the one that would be repeated.
AnswersTrue ==
  /\ \A i \in 1..Len(toCore) : Truthful(toCore[i])
  /\ Truthful(lastSaid)

\* The core is behind the plugin.
CoreBehind ==
  /\ step > 3 => configured = 1
  /\ step > 4 => started = 1

\* A plugin that goes on has ended nothing; one that is done succeeded.
EndsOnce ==
  /\ stopped = "no" => undone = 0 /\ said = "nothing"
  /\ stopped = "done" => undone = 0 /\ said \in {"success"}
  /\ said = "success" => stopped = "done"

ChannelInv == TypeOK /\ CarriedOut /\ AnswersTrue /\ CoreBehind /\ EndsOnce /\ UndoneBeforeSaid

----------------------------------------------------------------------------
(* The conversation *)

\* The plugin's script, message by message.
LEMMA ScriptSteps ==
  /\ Len(Script) = 5 /\ Working = 6
  /\ Script[1] = "handshake" /\ Script[2] = "set_protocol_version" /\ Script[3] = "capabilities_request"
  /\ Script[4] = "configure" /\ Script[5] = "start"
  BY DEF Script, Working

\* The core's steps: five answers, of which the last has no request.
LEMMA AnswerSteps ==
  /\ Len(Answers) = 5 /\ Len(Requests) = 4
  /\ Answers[1] = "handshake_ack" /\ Answers[2] = "capabilities_response"
  /\ Answers[3] = "configure_ack" /\ Answers[4] = "ready"
  BY DEF Answers, Requests

\* What the core asks are messages of the script.
LEMMA RequestLines ==
  ASSUME NEW s \in 1..Len(Requests)
  PROVE  Requests[s] \in Seq(ToPlugin) /\ Len(Requests[s]) \in 1..2 /\ Requests[s][Len(Requests[s])] \in ToPlugin
<1>1. \A i \in 1..5 : Script[i] \in ToPlugin
  BY ScriptSteps DEF ToPlugin
<1>2. {"handshake", "set_protocol_version", "capabilities_request", "configure", "start"} \subseteq ToPlugin
  BY <1>1, ScriptSteps
<1>3. s \in 1..4
  BY AnswerSteps
<1>4. CASE s = 1
  BY <1>2, <1>4 DEF Requests
<1>5. CASE s = 2
  BY <1>2, <1>5 DEF Requests
<1>6. CASE s = 3
  BY <1>2, <1>6 DEF Requests
<1>7. CASE s = 4
  BY <1>2, <1>7 DEF Requests
<1> QED
  BY <1>3, <1>4, <1>5, <1>6, <1>7

\* The lines of either direction, apart from the script's.
LEMMA OtherLines ==
  /\ {"resend", "cancel", "error"} \subseteq ToPlugin
  /\ Finishes \subseteq ToCore
  BY DEF ToPlugin, ToCore, Finishes

\* What is behind the head of a pipe was in it.
LEMMA TailOfPipe ==
  ASSUME NEW S, NEW q \in Seq(S), q # <<>>
  PROVE  /\ Tail(q) \in Seq(S) /\ Head(q) \in S /\ Head(q) = q[1] /\ 1 \in 1..Len(q)
         /\ \A i \in 1..Len(Tail(q)) : Tail(q)[i] = q[i + 1] /\ i + 1 \in 1..Len(q)
  OBVIOUS

\* A pipe takes a line more.
LEMMA AppendLine ==
  ASSUME NEW S, NEW q \in Seq(S), NEW x \in S
  PROVE  /\ Append(q, x) \in Seq(S) /\ Len(Append(q, x)) = Len(q) + 1
         /\ \A i \in 1..Len(Append(q, x)) : (i \in 1..Len(q) /\ Append(q, x)[i] = q[i]) \/ Append(q, x)[i] = x
  OBVIOUS

\* A line that arrives, whole or garbled, is a line; the garbled are counted.
LEMMA ArrivesType ==
  ASSUME TypeOK, NEW line \in ToPlugin \cup ToCore, NEW got, Arrives(line, got)
  PROVE  /\ got = line \/ got = "garbled"
         /\ garbledLines' \in Seq(ToPlugin \cup ToCore) /\ Len(garbledLines') <= Garbles
<1> DEFINE S == ToPlugin \cup ToCore
<1>1. garbledLines \in Seq(S) /\ Len(garbledLines) \in Nat /\ Len(garbledLines) <= Garbles /\ line \in S
  BY DEF TypeOK
<1> HIDE DEF S
<1>2. CASE got = line /\ UNCHANGED garbledLines
  BY <1>1, <1>2 DEF S
<1>3. CASE got = "garbled" /\ Len(garbledLines) < Garbles /\ garbledLines' = Append(garbledLines, line)
  BY <1>1, <1>3, AppendLine, ChannelAssumption DEF S
<1> QED
  BY <1>2, <1>3 DEF Arrives

----------------------------------------------------------------------------
(* The invariant *)

\* Nothing was said or done yet.
LEMMA ChannelInvInit == Init => ChannelInv
<1> SUFFICES ASSUME Init PROVE ChannelInv
  OBVIOUS
<1>1. TypeOK
  <2>1. toPlugin \in Seq(ToPlugin) /\ toCore \in Seq(ToCore)
    BY DEF Init
  <2>2. garbledLines \in Seq(ToPlugin \cup ToCore) /\ Len(garbledLines) = 0
    BY DEF Init
  <2>3. step \in 1..Len(Answers) /\ expects \in 1..Working
    BY ScriptSteps, AnswerSteps DEF Init
  <2>4. Len(garbledLines) <= Garbles
    BY <2>2, ChannelAssumption
  <2>5. asked \in BOOLEAN /\ busy \in BOOLEAN /\ gone \in BOOLEAN /\ hung \in BOOLEAN
    BY Zenon DEF Init
  <2> QED
    BY <2>1, <2>2, <2>3, <2>4, <2>5 DEF Init, TypeOK, Said
<1>2. CarriedOut /\ CoreBehind /\ EndsOnce /\ UndoneBeforeSaid
  BY DEF Init, CarriedOut, CoreBehind, EndsOnce, UndoneBeforeSaid
<1>3. AnswersTrue
  BY DEF Init, AnswersTrue, Truthful
<1> QED
  BY <1>1, <1>2, <1>3 DEF ChannelInv

\* A line to the plugin, remembered or not, is a line.
LEMMA TellType ==
  ASSUME TypeOK, NEW line \in ToPlugin, NEW known, Tell(line, known)
  PROVE  toPlugin' \in Seq(ToPlugin) /\ lastSent' \in {"nothing"} \cup ToPlugin
<1>1. toPlugin \in Seq(ToPlugin) /\ lastSent \in {"nothing"} \cup ToPlugin
  BY DEF TypeOK
<1> QED
  BY <1>1, AppendLine DEF Tell

\* So are a repetition and the request for one.
LEMMA RepeatType ==
  ASSUME TypeOK, AskAgain \/ SendAgain
  PROVE  toPlugin' \in Seq(ToPlugin) /\ lastSent' \in {"nothing"} \cup ToPlugin
<1>1. toPlugin \in Seq(ToPlugin) /\ lastSent \in {"nothing"} \cup ToPlugin
  BY DEF TypeOK
<1> QED
  BY <1>1, AppendLine, OtherLines DEF AskAgain, SendAgain

\* What the core makes of a line keeps the types; it goes a step on only with
\* the answer of the step it is at.
LEMMA CoreTakesType ==
  ASSUME TypeOK, NEW got \in ToCore \cup {"garbled"}, CoreTakes(got)
  PROVE  /\ toPlugin' \in Seq(ToPlugin) /\ lastSent' \in {"nothing"} \cup ToPlugin
         /\ coreStreak' \in 0..1 /\ heard' \in Said /\ asked' \in BOOLEAN
         /\ phase' \in {"talking", "aborting"} \cup {phase}
         /\ failure' \in {"protocol", "failed", "incompatible", "rejected"} \cup {failure}
         /\ step' = step \/ (step \in 1..4 /\ step' = step + 1 /\ got = Answers[step])
<1>1. CASE got = "garbled" /\ coreStreak = 0
  BY <1>1, RepeatType DEF CoreTakes, TypeOK, Finishes
<1>2. CASE got = "garbled" /\ coreStreak # 0
  BY <1>2, TellType, OtherLines DEF CoreTakes, TypeOK, FailWith, Finishes
<1>3. CASE got = "resend"
  BY <1>3, RepeatType DEF CoreTakes, TypeOK, Finishes
<1>4. CASE got \in Finishes
  <2>1. got \in Said /\ got \notin {"garbled", "resend"}
    BY <1>4 DEF Finishes, Said
  <2> QED
    BY <1>4, <2>1, TellType, OtherLines DEF CoreTakes, TypeOK, FailWith
<1>5. CASE got \notin Finishes \cup {"garbled", "resend"}
  <2>1. coreStreak' = 0 /\ UNCHANGED heard
    BY <1>5 DEF CoreTakes
  <2>2. CASE step < Len(Answers) /\ got = Answers[step] /\ NextStep
    <3>1. step \in 1..4 /\ step' = step + 1 /\ asked' = FALSE
      BY <2>2, AnswerSteps DEF NextStep, TypeOK
    <3>2. UNCHANGED <<toPlugin, lastSent, phase, failure>>
      BY <2>2 DEF NextStep
    <3>3. toPlugin \in Seq(ToPlugin) /\ lastSent \in {"nothing"} \cup ToPlugin /\ heard \in Said
      BY DEF TypeOK
    <3>4. toPlugin' \in Seq(ToPlugin) /\ lastSent' \in {"nothing"} \cup ToPlugin /\ heard' \in Said
      BY <2>1, <3>2, <3>3
    <3>5. coreStreak' \in 0..1
      BY <2>1
    <3>6. asked' \in BOOLEAN
      BY <3>1, Zenon
    <3> QED
      BY <2>2, <3>1, <3>2, <3>4, <3>5, <3>6
  <2>3. CASE \E cause \in {"incompatible", "rejected", "protocol"}, line \in {"error", "cancel"} :
               FailWith(cause, line, heard) /\ UNCHANGED <<step, asked>>
    BY <2>1, <2>3, TellType, OtherLines DEF FailWith, TypeOK
  <2>4. CASE UNCHANGED <<step, asked, toPlugin, lastSent, phase, failure>>
    BY <2>1, <2>4 DEF TypeOK
  <2> QED
    BY <1>5, <2>2, <2>3, <2>4 DEF CoreTakes
<1> QED
  BY <1>1, <1>2, <1>3, <1>4, <1>5

\* The core's steps keep the types.
LEMMA CoreTypes == TypeOK /\ CoreStep => TypeOK'
<1> SUFFICES ASSUME TypeOK, CoreStep PROVE TypeOK'
  OBVIOUS
<1> DEFINE Lines == ToPlugin \cup ToCore
<1>1. CASE Ask
  <2>1. /\ toPlugin' \in Seq(ToPlugin) /\ lastSent' \in {"nothing"} \cup ToPlugin
        /\ phase' \in {phase, "aborting"} /\ failure' \in {failure, "process"}
    <3>1. toPlugin \in Seq(ToPlugin) /\ lastSent \in {"nothing"} \cup ToPlugin
      BY DEF TypeOK
    <3>2. CASE gone
      BY <1>1, <3>1, <3>2 DEF Ask
    <3>3. CASE ~gone
      <4>1. step \in 1..Len(Requests)
        BY <1>1 DEF Ask
      <4> DEFINE asks == Requests[step]
      <4>2. asks \in Seq(ToPlugin) /\ asks[Len(asks)] \in ToPlugin
        BY <4>1, RequestLines
      <4>3. toPlugin' = toPlugin \o asks /\ lastSent' = asks[Len(asks)] /\ UNCHANGED <<phase, failure>>
        BY <1>1, <3>3 DEF Ask
      <4> HIDE DEF asks
      <4>4. toPlugin \o asks \in Seq(ToPlugin)
        BY <3>1, <4>2
      <4> QED
        BY <4>2, <4>3, <4>4
    <3> QED
      BY <3>2, <3>3
  <2>2. asked' \in BOOLEAN
    BY <1>1, Zenon DEF Ask, TypeOK
  <2>3. UNCHANGED <<toCore, garbledLines, step, coreStreak, heard, pluginVars>>
    BY <1>1 DEF Ask
  <2> QED
    BY <2>1, <2>2, <2>3 DEF TypeOK, pluginVars
<1>2. CASE CoreHears
  <2>1. PICK got \in ToCore \cup {"garbled"} : Arrives(Head(toCore), got) /\ CoreTakes(got)
    BY <1>2 DEF CoreHears
  <2>2. toCore' \in Seq(ToCore) /\ Head(toCore) \in Lines
    BY <1>2, TailOfPipe DEF CoreHears, TypeOK
  <2>3. garbledLines' \in Seq(Lines) /\ Len(garbledLines') <= Garbles
    BY <2>1, <2>2, ArrivesType
  <2>4. UNCHANGED pluginVars
    BY <1>2 DEF CoreHears
  <2>5. step' \in 1..Len(Answers)
    BY <2>1, CoreTakesType, AnswerSteps DEF TypeOK
  <2> QED
    BY <2>1, <2>2, <2>3, <2>4, <2>5, CoreTakesType DEF TypeOK, pluginVars
<1>3. CASE CoreSeesEnd \/ WindDownSeesEnd \/ Reap
  BY <1>3 DEF CoreSeesEnd, WindDownSeesEnd, Reap, TypeOK, pipeVars, pluginVars
<1>4. CASE CoreTimesOut \/ AbortElsewhere
  <2>1. toPlugin' \in Seq(ToPlugin) /\ lastSent' \in {"nothing"} \cup ToPlugin
    BY <1>4, TellType, OtherLines DEF CoreTimesOut, AbortElsewhere, FailWith
  <2> QED
    BY <1>4, <2>1 DEF CoreTimesOut, AbortElsewhere, FailWith, TypeOK, pluginVars
<1>5. CASE WindDown
  <2>1. PICK got \in ToCore \cup {"garbled"} :
          /\ Arrives(Head(toCore), got)
          /\ \/ got = "resend" /\ SendAgain /\ coreStreak' = 0 /\ UNCHANGED <<heard, phase>>
             \/ got = "garbled" /\ coreStreak = 0 /\ AskAgain /\ coreStreak' = 1 /\ UNCHANGED <<heard, phase>>
             \/ /\ got = "garbled" /\ coreStreak = 1
                /\ phase' = "waiting" /\ UNCHANGED <<toPlugin, lastSent, coreStreak, heard>>
             \/ /\ got \notin {"resend", "garbled"}
                /\ heard' = IF got \in Finishes THEN got ELSE heard
                /\ coreStreak' = 0 /\ UNCHANGED <<toPlugin, lastSent, phase>>
    BY <1>5 DEF WindDown
  <2>2. toCore' \in Seq(ToCore) /\ Head(toCore) \in Lines
    BY <1>5, TailOfPipe DEF WindDown, TypeOK
  <2>3. garbledLines' \in Seq(Lines) /\ Len(garbledLines') <= Garbles
    BY <2>1, <2>2, ArrivesType
  <2>4. toPlugin' \in Seq(ToPlugin) /\ lastSent' \in {"nothing"} \cup ToPlugin
    BY <2>1, RepeatType DEF TypeOK
  <2>5. heard' \in Said /\ coreStreak' \in 0..1 /\ phase' \in {phase, "waiting"}
    BY <2>1 DEF TypeOK, Finishes, Said
  <2> QED
    BY <1>5, <2>2, <2>3, <2>4, <2>5 DEF WindDown, TypeOK, pluginVars
<1>6. CASE Kill
  <2>1. gone' \in BOOLEAN
    BY <1>6, Zenon DEF Kill
  <2> QED
    BY <1>6, <2>1 DEF Kill, TypeOK, pipeVars
<1> QED
  BY <1>1, <1>2, <1>3, <1>4, <1>5, <1>6 DEF CoreStep

\* The core does nothing to the plugin's state but end it, takes lines from
\* the front of the pipe, and goes a step on only with the answer of its step.
LEMMA CoreEffect ==
  ASSUME TypeOK, CoreStep
  PROVE  /\ UNCHANGED <<expects, busy, configured, started, undone, said, lastSaid, stopped>>
         /\ toCore' = toCore \/ (toCore # <<>> /\ toCore' = Tail(toCore))
         /\ \/ step' = step
            \/ toCore # <<>> /\ step \in 1..4 /\ step' = step + 1 /\ Head(toCore) = Answers[step]
<1>1. CASE CoreHears
  <2>1. PICK got \in ToCore \cup {"garbled"} : Arrives(Head(toCore), got) /\ CoreTakes(got)
    BY <1>1 DEF CoreHears
  <2>2. got = Head(toCore) \/ got = "garbled"
    BY <2>1 DEF Arrives
  <2>3. "garbled" \notin {Answers[s] : s \in 1..4}
    BY AnswerSteps
  <2>4. step' = step \/ (step \in 1..4 /\ step' = step + 1 /\ got = Answers[step])
    BY <2>1, CoreTakesType
  <2> QED
    BY <1>1, <2>2, <2>3, <2>4 DEF CoreHears, pluginVars
<1>2. CASE Ask \/ CoreSeesEnd \/ CoreTimesOut \/ AbortElsewhere \/ WindDownSeesEnd \/ Reap
  BY <1>2 DEF Ask, CoreSeesEnd, CoreTimesOut, AbortElsewhere, WindDownSeesEnd, Reap, pipeVars, pluginVars
<1>3. CASE WindDown \/ Kill
  BY <1>3 DEF WindDown, Kill, pipeVars, pluginVars
<1> QED
  BY <1>1, <1>2, <1>3 DEF CoreStep

\* The core's steps keep the invariant: the answer it goes on with was true.
LEMMA ChannelInvCore == ChannelInv /\ CoreStep => ChannelInv'
<1> SUFFICES ASSUME ChannelInv, CoreStep PROVE ChannelInv'
  OBVIOUS
<1>1. TypeOK /\ CarriedOut /\ AnswersTrue /\ CoreBehind /\ EndsOnce /\ UndoneBeforeSaid
  BY DEF ChannelInv
<1>2. TypeOK'
  BY <1>1, CoreTypes
<1>3. CarriedOut' /\ EndsOnce' /\ UndoneBeforeSaid'
  BY <1>1, CoreEffect DEF CarriedOut, EndsOnce, UndoneBeforeSaid
<1>4. AnswersTrue'
  <2>1. \A line : Truthful(line) <=> Truthful(line)'
    BY <1>1, CoreEffect DEF Truthful
  <2>2. \A i \in 1..Len(toCore') : Truthful(toCore'[i])
    <3>1. CASE toCore' = toCore
      BY <1>1, <3>1 DEF AnswersTrue
    <3>2. CASE toCore # <<>> /\ toCore' = Tail(toCore)
      <4>1. \A i \in 1..Len(toCore') : toCore'[i] = toCore[i + 1] /\ i + 1 \in 1..Len(toCore)
        BY <1>1, <3>2, TailOfPipe DEF TypeOK
      <4> QED
        BY <1>1, <4>1 DEF AnswersTrue
    <3> QED
      BY <1>1, <3>1, <3>2, CoreEffect
  <2> QED
    BY <1>1, <2>2, CoreEffect DEF AnswersTrue, Truthful
<1>5. CoreBehind'
  <2>1. CASE step' = step
    BY <1>1, <2>1, CoreEffect DEF CoreBehind
  <2>2. CASE toCore # <<>> /\ step \in 1..4 /\ step' = step + 1 /\ Head(toCore) = Answers[step]
    <3>1. Truthful(Head(toCore))
      BY <1>1, <2>2, TailOfPipe DEF AnswersTrue, TypeOK
    <3> QED
      BY <1>1, <2>2, <3>1, CoreEffect, AnswerSteps DEF CoreBehind, Truthful
  <2> QED
    BY <1>1, <2>1, <2>2, CoreEffect
<1> QED
  BY <1>2, <1>3, <1>4, <1>5 DEF ChannelInv

\* What the plugin says is the last in its pipe.
LEMMA SayLine ==
  ASSUME TypeOK, NEW line \in ToCore, toCore' = Append(toCore, line)
  PROVE  /\ toCore' \in Seq(ToCore)
         /\ \A i \in 1..Len(toCore') : (i \in 1..Len(toCore) /\ toCore'[i] = toCore[i]) \/ toCore'[i] = line
<1>1. toCore \in Seq(ToCore)
  BY DEF TypeOK
<1> QED
  BY <1>1, AppendLine

\* An answer more on its way, when what it says is done.
LEMMA SaysTruth ==
  ASSUME TypeOK, AnswersTrue, NEW line \in ToCore, Truthful(line)',
         toCore' = Append(toCore, line), lastSaid' \in {lastSaid, line},
         configured = 1 => configured' = 1, started = 1 => started' = 1
  PROVE  AnswersTrue'
<1>1. \A l : Truthful(l) => Truthful(l)'
  BY DEF Truthful
<1>2. (\A i \in 1..Len(toCore) : Truthful(toCore[i]))'
  <2> SUFFICES ASSUME NEW i \in 1..Len(toCore') PROVE Truthful(toCore[i])'
    OBVIOUS
  <2>1. CASE i \in 1..Len(toCore) /\ toCore'[i] = toCore[i]
    BY <2>1 DEF AnswersTrue, Truthful
  <2>2. CASE toCore'[i] = line
    BY <2>2 DEF Truthful
  <2> QED
    BY <2>1, <2>2, SayLine
<1> QED
  BY <1>1, <1>2 DEF AnswersTrue, Truthful

\* Nothing is said.
LEMMA QuietTruth ==
  ASSUME AnswersTrue, Quiet, configured = 1 => configured' = 1, started = 1 => started' = 1
  PROVE  AnswersTrue'
  BY DEF AnswersTrue, Truthful, Quiet

\* What the plugin makes of a line: it goes a step on, ends, or neither; what
\* it says then is no answer of a step that is still to be carried out.
LEMMA PluginTakesEffect ==
  ASSUME TypeOK, ~busy, stopped = "no", NEW got \in ToPlugin \cup {"garbled"}, PluginTakes(got)
  PROVE  /\ pluginStreak' \in 0..1
         /\ \/ UNCHANGED <<expects, busy>> /\ stopped' \in {"no", "violation", "cancel", "core"}
            \/ /\ expects \in 1..5 /\ expects' = expects + 1
               /\ busy' \in BOOLEAN /\ (busy' <=> expects \in {4, 5}) /\ stopped' = stopped
         /\ \/ Quiet
            \/ \E line \in {"resend", "handshake_ack", "other_kind", "capabilities_response"} :
                 toCore' = Append(toCore, line) /\ lastSaid' \in {lastSaid, line}
            \/ lastSaid # "nothing" /\ toCore' = Append(toCore, lastSaid) /\ lastSaid' = lastSaid
<1>1. CASE got = "garbled"
  BY <1>1 DEF PluginTakes, Stop, Quiet, TypeOK
<1>2. CASE got = "resend"
  BY <1>2 DEF PluginTakes, Quiet, TypeOK
<1>3. CASE got \notin {"garbled", "resend"}
  <2>1. pluginStreak' \in 0..1
    BY <1>3 DEF PluginTakes
  <2>2. CASE expects < Working /\ CarryOut(expects)
    <3>1. expects \in 1..5
      BY <2>2, ScriptSteps DEF TypeOK
    <3>2. expects' = expects + 1 /\ stopped' = stopped
      BY <2>2 DEF CarryOut
    <3>3. busy' \in BOOLEAN /\ (busy' <=> expects \in {4, 5})
      <4>1. busy' = (Script[expects] \in {"configure", "start"})
        BY <2>2 DEF CarryOut
      <4>2. busy' \in BOOLEAN
        BY <4>1
      <4>3. busy' <=> Script[expects] \in {"configure", "start"}
        BY <4>1
      <4>4. Script[expects] \in {"configure", "start"} <=> expects \in {4, 5}
        BY <3>1, ScriptSteps
      <4> QED
        BY <4>2, <4>3, <4>4
    <3>4. \/ Quiet
          \/ \E line \in {"handshake_ack", "other_kind", "capabilities_response"} : Say(line)
      BY <2>2, Zenon DEF CarryOut
    <3> QED
      BY <2>1, <3>1, <3>2, <3>3, <3>4 DEF Say
  <2>3. CASE UNCHANGED <<expects, busy>> /\ stopped' \in {"no", "violation", "cancel", "core"} /\ Quiet
    BY <2>1, <2>3
  <2>4. \/ expects < Working /\ CarryOut(expects)
        \/ UNCHANGED <<expects, busy>> /\ stopped' \in {"no", "violation", "cancel", "core"} /\ Quiet
    BY <1>3 DEF PluginTakes, Stop
  <2> QED
    BY <2>2, <2>3, <2>4
<1> QED
  BY <1>1, <1>2, <1>3
\* The plugin's steps keep the types.
LEMMA PluginTypes == ChannelInv /\ PluginStep => TypeOK'
<1> SUFFICES ASSUME ChannelInv, PluginStep PROVE TypeOK'
  OBVIOUS
<1>0. TypeOK /\ CarriedOut
  BY DEF ChannelInv
<1> DEFINE Lines == ToPlugin \cup ToCore
<1>h. CASE PluginHears
  <2>1. PICK got \in ToPlugin \cup {"garbled"} : Arrives(Head(toPlugin), got) /\ PluginTakes(got)
    BY <1>h DEF PluginHears
  <2>2. toPlugin' \in Seq(ToPlugin) /\ Head(toPlugin) \in Lines
    BY <1>0, <1>h, TailOfPipe DEF PluginHears, TypeOK
  <2>3. garbledLines' \in Seq(Lines) /\ Len(garbledLines') <= Garbles
    BY <1>0, <2>1, <2>2, ArrivesType
  <2>4. ~busy /\ stopped = "no"
    BY <1>h DEF PluginHears
  <2>5. toCore' \in Seq(ToCore) /\ lastSaid' \in {"nothing"} \cup ToCore
    <3>1. {"resend", "handshake_ack", "other_kind", "capabilities_response"} \subseteq ToCore
      BY DEF ToCore
    <3>2. CASE Quiet
      BY <1>0, <3>2 DEF Quiet, TypeOK
    <3>3. CASE \E line \in ToCore : toCore' = Append(toCore, line) /\ lastSaid' \in {lastSaid, line}
      BY <1>0, <3>3, SayLine DEF TypeOK
    <3> QED
      BY <1>0, <2>1, <2>4, <3>1, <3>2, <3>3, PluginTakesEffect DEF TypeOK
  <2>6. expects' \in 1..Working /\ pluginStreak' \in 0..1
    BY <1>0, <2>1, <2>4, PluginTakesEffect, ScriptSteps DEF TypeOK
  <2>7. busy' \in BOOLEAN
    BY <1>0, <2>1, <2>4, PluginTakesEffect DEF TypeOK
  <2>8. stopped' \in {"no", "done", "cancel", "core", "fatal", "violation"}
    BY <1>0, <2>1, <2>4, PluginTakesEffect
  <2> QED
    BY <1>0, <1>h, <2>2, <2>3, <2>5, <2>6, <2>7, <2>8 DEF PluginHears, TypeOK, coreVars
<1>1. {"configure_ack", "configure_error", "ready", "success", "error", "cancelled"} \subseteq ToCore
  BY DEF ToCore
<1>c. CASE Configures
  <2>1. expects = 5 /\ busy /\ configured = 0
    BY <1>0, <1>c, ScriptSteps DEF Configures, CarriedOut, TypeOK
  <2>2. toCore' \in Seq(ToCore) /\ lastSaid' \in {"nothing"} \cup ToCore
    BY <1>0, <1>1, <1>c, SayLine DEF Configures, Say
  <2>3. busy' \in BOOLEAN
    BY <1>c, Zenon DEF Configures
  <2>4. configured' \in 0..2 /\ stopped' \in {stopped, "fatal"}
    BY <1>c, <2>1 DEF Configures, Stop
  <2> QED
    BY <1>0, <1>c, <2>2, <2>3, <2>4 DEF Configures, TypeOK, coreVars
<1>s. CASE Starts
  <2>1. expects = 6 /\ busy /\ started = 0
    BY <1>0, <1>s, ScriptSteps DEF Starts, CarriedOut, TypeOK
  <2>2. toCore' \in Seq(ToCore) /\ lastSaid' \in {"nothing"} \cup ToCore
    BY <1>0, <1>1, <1>s, SayLine DEF Starts, Say, Quiet, TypeOK
  <2>3. busy' \in BOOLEAN
    BY <1>s, Zenon DEF Starts
  <2>4. started' \in 0..2 /\ stopped' \in {stopped, "fatal"}
    BY <1>s, <2>1 DEF Starts, Stop
  <2> QED
    BY <1>0, <1>s, <2>2, <2>3, <2>4 DEF Starts, TypeOK, coreVars
<1>w. CASE WorkEnds
  <2>1. toCore' \in Seq(ToCore) /\ lastSaid' \in {"nothing"} \cup ToCore
    BY <1>0, <1>1, <1>w, SayLine DEF WorkEnds, Say, Quiet, TypeOK
  <2>2. said' \in {said, "success"} /\ stopped' \in {"done", "fatal"}
    BY <1>w DEF WorkEnds, Stop
  <2> QED
    BY <1>0, <1>w, <2>1, <2>2 DEF WorkEnds, TypeOK, Said, coreVars
<1>e. CASE Concludes
  <2>1. toCore' \in Seq(ToCore) /\ lastSaid' \in {"nothing"} \cup ToCore
    BY <1>0, <1>1, <1>e, SayLine DEF Concludes, Say, Quiet, TypeOK
  <2>2. said' \in {said, "error", "cancelled"} /\ undone' \in {undone, 1}
    BY <1>e DEF Concludes
  <2>3. gone' \in BOOLEAN
    BY <1>0, <1>e, Zenon DEF Concludes, TypeOK
  <2> QED
    BY <1>0, <1>e, <2>1, <2>2, <2>3 DEF Concludes, TypeOK, Said, coreVars
<1>b. CASE Crashes \/ Hangs
  <2>1. gone' \in BOOLEAN /\ hung' \in BOOLEAN
    BY <1>0, <1>b, Zenon DEF Crashes, Hangs, TypeOK
  <2> QED
    BY <1>0, <1>b, <2>1 DEF Crashes, Hangs, TypeOK, pipeVars, coreVars
<1> QED
  BY <1>h, <1>c, <1>s, <1>w, <1>e, <1>b DEF PluginStep

\* What the plugin hears moves it on in its script, and ends it at most.
LEMMA ChannelInvHears == ChannelInv /\ PluginHears => (CarriedOut /\ AnswersTrue /\ CoreBehind /\ EndsOnce /\ UndoneBeforeSaid)'
<1> SUFFICES ASSUME ChannelInv, PluginHears
             PROVE  (CarriedOut /\ AnswersTrue /\ CoreBehind /\ EndsOnce /\ UndoneBeforeSaid)'
  OBVIOUS
<1>1. TypeOK /\ CarriedOut /\ AnswersTrue /\ CoreBehind /\ EndsOnce /\ UndoneBeforeSaid
  BY DEF ChannelInv
<1>2. PICK got \in ToPlugin \cup {"garbled"} : PluginTakes(got)
  BY DEF PluginHears
<1>3. ~busy /\ stopped = "no" /\ UNCHANGED <<configured, started, undone, said, step>>
  BY DEF PluginHears, coreVars
<1>4. CarriedOut'
  <2>1. CASE UNCHANGED <<expects, busy>>
    BY <1>1, <1>3, <2>1 DEF CarriedOut
  <2>2. CASE expects \in 1..5 /\ expects' = expects + 1 /\ (busy' <=> expects \in {4, 5})
    <3>1. CASE expects < 4
      BY <1>1, <1>3, <2>2, <3>1 DEF CarriedOut
    <3>2. CASE expects = 4
      BY <1>1, <1>3, <2>2, <3>2 DEF CarriedOut
    <3>3. CASE expects = 5
      BY <1>1, <1>3, <2>2, <3>3 DEF CarriedOut
    <3> QED
      BY <2>2, <3>1, <3>2, <3>3
  <2> QED
    BY <1>1, <1>2, <1>3, <2>1, <2>2, PluginTakesEffect
<1>5. AnswersTrue'
  <2>1. CASE Quiet
    BY <1>1, <1>3, <2>1, QuietTruth
  <2>2. ASSUME NEW line \in ToCore, Truthful(line), toCore' = Append(toCore, line), lastSaid' \in {lastSaid, line}
        PROVE  AnswersTrue'
    <3>1. Truthful(line)'
      BY <1>3, <2>2 DEF Truthful
    <3> QED
      BY <1>1, <1>3, <2>2, <3>1, SaysTruth
  <2>3. \A line \in {"resend", "handshake_ack", "other_kind", "capabilities_response"} : line \in ToCore /\ Truthful(line)
    BY DEF ToCore, Truthful
  <2>4. lastSaid # "nothing" => lastSaid \in ToCore /\ Truthful(lastSaid)
    BY <1>1 DEF AnswersTrue, TypeOK
  <2> QED
    BY <1>1, <1>2, <1>3, <2>1, <2>2, <2>3, <2>4, PluginTakesEffect
<1>6. CoreBehind' /\ EndsOnce' /\ UndoneBeforeSaid'
  BY <1>1, <1>2, <1>3, PluginTakesEffect DEF CoreBehind, EndsOnce, UndoneBeforeSaid
<1> QED
  BY <1>4, <1>5, <1>6
\* So do its own steps: what it says it has done, and it undoes before it
\* says how it ended.
LEMMA ChannelInvActs ==
  ChannelInv /\ (Configures \/ Starts \/ WorkEnds \/ Concludes \/ Crashes \/ Hangs)
    => (CarriedOut /\ AnswersTrue /\ CoreBehind /\ EndsOnce /\ UndoneBeforeSaid)'
<1> SUFFICES ASSUME ChannelInv, Configures \/ Starts \/ WorkEnds \/ Concludes \/ Crashes \/ Hangs
             PROVE  (CarriedOut /\ AnswersTrue /\ CoreBehind /\ EndsOnce /\ UndoneBeforeSaid)'
  OBVIOUS
<1>1. TypeOK /\ CarriedOut /\ AnswersTrue /\ CoreBehind /\ EndsOnce /\ UndoneBeforeSaid
  BY DEF ChannelInv
<1>2. {"configure_ack", "configure_error", "ready", "success", "error", "cancelled"} \subseteq ToCore
  BY DEF ToCore
<1>c. CASE Configures
  <2>1. expects = 5 /\ configured = 0 /\ started = 0 /\ undone = 0 /\ said = "nothing"
    BY <1>1, <1>c, ScriptSteps DEF Configures, CarriedOut, EndsOnce, TypeOK
  <2>2. CASE configured' = configured + 1 /\ Say("configure_ack") /\ UNCHANGED stopped
    <3>1. CarriedOut' /\ CoreBehind' /\ EndsOnce' /\ UndoneBeforeSaid'
      BY <1>1, <1>c, <2>1, <2>2 DEF Configures, CarriedOut, CoreBehind, EndsOnce, UndoneBeforeSaid, coreVars
    <3>2. Truthful("configure_ack")'
      BY <2>1, <2>2 DEF Truthful
    <3>3. AnswersTrue'
      BY <1>1, <1>2, <1>c, <2>1, <2>2, <3>2, SaysTruth DEF Configures, Say
    <3> QED
      BY <3>1, <3>3
  <2>3. CASE Say("configure_error") /\ Stop("fatal") /\ UNCHANGED configured
    <3>1. CarriedOut' /\ CoreBehind' /\ EndsOnce' /\ UndoneBeforeSaid'
      BY <1>1, <1>c, <2>1, <2>3 DEF Configures, Stop, CarriedOut, CoreBehind, EndsOnce, UndoneBeforeSaid, coreVars
    <3>2. AnswersTrue'
      BY <1>1, <1>2, <1>c, <2>3, SaysTruth DEF Configures, Say, Truthful
    <3> QED
      BY <3>1, <3>2
  <2> QED
    BY <1>c, <2>2, <2>3 DEF Configures
<1>s. CASE Starts
  <2>1. expects = 6 /\ configured = 1 /\ started = 0 /\ undone = 0 /\ said = "nothing" /\ started' = 1
    BY <1>1, <1>s, ScriptSteps DEF Starts, CarriedOut, EndsOnce, TypeOK
  <2>2. CarriedOut' /\ CoreBehind' /\ EndsOnce' /\ UndoneBeforeSaid'
    BY <1>1, <1>s, <2>1 DEF Starts, Stop, CarriedOut, CoreBehind, EndsOnce, UndoneBeforeSaid, coreVars
  <2>3. CASE Say("ready")
    BY <1>1, <1>2, <1>s, <2>1, <2>2, <2>3, SaysTruth DEF Starts, Say, Truthful
  <2>4. CASE Quiet
    BY <1>1, <1>s, <2>1, <2>2, <2>4, QuietTruth DEF Starts
  <2> QED
    BY <1>s, <2>2, <2>3, <2>4 DEF Starts
<1>w. CASE WorkEnds
  <2>1. undone = 0 /\ said = "nothing" /\ UNCHANGED <<configured, started, undone>>
    BY <1>1, <1>w DEF WorkEnds, EndsOnce
  <2>2. CarriedOut' /\ CoreBehind' /\ EndsOnce' /\ UndoneBeforeSaid'
    BY <1>1, <1>w, <2>1, ScriptSteps DEF WorkEnds, Stop, CarriedOut, CoreBehind, EndsOnce, UndoneBeforeSaid, coreVars
  <2>3. CASE Say("success")
    BY <1>1, <1>2, <2>1, <2>2, <2>3, SaysTruth DEF Say, Truthful
  <2>4. CASE Quiet
    BY <1>1, <2>1, <2>2, <2>4, QuietTruth
  <2> QED
    BY <1>w, <2>2, <2>3, <2>4 DEF WorkEnds
<1>e. CASE Concludes
  <2>1. UNCHANGED <<configured, started, expects, busy, stopped, step>> /\ stopped # "no"
    BY <1>e DEF Concludes, coreVars
  <2>2. CarriedOut' /\ CoreBehind'
    BY <1>1, <2>1 DEF CarriedOut, CoreBehind
  <2>3. EndsOnce' /\ UndoneBeforeSaid'
    BY <1>1, <1>e, <2>1 DEF Concludes, EndsOnce, UndoneBeforeSaid, TypeOK
  <2>4. ASSUME NEW line \in {"error", "cancelled"}, Say(line) PROVE AnswersTrue'
    BY <1>1, <1>2, <2>1, <2>4, SaysTruth DEF Say, Truthful
  <2>5. CASE Quiet
    BY <1>1, <2>1, <2>2, <2>3, <2>5, QuietTruth
  <2>6. Quiet \/ Say("error") \/ Say("cancelled")
    BY <1>e DEF Concludes
  <2> QED
    BY <2>2, <2>3, <2>4, <2>5, <2>6
<1>b. CASE Crashes \/ Hangs
  <2>1. UNCHANGED <<toCore, lastSaid, step, expects, busy, configured, started, undone, said, stopped>>
    BY <1>b DEF Crashes, Hangs, pipeVars, coreVars
  <2> QED
    BY <1>1, <2>1 DEF CarriedOut, AnswersTrue, Truthful, CoreBehind, EndsOnce, UndoneBeforeSaid
<1> QED
  BY <1>c, <1>s, <1>w, <1>e, <1>b

\* The invariant is inductive.
LEMMA ChannelInvStep == ChannelInv /\ [Next]_vars => ChannelInv'
<1>1. CASE ChannelInv /\ CoreStep
  BY <1>1, ChannelInvCore
<1>2. CASE ChannelInv /\ PluginStep
  BY <1>2, PluginTypes, ChannelInvHears, ChannelInvActs DEF PluginStep, ChannelInv
<1>3. CASE ChannelInv /\ UNCHANGED vars
  BY <1>3 DEF ChannelInv, TypeOK, CarriedOut, AnswersTrue, Truthful, CoreBehind, EndsOnce, UndoneBeforeSaid,
              vars, pipeVars, coreVars, pluginVars
<1> QED
  BY <1>1, <1>2, <1>3 DEF Next, Over

----------------------------------------------------------------------------
(* The theorems *)

\* The invariant holds in every behaviour.
THEOREM ChannelSafe == Spec => []ChannelInv
  BY ChannelInvInit, ChannelInvStep, PTL DEF Spec

\* The variables of the control channel keep their types.
THEOREM ChannelTypeOK == Spec => []TypeOK
<1>1. ChannelInv => TypeOK
  BY DEF ChannelInv
<1> QED
  BY <1>1, ChannelSafe, PTL

\* For any number of garbled lines: the core is never ahead of the plugin, and
\* the plugin carries out configure and start once each.
THEOREM ChannelInStep == Spec => []InStep
<1>1. ChannelInv => InStep
  <2> SUFFICES ASSUME ChannelInv PROVE InStep
    OBVIOUS
  <2>1. expects \in 1..6 /\ configured \in 0..2 /\ started \in 0..2
    BY ScriptSteps DEF ChannelInv, TypeOK
  <2>2. configured <= 1 /\ started <= configured
    BY <2>1 DEF ChannelInv, CarriedOut
  <2> QED
    BY <2>2 DEF ChannelInv, CoreBehind, InStep
<1> QED
  BY <1>1, ChannelSafe, PTL

\* For any number of garbled lines: a plugin that started undoes before it
\* reports an end, and one that succeeded undoes nothing.
THEOREM ChannelUndoneBeforeSaid == Spec => []UndoneBeforeSaid
<1>1. ChannelInv => UndoneBeforeSaid
  BY DEF ChannelInv
<1> QED
  BY <1>1, ChannelSafe, PTL

----------------------------------------------------------------------------
(* One garbled line is repaired: the inductive invariant *)

\* More was garbled than a repetition is sure to repair.
BeyondRepair ==
  Len(garbledLines) > 1 \/ garbledLines = <<"set_protocol_version">>

Tells == {"cancel", "error"}

\* The messages of the script that a step of the core asks for: from the
\* first to the last of them.
First(s) == IF s < 3 THEN s ELSE s + 1
Last(s)  == IF s = 1 THEN 1 ELSE s + 1

\* The lines that a step is answered with.
Fitting(s) ==
  {Answers[s]} \cup (IF s = 1 THEN {"other_kind"} ELSE {}) \cup (IF s = 3 THEN {"configure_error"} ELSE {})

\* A side asks for a repetition after a garbled line only.
AskedForCause ==
  garbledLines = <<>> =>
    /\ coreStreak = 0 /\ pluginStreak = 0
    /\ \A i \in 1..Len(toCore) : toCore[i] # "resend"
    /\ \A i \in 1..Len(toPlugin) : toPlugin[i] # "resend"

\* Where the request of a step is, or its answer: on the way to the plugin, with
\* the plugin, on the way back, or to be repeated in either direction.
Pending ==
  \/ /\ toPlugin = <<Script[2], Script[3]>> /\ toCore = <<>>
     /\ ~busy /\ step = 2 /\ expects = 2
  \/ /\ toPlugin = <<Script[Last(step)]>> /\ toCore = <<>>
     /\ ~busy /\ expects = Last(step)
  \/ /\ toPlugin = <<>> /\ toCore = <<"resend">>
     /\ ~busy /\ expects = Last(step)
  \/ /\ toPlugin = <<>> /\ toCore = <<>>
     /\ busy /\ step \in {3, 4} /\ expects = Last(step) + 1
  \/ /\ toPlugin = <<>> /\ toCore = <<lastSaid>>
     /\ ~busy /\ expects = Last(step) + 1 /\ lastSaid \in Fitting(step)
  \/ /\ toPlugin = <<"resend">> /\ toCore = <<>> /\ garbledLines = <<lastSaid>>
     /\ ~busy /\ expects = Last(step) + 1 /\ lastSaid \in Fitting(step)

\* While both sides go on, one thing is on its way between them.
OneToken ==
  phase = "talking" /\ ~gone /\ stopped = "no" =>
    /\ step < 5 /\ ~asked => toPlugin = <<>> /\ toCore = <<>> /\ ~busy /\ expects = First(step)
    /\ step < 5 /\ asked => Pending /\ lastSent = Script[Last(step)]
    /\ step = 5 => expects = 6

\* In a pipe to the plugin, a line is the one the plugin expects there, or one
\* that is good at any time; the former has no other of its kind behind it,
\* but for the request that follows set_protocol_version at once.
PluginPipe(q, e) ==
  /\ \A i \in 1..Len(q) :
       q[i] \in Tells \cup {"resend"} \/ (e + i <= 6 /\ q[i] = Script[e + i - 1])
  /\ \A i, j \in 1..Len(q) :
       i < j => q[j] \in Tells \cup {"resend"} \/ q[i] = "set_protocol_version"

\* So is the plugin's, before its work begins; a core that has given up
\* repeats only that.
PluginSide ==
  ~gone /\ stopped = "no" =>
    /\ expects < 6 => PluginPipe(toPlugin, expects)
    /\ phase # "talking" => lastSent \in Tells

\* In a pipe to the core, a line is an answer that fits the step, or good at
\* any time, and behind it is an end at most.
CorePipe(q, s, a) ==
  /\ \A i \in 1..Len(q) : q[i] \in Finishes \cup {"resend"} \/ (a /\ q[i] \in Fitting(s))
  /\ \A i, j \in 1..Len(q) : i < j => q[j] \in Finishes

CoreSide == phase = "talking" /\ step < 5 => CorePipe(toCore, step, asked)

\* An end that the core hears of was said.
EndsHeard ==
  said = "nothing" =>
    heard = "nothing" /\ lastSaid \notin Finishes /\ \A i \in 1..Len(toCore) : toCore[i] \notin Finishes

\* Nobody is accused.
NobodyAccused == failure # "protocol" /\ stopped # "violation"

Repairing == NobodyAccused /\ AskedForCause /\ OneToken /\ PluginSide /\ CoreSide /\ EndsHeard

\* A core that goes on has told the plugin of no failure, and heard of no end.
Untold ==
  phase = "talking" =>
    /\ heard = "nothing" /\ lastSent \notin Tells /\ stopped \notin {"cancel", "core"}
    /\ \A i \in 1..Len(toPlugin) : toPlugin[i] \notin Tells

\* The end that a plugin reports is how it stopped.
EndsTrue ==
  /\ lastSaid \in Finishes => said = lastSaid
  /\ \A i \in 1..Len(toCore) : toCore[i] \in Finishes => said = toCore[i]
  /\ said = "cancelled" => stopped = "cancel"
  /\ said = "error" => stopped \in {"fatal", "violation"}
  /\ said # "nothing" /\ stopped \in {"done", "fatal"} => expects = 6
  /\ lastSaid = "configure_error" => expects = 5 /\ configured = 0 /\ stopped = "fatal"

\* The plugin is no further than the answer that the core waits for.
Distance ==
  phase = "talking" /\ step < 5 => expects <= (IF asked THEN Last(step) + 1 ELSE First(step))

LastWordGarbled == \E word \in LastWords : garbledLines = <<word>>

\* The last word of a plugin is the last of its lines on their way.
LastWordComes ==
  phase = "talking" /\ lastSaid \in LastWords =>
    LastWordGarbled \/ (toCore # <<>> /\ toCore[Len(toCore)] = lastSaid)

\* A success that the core does not wait for yet has ready before it.
ReadyFirst ==
  phase = "talking" /\ step < 5 /\ said = "success" =>
    garbledLines = <<"ready">> \/ (toCore # <<>> /\ toCore[1] = "ready")

\* A core that goes on lays no blame, and one that does has a reason.
Blame ==
  /\ failure # "none" => phase # "talking"
  /\ failure = "process" => gone /\ lastSaid \notin LastWords
  /\ failure = "failed" =>
       \/ heard = "error" /\ stopped = "fatal" /\ said = "error"
       \/ heard = "success" /\ garbledLines = <<"ready">> /\ said = "success"
       \/ heard = "nothing" /\ gone /\ toCore = <<>> /\ (lastSaid \in LastWords => LastWordGarbled)

Ending == Untold /\ EndsTrue /\ Distance /\ LastWordComes /\ ReadyFirst /\ Blame

RepairInv == BeyondRepair \/ (Repairing /\ Ending)

----------------------------------------------------------------------------
(* What is garbled, and the pipes *)

\* A garbled line is no line of either pipe.
LEMMA LinesAreWhole ==
  /\ "garbled" \notin ToPlugin \cup ToCore
  /\ "resend" \notin Finishes \cup Tells /\ "garbled" \notin Finishes \cup Tells
  /\ \A e \in 1..5 : Script[e] \notin Tells \cup {"resend", "garbled"}
  /\ \A s \in 1..4 : Fitting(s) \cap (Finishes \cup {"resend", "garbled"}) = {}
<1>1. \A e \in 1..5 : Script[e] \notin Tells \cup {"resend", "garbled"}
  BY ScriptSteps DEF Tells
<1>2. "garbled" \notin ToPlugin \cup ToCore
  BY <1>1, ScriptSteps DEF ToPlugin, ToCore
<1>3. \A s \in 1..4 : Fitting(s) \cap (Finishes \cup {"resend", "garbled"}) = {}
  BY AnswerSteps DEF Fitting, Finishes
<1> QED
  BY <1>1, <1>2, <1>3 DEF Finishes, Tells

\* While the repetitions suffice, a line that arrives garbled is the first.
LEMMA GarbledOnce ==
  ASSUME TypeOK, NEW line \in ToPlugin \cup ToCore, NEW got, Arrives(line, got), ~BeyondRepair'
  PROVE  /\ got # "garbled" => got = line /\ UNCHANGED garbledLines
         /\ got = "garbled" =>
              garbledLines = <<>> /\ garbledLines' = <<line>> /\ garbledLines' # <<>> /\ line # "set_protocol_version"
<1>1. CASE got = line /\ UNCHANGED garbledLines
  BY <1>1, LinesAreWhole
<1>2. CASE got = "garbled" /\ garbledLines' = Append(garbledLines, line)
  <2>1. garbledLines \in Seq(ToPlugin \cup ToCore)
    BY DEF TypeOK
  <2>2. Len(garbledLines') = Len(garbledLines) + 1 /\ Len(garbledLines) \in Nat
    BY <1>2, <2>1
  <2>3. Len(garbledLines) = 0
    BY <2>2 DEF BeyondRepair
  <2>4. garbledLines = <<>>
    BY <2>1, <2>3
  <2>5. garbledLines' = <<line>>
    BY <1>2, <2>4
  <2> QED
    BY <1>2, <2>4, <2>5 DEF BeyondRepair
<1> QED
  BY <1>1, <1>2 DEF Arrives

\* What was garbled stays on record.
LEMMA BeyondKept == TypeOK /\ BeyondRepair /\ [Next]_vars => BeyondRepair'
<1> SUFFICES ASSUME TypeOK, BeyondRepair, [Next]_vars
             PROVE  BeyondRepair'
  OBVIOUS
<1>1. UNCHANGED garbledLines \/ \E x : garbledLines' = Append(garbledLines, x)
  <2>1. CASE CoreStep
    BY <2>1 DEF CoreStep, Ask, CoreHears, Arrives, CoreSeesEnd, CoreTimesOut, AbortElsewhere, WindDown,
                WindDownSeesEnd, Kill, Reap, pipeVars
  <2>2. CASE PluginStep
    BY <2>2 DEF PluginStep, PluginHears, Arrives, Configures, Starts, WorkEnds, Concludes, Crashes, Hangs, pipeVars
  <2> QED
    BY <2>1, <2>2 DEF Next, Over, vars, pipeVars
<1>2. garbledLines \in Seq(ToPlugin \cup ToCore)
  BY DEF TypeOK
<1>3. CASE UNCHANGED garbledLines
  BY <1>3 DEF BeyondRepair
<1>4. ASSUME NEW x, garbledLines' = Append(garbledLines, x)
      PROVE  BeyondRepair'
  <2>1. Len(garbledLines') = Len(garbledLines) + 1 /\ Len(garbledLines) \in Nat
    BY <1>2, <1>4
  <2>2. Len(garbledLines) >= 1
    BY <1>2, <2>1 DEF BeyondRepair
  <2> QED
    BY <2>1, <2>2 DEF BeyondRepair
<1> QED
  BY <1>1, <1>3, <1>4

\* A line that is good at any time may be written behind any other.
LEMMA PluginPipeMore ==
  ASSUME NEW q \in Seq(ToPlugin), NEW e \in 1..6, PluginPipe(q, e), NEW x \in Tells \cup {"resend"}
  PROVE  PluginPipe(Append(q, x), e)
<1>1. Len(Append(q, x)) = Len(q) + 1 /\ Len(q) \in Nat
  OBVIOUS
<1>2. /\ \A i \in 1..Len(q) : Append(q, x)[i] = q[i]
      /\ Append(q, x)[Len(q) + 1] = x
  OBVIOUS
<1> QED
  BY <1>1, <1>2 DEF PluginPipe

\* What the plugin reads next, and what is left to it: behind a line that it
\* expects the next ones, behind another nothing that it would expect.
LEMMA PluginPipeRead ==
  ASSUME NEW q \in Seq(ToPlugin), NEW e \in 1..6, PluginPipe(q, e), q # <<>>
  PROVE  /\ Head(q) \in Tells \cup {"resend"} \/ (e <= 5 /\ Head(q) = Script[e])
         /\ Head(q) # "set_protocol_version" => PluginPipe(Tail(q), e)
         /\ e <= 5 /\ Head(q) = Script[e] => PluginPipe(Tail(q), e + 1)
<1>1. /\ Head(q) = q[1] /\ 1 \in 1..Len(q) /\ Len(q) \in Nat /\ Len(Tail(q)) = Len(q) - 1
      /\ \A i \in 1..Len(Tail(q)) : Tail(q)[i] = q[i + 1] /\ i + 1 \in 1..Len(q) /\ 1 < i + 1
  OBVIOUS
<1>2. Head(q) \in Tells \cup {"resend"} \/ (e <= 5 /\ Head(q) = Script[e])
  BY <1>1 DEF PluginPipe
<1>3. ASSUME Head(q) # "set_protocol_version"
      PROVE  PluginPipe(Tail(q), e)
  <2>1. \A i \in 1..Len(Tail(q)) : Tail(q)[i] \in Tells \cup {"resend"}
    BY <1>1, <1>3 DEF PluginPipe
  <2> QED
    BY <2>1 DEF PluginPipe
<1>4. PluginPipe(Tail(q), e + 1)
  <2>1. \A i \in 1..Len(Tail(q)) :
          Tail(q)[i] \in Tells \cup {"resend"} \/ ((e + 1) + i <= 6 /\ Tail(q)[i] = Script[(e + 1) + i - 1])
    <3> SUFFICES ASSUME NEW i \in 1..Len(Tail(q)), Tail(q)[i] \notin Tells \cup {"resend"}
                 PROVE  (e + 1) + i <= 6 /\ Tail(q)[i] = Script[(e + 1) + i - 1]
      OBVIOUS
    <3>1. Tail(q)[i] = q[i + 1] /\ i + 1 \in 1..Len(q) /\ i \in Nat
      BY <1>1
    <3>2. e + (i + 1) <= 6 /\ q[i + 1] = Script[e + (i + 1) - 1]
      BY <3>1 DEF PluginPipe
    <3>3. e + (i + 1) = (e + 1) + i /\ e + (i + 1) - 1 = (e + 1) + i - 1
      BY <3>1
    <3> QED
      BY <3>1, <3>2, <3>3
  <2>2. \A i, j \in 1..Len(Tail(q)) :
          i < j => Tail(q)[j] \in Tells \cup {"resend"} \/ Tail(q)[i] = "set_protocol_version"
    BY <1>1 DEF PluginPipe
  <2> QED
    BY <2>1, <2>2 DEF PluginPipe
<1> QED
  BY <1>2, <1>3, <1>4

\* Behind what the core reads next there are ends only, which fit anywhere.
LEMMA CorePipeRead ==
  ASSUME NEW q \in Seq(ToCore), NEW s, NEW a, CorePipe(q, s, a), q # <<>>
  PROVE  /\ Head(q) \in Finishes \cup {"resend"} \/ (a /\ Head(q) \in Fitting(s))
         /\ \A t, b : CorePipe(Tail(q), t, b)
<1>1. /\ Head(q) = q[1] /\ 1 \in 1..Len(q) /\ Len(q) \in Nat /\ Len(Tail(q)) = Len(q) - 1
      /\ \A i \in 1..Len(Tail(q)) : Tail(q)[i] = q[i + 1] /\ i + 1 \in 1..Len(q) /\ 1 < i + 1
  OBVIOUS
<1>2. \A i \in 1..Len(Tail(q)) : Tail(q)[i] \in Finishes
  BY <1>1 DEF CorePipe
<1> QED
  BY <1>1, <1>2 DEF CorePipe

\* An end may be written behind any other line.
LEMMA CorePipeMore ==
  ASSUME NEW q \in Seq(ToCore), NEW s, NEW a, CorePipe(q, s, a), NEW x \in Finishes
  PROVE  CorePipe(Append(q, x), s, a)
<1>1. Len(Append(q, x)) = Len(q) + 1 /\ Len(q) \in Nat
  OBVIOUS
<1>2. /\ \A i \in 1..Len(q) : Append(q, x)[i] = q[i]
      /\ Append(q, x)[Len(q) + 1] = x
  OBVIOUS
<1> QED
  BY <1>1, <1>2 DEF CorePipe

----------------------------------------------------------------------------
(* The core repairs *)

\* A plugin that goes on has said no end, and the core has heard none.
LEMMA GoesOnUnheard ==
  ASSUME ChannelInv, EndsHeard, stopped = "no"
  PROVE  /\ said = "nothing" /\ heard = "nothing" /\ lastSaid \notin Finishes
         /\ \A i \in 1..Len(toCore) : toCore[i] \notin Finishes
BY DEF ChannelInv, EndsOnce, EndsHeard

\* What is not asked for a repetition is not the cause of one.
LEMMA TellSide ==
  ASSUME ChannelInv, PluginSide, EndsHeard, NEW line \in Tells, NEW known, Tell(line, known),
         known = heard \/ stopped # "no",
         UNCHANGED <<expects, gone, stopped>>
  PROVE  /\ PluginSide'
         /\ (\A i \in 1..Len(toPlugin) : toPlugin[i] # "resend") =>
              \A i \in 1..Len(toPlugin') : toPlugin'[i] # "resend"
<1>1. toPlugin \in Seq(ToPlugin) /\ expects \in 1..6
  BY ScriptSteps DEF ChannelInv, TypeOK
<1>2. line # "resend"
  BY LinesAreWhole
<1>3. CASE toPlugin' = Append(toPlugin, line) /\ lastSent' = line
  <2>1. PluginSide'
    BY <1>1, <1>3, PluginPipeMore DEF PluginSide
  <2>2. /\ Len(toPlugin') = Len(toPlugin) + 1 /\ Len(toPlugin) \in Nat
        /\ \A i \in 1..Len(toPlugin) : toPlugin'[i] = toPlugin[i]
        /\ toPlugin'[Len(toPlugin) + 1] = line
    BY <1>1, <1>3
  <2> QED
    BY <1>2, <2>1, <2>2
<1>4. CASE (known # "nothing" \/ gone) /\ UNCHANGED <<toPlugin, lastSent>>
  <2>1. gone \/ stopped # "no"
    BY <1>4, GoesOnUnheard
  <2> QED
    BY <1>4, <2>1 DEF PluginSide
<1> QED
  BY <1>3, <1>4 DEF Tell

\* A request is written when nothing else is on its way.
LEMMA AskRepairs == ChannelInv /\ Repairing /\ Ask => Repairing'
<1> SUFFICES ASSUME ChannelInv, Repairing, Ask PROVE Repairing'
  OBVIOUS
<1>0. /\ phase = "talking" /\ ~asked /\ step \in 1..4 /\ expects \in 1..6
      /\ UNCHANGED <<toCore, garbledLines, step, coreStreak, heard, expects, busy, said, lastSaid, pluginStreak, stopped, gone>>
  BY ScriptSteps, AnswerSteps DEF Ask, pluginVars, ChannelInv, TypeOK
<1>1. CASE gone
  <2>1. phase' = "aborting" /\ failure' = "process" /\ UNCHANGED <<toPlugin, lastSent, asked>>
    BY <1>1 DEF Ask
  <2> QED
    BY <1>0, <1>1, <2>1 DEF Repairing, NobodyAccused, AskedForCause, OneToken, PluginSide, CoreSide, EndsHeard
<1>2. CASE ~gone
  <2>1. /\ toPlugin' = toPlugin \o Requests[step] /\ lastSent' = Requests[step][Len(Requests[step])]
        /\ asked' /\ UNCHANGED <<phase, failure>>
    BY <1>2 DEF Ask
  <2>2. toPlugin \in Seq(ToPlugin)
    BY DEF ChannelInv, TypeOK
  <2>3. /\ Requests[step] = IF step = 2 THEN <<Script[2], Script[3]>> ELSE <<Script[Last(step)]>>
        /\ Requests[step][Len(Requests[step])] = Script[Last(step)]
    <3>1. CASE step = 1
      BY <3>1 DEF Requests, Script, Last
    <3>2. CASE step = 2
      BY <3>2 DEF Requests, Script, Last
    <3>3. CASE step = 3
      BY <3>3 DEF Requests, Script, Last
    <3>4. CASE step = 4
      BY <3>4 DEF Requests, Script, Last
    <3> QED
      BY <1>0, <3>1, <3>2, <3>3, <3>4
  <2>4. \A i \in 1..Len(Requests[step]) : Requests[step][i] # "resend"
    <3>1. Last(step) \in 1..5
      BY <1>0 DEF Last
    <3>2. CASE step = 2
      BY <2>3, <3>2, LinesAreWhole
    <3>3. CASE step # 2
      BY <2>3, <3>1, <3>3, LinesAreWhole
    <3> QED
      BY <3>2, <3>3
  <2>5. AskedForCause'
    <3>1. Requests[step] \in Seq(ToPlugin)
      BY <1>0, RequestLines, AnswerSteps
    <3>2. \A i \in 1..Len(toPlugin \o Requests[step]) :
            \/ i \in 1..Len(toPlugin) /\ (toPlugin \o Requests[step])[i] = toPlugin[i]
            \/ i - Len(toPlugin) \in 1..Len(Requests[step])
               /\ (toPlugin \o Requests[step])[i] = Requests[step][i - Len(toPlugin)]
      BY <2>2, <3>1
    <3> QED
      BY <1>0, <2>1, <2>4, <3>2 DEF Repairing, AskedForCause
  <2>6. CASE stopped = "no"
    <3>1. toPlugin = <<>> /\ toCore = <<>> /\ ~busy /\ expects = First(step)
      BY <1>0, <1>2, <2>6 DEF Repairing, OneToken
    <3>2. toPlugin' = Requests[step]
      BY <2>1, <2>3, <3>1
    <3>3. OneToken'
      <4>1. step # 2 => First(step) = Last(step)
        BY <1>0 DEF First, Last
      <4>2. step = 2 => First(step) = 2
        BY DEF First
      <4>3. Pending'
        BY <1>0, <2>3, <3>1, <3>2, <4>1, <4>2 DEF Pending
      <4> QED
        BY <1>0, <2>1, <2>3, <4>3 DEF OneToken
    <3>4. PluginPipe(toPlugin', expects')
      <4>1. CASE step = 2
        BY <1>0, <2>3, <3>1, <3>2, <4>1, ScriptSteps DEF PluginPipe, First
      <4>2. CASE step # 2
        BY <1>0, <2>3, <3>1, <3>2, <4>2 DEF PluginPipe, First, Last
      <4> QED
        BY <4>1, <4>2
    <3>5. PluginSide'
      BY <1>0, <2>1, <3>4 DEF PluginSide
    <3>6. CoreSide' /\ EndsHeard' /\ NobodyAccused'
      BY <1>0, <2>1, <3>1 DEF Repairing, CoreSide, CorePipe, EndsHeard, NobodyAccused
    <3> QED
      BY <2>5, <3>3, <3>5, <3>6 DEF Repairing
  <2>7. CASE stopped # "no"
    BY <1>0, <2>1, <2>5, <2>7 DEF Repairing, NobodyAccused, OneToken, PluginSide, CoreSide, CorePipe, EndsHeard
  <2> QED
    BY <2>6, <2>7
<1> QED
  BY <1>1, <1>2

\* A conversation that is given up for another reason accuses nobody.
LEMMA GivesUp ==
  ASSUME ChannelInv, Repairing, NEW line \in Tells, NEW known, Tell(line, known),
         known = heard \/ stopped # "no",
         phase' = "aborting", failure' # "protocol",
         UNCHANGED <<garbledLines, coreStreak, heard, expects, busy, said, lastSaid, pluginStreak, stopped, gone>>,
         \A i \in 1..Len(toCore') : \E j \in 1..Len(toCore) : toCore'[i] = toCore[j]
  PROVE  Repairing'
<1>1. PluginSide'
  BY TellSide DEF Repairing
<1>2. AskedForCause'
  BY TellSide DEF Repairing, AskedForCause
<1>3. EndsHeard' /\ NobodyAccused' /\ OneToken' /\ CoreSide'
  BY DEF Repairing, EndsHeard, NobodyAccused, OneToken, CoreSide
<1> QED
  BY <1>1, <1>2, <1>3 DEF Repairing

\* So do a deadline that passes and an abort from elsewhere.
LEMMA AbortRepairs == ChannelInv /\ Repairing /\ (CoreTimesOut \/ AbortElsewhere) => Repairing'
<1> SUFFICES ASSUME ChannelInv, Repairing, CoreTimesOut \/ AbortElsewhere PROVE Repairing'
  OBVIOUS
<1>1. PICK line \in Tells :
        Tell(line, heard) /\ phase' = "aborting" /\ failure' # "protocol"
  BY DEF CoreTimesOut, AbortElsewhere, FailWith, Tells
<1>2. UNCHANGED <<toCore, garbledLines, coreStreak, heard, expects, busy, said, lastSaid, pluginStreak, stopped, gone>>
  BY DEF CoreTimesOut, AbortElsewhere, pluginVars
<1> QED
  BY <1>1, <1>2, GivesUp

\* The core that finds the plugin gone, or has killed it, talks no more.
LEMMA EndRepairs ==
  ChannelInv /\ Repairing /\ (CoreSeesEnd \/ WindDownSeesEnd \/ Kill \/ Reap) => Repairing'
<1> SUFFICES ASSUME ChannelInv, Repairing, CoreSeesEnd \/ WindDownSeesEnd \/ Kill \/ Reap PROVE Repairing'
  OBVIOUS
<1>1. /\ gone' /\ phase' # "talking" /\ failure' \in {failure, "failed"}
      /\ UNCHANGED <<toPlugin, toCore, garbledLines, coreStreak, heard, said, lastSaid, pluginStreak, stopped>>
  BY DEF CoreSeesEnd, WindDownSeesEnd, Kill, Reap, pluginVars, pipeVars
<1> QED
  BY <1>1 DEF Repairing, NobodyAccused, AskedForCause, OneToken, PluginSide, CoreSide, EndsHeard

\* What the core makes of a line that it hears in its turn.
LEMMA HearsRepairs == ChannelInv /\ Repairing /\ CoreHears /\ ~BeyondRepair' => Repairing'
<1> SUFFICES ASSUME ChannelInv, Repairing, CoreHears, ~BeyondRepair' PROVE Repairing'
  OBVIOUS
<1>0. /\ TypeOK /\ phase = "talking" /\ step \in 1..5 /\ (asked \/ step = 5) /\ toCore # <<>> /\ toCore \in Seq(ToCore)
      /\ toPlugin \in Seq(ToPlugin) /\ expects \in 1..6 /\ coreStreak \in 0..1 /\ asked \in BOOLEAN
      /\ UNCHANGED <<expects, busy, said, lastSaid, pluginStreak, stopped, gone>>
      /\ toCore' = Tail(toCore)
  BY ScriptSteps, AnswerSteps DEF CoreHears, Listening, pluginVars, ChannelInv, TypeOK
<1>1. PICK got \in ToCore \cup {"garbled"} : Arrives(Head(toCore), got) /\ CoreTakes(got)
  BY DEF CoreHears
<1>2. /\ Head(toCore) = toCore[1] /\ 1 \in 1..Len(toCore) /\ Head(toCore) \in ToCore
      /\ toCore' \in Seq(ToCore)
      /\ \A i \in 1..Len(toCore') : toCore'[i] = toCore[i + 1] /\ i + 1 \in 1..Len(toCore)
  BY <1>0, TailOfPipe
<1>3. /\ got # "garbled" => got = Head(toCore) /\ UNCHANGED garbledLines
      /\ got = "garbled" => garbledLines = <<>> /\ garbledLines' = <<Head(toCore)>> /\ garbledLines' # <<>>
  BY <1>0, <1>1, <1>2, GarbledOnce
<1>4. step < 5 =>
        /\ Head(toCore) \in Finishes \cup {"resend"} \cup Fitting(step)
        /\ \A t, b : CorePipe(toCore', t, b)
  BY <1>0, CorePipeRead DEF Repairing, CoreSide
<1>5. said = "nothing" => Head(toCore) \notin Finishes /\ \A i \in 1..Len(toCore') : toCore'[i] \notin Finishes
  BY <1>2 DEF Repairing, EndsHeard
<1>6. garbledLines' = <<>> => \A i \in 1..Len(toCore') : toCore'[i] # "resend"
  BY <1>2, <1>3 DEF Repairing, AskedForCause
<1>7. PluginPipe(toPlugin, expects) \/ ~(~gone /\ stopped = "no" /\ expects < 6)
  BY DEF Repairing, PluginSide
<1>g. CASE got = "garbled"
  <2>1. coreStreak = 0
    BY <1>3, <1>g DEF Repairing, AskedForCause
  <2>2. coreStreak' = 1 /\ AskAgain /\ UNCHANGED <<step, asked, heard, phase, failure>>
    BY <1>1, <1>g, <2>1 DEF CoreTakes, Finishes
  <2>3. NobodyAccused' /\ EndsHeard' /\ AskedForCause' /\ CoreSide'
    BY <1>0, <1>3, <1>4, <1>5, <1>g, <2>2 DEF Repairing, NobodyAccused, EndsHeard, AskedForCause, CoreSide
  <2>4. PluginSide'
    <3>1. PluginPipe(toPlugin, expects) => PluginPipe(Append(toPlugin, "resend"), expects)
      BY <1>0, PluginPipeMore
    <3> QED
      BY <1>0, <1>7, <2>2, <3>1 DEF PluginSide, AskAgain
  <2>5. OneToken'
    <3> SUFFICES ASSUME ~gone, stopped = "no", step < 5
                 PROVE  Pending' /\ lastSent' = Script[Last(step)] /\ asked'
      BY <1>0, <2>2 DEF OneToken, Repairing
    <3>1. Pending /\ lastSent = Script[Last(step)]
      BY <1>0 DEF Repairing, OneToken
    <3>2. toCore # <<"resend">>
      BY <1>2, <1>3, <1>g DEF Repairing, AskedForCause
    <3>3. /\ toPlugin = <<>> /\ toCore = <<lastSaid>>
          /\ ~busy /\ expects = Last(step) + 1 /\ lastSaid \in Fitting(step)
      BY <1>0, <3>1, <3>2 DEF Pending
    <3>4. toPlugin' = <<"resend">> /\ toCore' = <<>> /\ garbledLines' = <<lastSaid>>
      BY <1>0, <1>2, <1>3, <1>g, <2>2, <3>3 DEF AskAgain
    <3> QED
      BY <1>0, <2>2, <3>1, <3>3, <3>4 DEF Pending, AskAgain
  <2> QED
    BY <2>3, <2>4, <2>5 DEF Repairing
<1>r. CASE got = "resend"
  <2>1. coreStreak' = 0 /\ SendAgain /\ UNCHANGED <<step, asked, heard, phase, failure>>
    BY <1>1, <1>r DEF CoreTakes, Finishes
  <2>2. garbledLines' = garbledLines /\ garbledLines # <<>>
    BY <1>2, <1>3, <1>r DEF Repairing, AskedForCause
  <2>3. NobodyAccused' /\ EndsHeard' /\ AskedForCause' /\ CoreSide'
    BY <1>0, <1>4, <1>5, <2>1, <2>2 DEF Repairing, NobodyAccused, EndsHeard, AskedForCause, CoreSide
  <2>4. CASE ~gone /\ stopped = "no" /\ step < 5
    <3>1. Pending /\ lastSent = Script[Last(step)]
      BY <1>0, <2>4 DEF Repairing, OneToken
    <3>2. Fitting(step) \cap {"resend"} = {}
      BY <1>0, <2>4, LinesAreWhole
    <3>3. /\ toPlugin = <<>> /\ toCore = <<"resend">> /\ ~busy /\ expects = Last(step)
      BY <1>0, <1>2, <1>3, <1>r, <3>1, <3>2 DEF Pending
    <3>4. Last(step) \in 1..5
      BY <1>0, <2>4 DEF Last
    <3>5. lastSent # "nothing"
      BY <3>1, <3>4, ScriptSteps
    <3>6. toPlugin' = <<Script[Last(step)]>> /\ toCore' = <<>> /\ lastSent' = lastSent
      BY <1>0, <2>1, <2>4, <3>1, <3>3, <3>5 DEF SendAgain
    <3>7. OneToken'
      BY <1>0, <2>1, <2>4, <3>1, <3>3, <3>6 DEF OneToken, Pending
    <3>8. PluginSide'
      BY <1>0, <2>1, <2>4, <3>3, <3>4, <3>6 DEF PluginSide, PluginPipe
    <3> QED
      BY <2>3, <3>7, <3>8 DEF Repairing
  <2>5. CASE gone \/ stopped # "no"
    BY <1>0, <2>3, <2>5 DEF Repairing, OneToken, PluginSide
  <2>6. CASE step = 5
    <3>1. ~gone /\ stopped = "no" => expects = 6
      BY <1>0, <2>6 DEF Repairing, OneToken
    <3> QED
      BY <1>0, <2>1, <2>3, <2>6, <3>1 DEF Repairing, OneToken, PluginSide
  <2> QED
    BY <1>0, <2>4, <2>5, <2>6
<1>f. CASE got \in Finishes
  <2>1. said # "nothing" /\ stopped # "no"
    BY <1>3, <1>5, <1>f, LinesAreWhole, GoesOnUnheard DEF Repairing
  <2>2. CASE FailWith("failed", "cancel", got) /\ coreStreak' = 0 /\ heard' = got
    <3>1. /\ phase' = "aborting" /\ failure' = "failed"
          /\ \A i \in 1..Len(toPlugin') : i \in 1..Len(toPlugin) /\ toPlugin'[i] = toPlugin[i]
      <4>1. got # "nothing"
        BY <1>f DEF Finishes
      <4> QED
        BY <2>2, <4>1 DEF FailWith, Tell
    <3> QED
      BY <1>0, <1>3, <1>6, <1>f, <2>1, <2>2, <3>1, LinesAreWhole
      DEF Repairing, NobodyAccused, AskedForCause, OneToken, PluginSide, CoreSide, EndsHeard
  <2>3. CASE phase' = "aborting" /\ UNCHANGED <<failure, toPlugin, lastSent>> /\ coreStreak' = 0 /\ heard' = got
    BY <1>0, <1>3, <1>6, <1>f, <2>1, <2>3, LinesAreWhole
    DEF Repairing, NobodyAccused, AskedForCause, OneToken, PluginSide, CoreSide, EndsHeard
  <2> QED
    BY <1>1, <1>f, <2>2, <2>3 DEF CoreTakes, Finishes
<1>a. CASE got \notin Finishes \cup {"garbled", "resend"}
  <2>1. /\ coreStreak' = 0 /\ UNCHANGED heard /\ got = Head(toCore) /\ UNCHANGED garbledLines
        /\ \/ step < 5 /\ got = Answers[step] /\ NextStep
           \/ got = "other_kind" /\ step = 1 /\ FailWith("incompatible", "error", heard) /\ UNCHANGED <<step, asked>>
           \/ got = "configure_error" /\ step = 3 /\ FailWith("rejected", "cancel", heard) /\ UNCHANGED <<step, asked>>
           \/ /\ step < 5 /\ got # Answers[step]
              /\ <<got, step>> \notin {<<"other_kind", 1>>, <<"configure_error", 3>>}
           \/ step = 5 /\ UNCHANGED <<step, asked, toPlugin, lastSent, phase, failure>>
    BY <1>1, <1>3, <1>a, AnswerSteps DEF CoreTakes
  <2>2. step < 5 => got \in Fitting(step)
    BY <1>4, <1>a, <2>1
  <2>3. CASE step < 5 /\ got = Answers[step] /\ NextStep
    <3>1. step' = step + 1 /\ ~asked' /\ UNCHANGED <<toPlugin, lastSent, phase, failure>>
      BY <2>3 DEF NextStep
    <3>2. OneToken'
      <4> SUFFICES ASSUME ~gone, stopped = "no"
                   PROVE  toPlugin = <<>> /\ toCore' = <<>> /\ ~busy /\ expects = IF step = 4 THEN 6 ELSE First(step + 1)
        BY <1>0, <2>3, <3>1 DEF OneToken
      <4>1. Pending
        BY <1>0, <2>3 DEF Repairing, OneToken
      <4>2. toPlugin = <<>> /\ Len(toCore) = 1 /\ ~busy /\ expects = Last(step) + 1
        BY <1>0, <1>2, <1>a, <2>1, <4>1 DEF Pending
      <4>3. toCore' = <<>>
        BY <1>0, <4>2
      <4> QED
        BY <1>0, <2>3, <4>2, <4>3 DEF First, Last
    <3>3. NobodyAccused' /\ EndsHeard' /\ AskedForCause' /\ CoreSide' /\ PluginSide'
      BY <1>0, <1>4, <1>5, <1>6, <2>1, <2>3, <3>1
      DEF Repairing, NobodyAccused, EndsHeard, AskedForCause, CoreSide, PluginSide
    <3> QED
      BY <3>2, <3>3 DEF Repairing
  <2>4. CASE \E cause \in {"incompatible", "rejected"}, line \in {"error", "cancel"} : FailWith(cause, line, heard)
    <3>1. PICK line \in Tells : Tell(line, heard) /\ phase' = "aborting" /\ failure' # "protocol"
      BY <2>4 DEF FailWith, Tells
    <3>2. PluginSide'
      BY <1>0, <3>1, TellSide DEF Repairing
    <3>3. AskedForCause'
      BY <1>0, <1>6, <2>1, <3>1, TellSide DEF Repairing, AskedForCause
    <3>4. EndsHeard' /\ NobodyAccused' /\ OneToken' /\ CoreSide'
      BY <1>0, <1>5, <2>1, <3>1 DEF Repairing, EndsHeard, NobodyAccused, OneToken, CoreSide
    <3> QED
      BY <3>2, <3>3, <3>4 DEF Repairing
  <2>5. ~(step < 5 /\ got # Answers[step] /\ <<got, step>> \notin {<<"other_kind", 1>>, <<"configure_error", 3>>})
    BY <2>2 DEF Fitting
  <2>6. CASE step = 5 /\ UNCHANGED <<step, asked, toPlugin, lastSent, phase, failure>>
    BY <1>0, <1>5, <1>6, <2>1, <2>6
    DEF Repairing, NobodyAccused, EndsHeard, AskedForCause, CoreSide, PluginSide, OneToken
  <2> QED
    BY <2>1, <2>3, <2>4, <2>5, <2>6
<1> QED
  BY <1>g, <1>r, <1>f, <1>a

\* A core that has given up repeats what it said last and records an end.
LEMMA WindDownRepairs == ChannelInv /\ Repairing /\ WindDown /\ ~BeyondRepair' => Repairing'
<1> SUFFICES ASSUME ChannelInv, Repairing, WindDown, ~BeyondRepair' PROVE Repairing'
  OBVIOUS
<1>0. /\ TypeOK /\ phase = "aborting" /\ toCore # <<>> /\ toCore \in Seq(ToCore)
      /\ toPlugin \in Seq(ToPlugin) /\ expects \in 1..6
      /\ UNCHANGED <<failure, expects, busy, said, lastSaid, pluginStreak, stopped, gone>>
      /\ toCore' = Tail(toCore)
  BY ScriptSteps DEF WindDown, pluginVars, ChannelInv, TypeOK
<1>1. PICK got \in ToCore \cup {"garbled"} :
        /\ Arrives(Head(toCore), got)
        /\ \/ got = "resend" /\ SendAgain /\ coreStreak' = 0 /\ UNCHANGED <<heard, phase>>
           \/ got = "garbled" /\ coreStreak = 0 /\ AskAgain /\ coreStreak' = 1 /\ UNCHANGED <<heard, phase>>
           \/ /\ got = "garbled" /\ coreStreak = 1
              /\ phase' = "waiting" /\ UNCHANGED <<toPlugin, lastSent, coreStreak, heard>>
           \/ /\ got \notin {"resend", "garbled"}
              /\ heard' = IF got \in Finishes THEN got ELSE heard
              /\ coreStreak' = 0 /\ UNCHANGED <<toPlugin, lastSent, phase>>
  BY DEF WindDown
<1>2. /\ Head(toCore) = toCore[1] /\ 1 \in 1..Len(toCore) /\ Head(toCore) \in ToCore
      /\ \A i \in 1..Len(toCore') : toCore'[i] = toCore[i + 1] /\ i + 1 \in 1..Len(toCore)
  BY <1>0, TailOfPipe
<1>3. /\ got # "garbled" => got = Head(toCore) /\ UNCHANGED garbledLines
      /\ got = "garbled" => garbledLines = <<>> /\ garbledLines' # <<>>
  BY <1>0, <1>1, <1>2, GarbledOnce
<1>4. said = "nothing" => Head(toCore) \notin Finishes /\ \A i \in 1..Len(toCore') : toCore'[i] \notin Finishes
  BY <1>2 DEF Repairing, EndsHeard
<1>5. NobodyAccused' /\ OneToken' /\ CoreSide' /\ phase' # "talking"
  BY <1>0, <1>1 DEF Repairing, NobodyAccused, OneToken, CoreSide
<1>6. EndsHeard'
  BY <1>0, <1>1, <1>3, <1>4, LinesAreWhole DEF Repairing, EndsHeard
<1>7. AskedForCause'
  <2>1. CASE garbledLines' # <<>>
    BY <2>1 DEF AskedForCause
  <2>2. CASE garbledLines' = <<>>
    <3>1. got # "garbled" /\ garbledLines = <<>> /\ got # "resend"
      BY <1>2, <1>3, <2>2 DEF Repairing, AskedForCause
    <3>2. coreStreak' = 0 /\ UNCHANGED toPlugin
      BY <1>1, <3>1
    <3> QED
      BY <1>0, <1>2, <3>1, <3>2 DEF Repairing, AskedForCause
  <2> QED
    BY <2>1, <2>2
<1>8. PluginSide'
  <2> SUFFICES ASSUME ~gone, stopped = "no"
               PROVE  (expects < 6 => PluginPipe(toPlugin', expects)) /\ lastSent' \in Tells
    BY <1>0, <1>5 DEF PluginSide
  <2>1. (expects < 6 => PluginPipe(toPlugin, expects)) /\ lastSent \in Tells
    BY <1>0 DEF Repairing, PluginSide
  <2>2. \A x \in Tells \cup {"resend"} : expects < 6 => PluginPipe(Append(toPlugin, x), expects)
    BY <1>0, <2>1, PluginPipeMore
  <2> QED
    BY <1>1, <2>1, <2>2 DEF SendAgain, AskAgain
<1> QED
  BY <1>5, <1>6, <1>7, <1>8 DEF Repairing

----------------------------------------------------------------------------
(* The plugin repairs *)

\* What the plugin hears: the line it expects, or one that is good at any time.
LEMMA PluginHearsRepairs == ChannelInv /\ Repairing /\ PluginHears /\ ~BeyondRepair' => Repairing'
<1> SUFFICES ASSUME ChannelInv, Repairing, PluginHears, ~BeyondRepair' PROVE Repairing'
  OBVIOUS
<1>0. /\ TypeOK /\ ~gone /\ stopped = "no" /\ ~busy /\ toPlugin # <<>> /\ toPlugin \in Seq(ToPlugin)
      /\ toCore \in Seq(ToCore) /\ expects \in 1..6 /\ step \in 1..5 /\ pluginStreak \in 0..1 /\ asked \in BOOLEAN
      /\ UNCHANGED <<step, asked, lastSent, coreStreak, heard, phase, failure, said, gone>>
      /\ toPlugin' = Tail(toPlugin)
  BY ScriptSteps, AnswerSteps DEF PluginHears, Alive, coreVars, ChannelInv, TypeOK
<1>1. PICK got \in ToPlugin \cup {"garbled"} : Arrives(Head(toPlugin), got) /\ PluginTakes(got)
  BY DEF PluginHears
<1>2. /\ Head(toPlugin) = toPlugin[1] /\ 1 \in 1..Len(toPlugin) /\ Head(toPlugin) \in ToPlugin
      /\ \A i \in 1..Len(toPlugin') : toPlugin'[i] = toPlugin[i + 1] /\ i + 1 \in 1..Len(toPlugin)
  BY <1>0, TailOfPipe
<1>3. /\ got # "garbled" => got = Head(toPlugin) /\ UNCHANGED garbledLines
      /\ got = "garbled" => garbledLines = <<>> /\ garbledLines' # <<>> /\ Head(toPlugin) # "set_protocol_version"
  BY <1>0, <1>1, <1>2, GarbledOnce
<1>4. /\ said = "nothing" /\ heard = "nothing" /\ lastSaid \notin Finishes
      /\ \A i \in 1..Len(toCore) : toCore[i] \notin Finishes
  BY <1>0, GoesOnUnheard DEF Repairing
<1>5. expects < 6 =>
        /\ Head(toPlugin) \in Tells \cup {"resend"} \/ (expects <= 5 /\ Head(toPlugin) = Script[expects])
        /\ Head(toPlugin) # "set_protocol_version" => PluginPipe(toPlugin', expects)
        /\ expects <= 5 /\ Head(toPlugin) = Script[expects] => PluginPipe(toPlugin', expects + 1)
  BY <1>0, PluginPipeRead DEF Repairing, PluginSide
<1>6. garbledLines' = <<>> => \A i \in 1..Len(toPlugin') : toPlugin'[i] # "resend"
  BY <1>2, <1>3 DEF Repairing, AskedForCause
<1>7. phase = "talking" /\ step < 5 =>
        /\ asked /\ lastSent = Script[Last(step)] /\ Last(step) \in 1..5
        /\ \/ /\ toPlugin = <<Script[2], Script[3]>> /\ toCore = <<>>
              /\ step = 2 /\ expects = 2
           \/ toPlugin = <<Script[Last(step)]>> /\ toCore = <<>> /\ expects = Last(step)
           \/ /\ toPlugin = <<"resend">> /\ toCore = <<>>
              /\ expects = Last(step) + 1 /\ lastSaid \in Fitting(step)
  BY <1>0 DEF Repairing, OneToken, Pending, Last
<1>8. phase # "talking" => lastSent \in Tells
  BY <1>0 DEF Repairing, PluginSide
<1>9. phase = "talking" /\ step = 5 => expects = 6
  BY <1>0 DEF Repairing, OneToken
<1>g. CASE got = "garbled"
  <2>1. pluginStreak = 0
    BY <1>3, <1>g DEF Repairing, AskedForCause
  <2>2. /\ pluginStreak' = 1 /\ toCore' = Append(toCore, "resend")
        /\ UNCHANGED <<expects, busy, lastSaid, stopped>>
    BY <1>1, <1>g, <2>1 DEF PluginTakes
  <2>3. NobodyAccused' /\ AskedForCause'
    BY <1>0, <1>3, <1>g, <2>2 DEF Repairing, NobodyAccused, AskedForCause
  <2>4. EndsHeard'
    <3>1. \A i \in 1..Len(toCore') : (i \in 1..Len(toCore) /\ toCore'[i] = toCore[i]) \/ toCore'[i] = "resend"
      BY <1>0, <2>2
    <3> QED
      BY <1>0, <1>4, <2>2, <3>1, LinesAreWhole DEF EndsHeard
  <2>5. PluginSide'
    BY <1>0, <1>3, <1>5, <1>8, <1>g, <2>2 DEF PluginSide
  <2>6. OneToken' /\ CoreSide'
    <3>1. CASE phase = "talking" /\ step < 5
      <4>1. toPlugin # <<"resend">>
        BY <1>2, <1>3, <1>g DEF Repairing, AskedForCause
      <4>2. toPlugin # <<Script[2], Script[3]>>
        BY <1>2, <1>3, <1>g, ScriptSteps
      <4>3. toPlugin = <<Script[Last(step)]>> /\ toCore = <<>> /\ expects = Last(step)
        BY <1>7, <3>1, <4>1, <4>2
      <4>4. toPlugin' = <<>> /\ toCore' = <<"resend">>
        BY <1>0, <2>2, <4>3
      <4> QED
        BY <1>0, <1>7, <2>2, <3>1, <4>3, <4>4 DEF OneToken, Pending, CoreSide, CorePipe
    <3>2. CASE ~(phase = "talking" /\ step < 5)
      BY <1>0, <1>9, <2>2, <3>2 DEF OneToken, CoreSide
    <3> QED
      BY <3>1, <3>2
  <2> QED
    BY <2>3, <2>4, <2>5, <2>6 DEF Repairing
<1>r. CASE got = "resend"
  <2>1. /\ pluginStreak' = 0
        /\ toCore' = IF lastSaid = "nothing" THEN toCore ELSE Append(toCore, lastSaid)
        /\ UNCHANGED <<expects, busy, lastSaid, stopped>>
    BY <1>1, <1>r DEF PluginTakes
  <2>2. garbledLines' = garbledLines /\ garbledLines # <<>> /\ Head(toPlugin) = "resend"
    BY <1>2, <1>3, <1>r DEF Repairing, AskedForCause
  <2>3. NobodyAccused' /\ AskedForCause'
    BY <1>0, <2>1, <2>2 DEF Repairing, NobodyAccused, AskedForCause
  <2>4. lastSaid \notin Finishes
    BY <1>4 DEF Repairing, EndsHeard
  <2>5. EndsHeard'
    <3>1. \A i \in 1..Len(toCore') : (i \in 1..Len(toCore) /\ toCore'[i] = toCore[i]) \/ toCore'[i] = lastSaid
      BY <1>0, <2>1
    <3> QED
      BY <1>0, <1>4, <2>1, <2>4, <3>1 DEF EndsHeard
  <2>6. PluginSide'
    BY <1>0, <1>5, <1>8, <2>1, <2>2 DEF PluginSide
  <2>7. OneToken' /\ CoreSide'
    <3>1. CASE phase = "talking" /\ step < 5
      <4>1. Script[Last(step)] # "resend" /\ Script[2] # "resend"
        BY <1>7, <3>1, LinesAreWhole
      <4>2. toPlugin = <<"resend">> /\ toCore = <<>> /\ expects = Last(step) + 1 /\ lastSaid \in Fitting(step)
        BY <1>2, <1>7, <2>2, <3>1, <4>1
      <4>3. lastSaid # "nothing"
        BY <1>0, <3>1, <4>2, AnswerSteps DEF Fitting
      <4>4. toPlugin' = <<>> /\ toCore' = <<lastSaid>>
        BY <1>0, <2>1, <4>2, <4>3
      <4> QED
        BY <1>0, <1>7, <2>1, <3>1, <4>2, <4>4 DEF OneToken, Pending, CoreSide, CorePipe
    <3>2. CASE ~(phase = "talking" /\ step < 5)
      BY <1>0, <1>9, <2>1, <3>2 DEF OneToken, CoreSide
    <3> QED
      BY <3>1, <3>2
  <2> QED
    BY <2>3, <2>5, <2>6, <2>7 DEF Repairing
<1>s. CASE got \in Tells
  <2>1. Quiet /\ UNCHANGED <<expects, busy>> /\ stopped' \in {"cancel", "core"} /\ pluginStreak' = 0
    <3>1. expects < Working => got # Script[expects]
      BY <1>0, <1>s, ScriptSteps, LinesAreWhole
    <3> QED
      BY <1>1, <1>s, <3>1 DEF PluginTakes, Tells, Stop
  <2>2. UNCHANGED <<toCore, lastSaid, garbledLines>>
    BY <1>3, <1>s, <2>1, LinesAreWhole DEF Quiet
  <2> QED
    BY <1>0, <1>6, <2>1, <2>2
    DEF Repairing, NobodyAccused, AskedForCause, OneToken, PluginSide, CoreSide, EndsHeard
<1>e. CASE expects < 6 /\ got = Script[expects]
  <2>1. CarryOut(expects) /\ pluginStreak' = 0
    BY <1>0, <1>1, <1>e, LinesAreWhole, ScriptSteps DEF PluginTakes, Tells
  <2>2. /\ expects' = expects + 1 /\ stopped' = "no" /\ UNCHANGED garbledLines
        /\ busy' <=> expects \in {4, 5}
        /\ \/ expects = 1 /\ \E line \in {"handshake_ack", "other_kind"} : Say(line)
           \/ expects = 3 /\ Say("capabilities_response")
           \/ expects \in {2, 4, 5} /\ Quiet
    <3>1. expects \in 1..5 /\ got # "garbled"
      BY <1>0, <1>e, LinesAreWhole
    <3>2. busy' = (Script[expects] \in {"configure", "start"})
      BY <2>1 DEF CarryOut
    <3>3. busy' <=> Script[expects] \in {"configure", "start"}
      BY <3>2
    <3>4. Script[expects] \in {"configure", "start"} <=> expects \in {4, 5}
      BY <3>1, ScriptSteps
    <3>5. \/ expects = 1 /\ \E line \in {"handshake_ack", "other_kind"} : Say(line)
          \/ expects = 3 /\ Say("capabilities_response")
          \/ expects \in {2, 4, 5} /\ Quiet
      BY <2>1, <3>1, ScriptSteps DEF CarryOut
    <3> QED
      BY <1>0, <1>3, <2>1, <3>1, <3>3, <3>4, <3>5 DEF CarryOut
  <2>3. NobodyAccused' /\ PluginSide'
    BY <1>0, <1>3, <1>5, <1>8, <1>e, <2>2, LinesAreWhole DEF Repairing, NobodyAccused, PluginSide
  <2>4. UNCHANGED toCore \/ \E line \in {"handshake_ack", "other_kind", "capabilities_response"} : toCore' = Append(toCore, line)
    BY <2>2 DEF Say, Quiet
  <2>5. \A i \in 1..Len(toCore') :
          (i \in 1..Len(toCore) /\ toCore'[i] = toCore[i]) \/ toCore'[i] \in {"handshake_ack", "other_kind", "capabilities_response"}
    <3>1. ASSUME NEW line, toCore' = Append(toCore, line)
          PROVE  \A i \in 1..Len(toCore') : (i \in 1..Len(toCore) /\ toCore'[i] = toCore[i]) \/ toCore'[i] = line
      BY <1>0, <3>1
    <3> QED
      BY <1>0, <2>4, <3>1
  <2>6. EndsHeard' /\ AskedForCause'
    <3>1. lastSaid' \in {lastSaid, "handshake_ack", "other_kind", "capabilities_response"}
      BY <2>2 DEF Say, Quiet
    <3>2. EndsHeard'
      BY <1>0, <1>4, <2>5, <3>1 DEF EndsHeard, Finishes
    <3>3. AskedForCause'
      BY <1>0, <1>6, <2>1, <2>2, <2>5 DEF Repairing, AskedForCause
    <3> QED
      BY <3>2, <3>3
  <2>7. OneToken' /\ CoreSide'
    <3>1. CASE phase = "talking" /\ step < 5
      <4>1. Head(toPlugin) = Script[expects] /\ expects \in 1..5
        BY <1>0, <1>3, <1>e, LinesAreWhole
      <4>2. CASE step = 2 /\ expects = 2
        <5>1. toPlugin = <<Script[2], Script[3]>> /\ toCore = <<>>
          BY <1>7, <1>2, <3>1, <4>1, <4>2, LinesAreWhole DEF Last
        <5>2. toPlugin' = <<Script[3]>> /\ UNCHANGED <<toCore, lastSaid>>
          BY <1>0, <2>2, <4>2, <5>1 DEF Quiet
        <5> QED
          BY <1>0, <1>7, <2>2, <3>1, <4>2, <5>1, <5>2 DEF OneToken, Pending, Last, CoreSide, CorePipe
      <4>3. CASE ~(step = 2 /\ expects = 2)
        <5>1. toPlugin = <<Script[Last(step)]>> /\ toCore = <<>> /\ expects = Last(step)
          BY <1>7, <1>2, <3>1, <4>1, <4>3, LinesAreWhole
        <5>2. toPlugin' = <<>>
          BY <1>0, <5>1
        <5>3. CASE step = 1
          <6>1. expects = 1
            BY <5>1, <5>3 DEF Last
          <6>2. toCore' = <<lastSaid'>> /\ lastSaid' \in {"handshake_ack", "other_kind"}
            BY <1>0, <2>2, <5>1, <6>1 DEF Say
          <6>3. lastSaid' \in Fitting(1)
            BY <6>2, AnswerSteps DEF Fitting
          <6> QED
            BY <1>0, <1>7, <2>2, <3>1, <5>2, <5>3, <6>1, <6>2, <6>3 DEF OneToken, Pending, Last, CoreSide, CorePipe
        <5>4. CASE step = 2
          <6>1. expects = 3
            BY <5>1, <5>4 DEF Last
          <6>2. toCore' = <<lastSaid'>> /\ lastSaid' = "capabilities_response"
            BY <1>0, <2>2, <5>1, <6>1 DEF Say
          <6>3. lastSaid' \in Fitting(2)
            BY <6>2, AnswerSteps DEF Fitting
          <6> QED
            BY <1>0, <1>7, <2>2, <3>1, <5>2, <5>4, <6>1, <6>2, <6>3 DEF OneToken, Pending, Last, CoreSide, CorePipe
        <5>5. CASE step \in {3, 4}
          <6>1. expects \in {4, 5} /\ UNCHANGED toCore
            BY <2>2, <5>1, <5>5 DEF Last, Quiet
          <6> QED
            BY <1>0, <1>7, <2>2, <3>1, <5>1, <5>2, <5>5, <6>1 DEF OneToken, Pending, Last, CoreSide, CorePipe
        <5> QED
          BY <1>0, <3>1, <5>3, <5>4, <5>5
      <4> QED
        BY <4>2, <4>3
    <3>2. CASE ~(phase = "talking" /\ step < 5)
      BY <1>0, <1>9, <1>e, <3>2 DEF OneToken, CoreSide
    <3> QED
      BY <3>1, <3>2
  <2> QED
    BY <2>3, <2>6, <2>7 DEF Repairing
<1>w. CASE expects = 6 /\ got \notin Tells \cup {"garbled", "resend"}
  <2>1. Quiet /\ UNCHANGED <<expects, busy, stopped>> /\ pluginStreak' = 0 /\ UNCHANGED garbledLines
    BY <1>1, <1>3, <1>w, ScriptSteps DEF PluginTakes, Tells
  <2>2. NobodyAccused' /\ AskedForCause' /\ EndsHeard' /\ CoreSide' /\ PluginSide'
    BY <1>0, <1>4, <1>6, <1>8, <1>w, <2>1
    DEF Repairing, NobodyAccused, AskedForCause, EndsHeard, CoreSide, PluginSide, Quiet
  <2>3. OneToken'
    <3>1. CASE phase = "talking" /\ step < 5
      <4>1. toPlugin = <<"resend">>
        BY <1>0, <1>7, <1>w, <3>1 DEF Last
      <4> QED
        BY <1>2, <1>3, <1>w, <4>1
    <3>2. CASE ~(phase = "talking" /\ step < 5)
      BY <1>0, <1>w, <2>1, <3>2 DEF OneToken
    <3> QED
      BY <3>1, <3>2
  <2> QED
    BY <2>2, <2>3 DEF Repairing
<1> QED
  BY <1>0, <1>3, <1>5, <1>g, <1>r, <1>s, <1>e, <1>w

\* What is written behind the lines in the core's pipe.
LEMMA CorePipeLines ==
  ASSUME NEW q \in Seq(ToCore), NEW x
  PROVE  \A i \in 1..Len(Append(q, x)) : (i \in 1..Len(q) /\ Append(q, x)[i] = q[i]) \/ Append(q, x)[i] = x
OBVIOUS

\* The answers to configure and start go out when their request is carried
\* out, and nothing else is on its way.
LEMMA AnswersRepair == ChannelInv /\ Repairing /\ (Configures \/ Starts) => Repairing'
<1> SUFFICES ASSUME ChannelInv, Repairing, Configures \/ Starts PROVE Repairing'
  OBVIOUS
<1>0. /\ ~gone /\ stopped = "no" /\ busy /\ ~busy' /\ toCore \in Seq(ToCore) /\ step \in 1..5 /\ asked \in BOOLEAN
      /\ UNCHANGED <<toPlugin, garbledLines, step, asked, lastSent, coreStreak, heard, phase, failure,
                     expects, said, pluginStreak, gone>>
  BY AnswerSteps DEF Configures, Starts, Alive, coreVars, ChannelInv, TypeOK
<1>1. \/ /\ expects = 5
         /\ \/ Say("configure_ack") /\ UNCHANGED stopped
            \/ Say("configure_error") /\ stopped' = "fatal"
      \/ /\ expects = 6
         /\ \/ Say("ready") /\ UNCHANGED stopped
            \/ Quiet /\ stopped' = "fatal"
  <2>1. expects \in 1..6 /\ (expects < 5 => ~busy)
    BY ScriptSteps DEF ChannelInv, TypeOK, CarriedOut
  <2>2. Script[expects - 1] \in {"configure", "start"} => expects \in {5, 6}
    BY <1>0, <2>1
  <2>3. Script[5 - 1] = "configure" /\ Script[6 - 1] = "start"
    BY ScriptSteps
  <2> QED
    BY <2>2, <2>3 DEF Configures, Starts, Stop
<1>2. /\ said = "nothing" /\ heard = "nothing" /\ lastSaid \notin Finishes
      /\ \A i \in 1..Len(toCore) : toCore[i] \notin Finishes
  BY <1>0, GoesOnUnheard DEF Repairing
<1>3. Quiet \/ \E line \in {"configure_ack", "configure_error", "ready"} : Say(line)
  BY <1>1
<1>4. /\ lastSaid' \in {lastSaid, "configure_ack", "configure_error", "ready"}
      /\ \A i \in 1..Len(toCore') :
           (i \in 1..Len(toCore) /\ toCore'[i] = toCore[i]) \/ toCore'[i] \in {"configure_ack", "configure_error", "ready"}
  BY <1>0, <1>3, CorePipeLines DEF Say, Quiet
<1>5. EndsHeard'
  BY <1>0, <1>2, <1>4 DEF EndsHeard, Finishes
<1>6. AskedForCause' /\ NobodyAccused' /\ PluginSide'
  BY <1>0, <1>1, <1>4 DEF Repairing, AskedForCause, NobodyAccused, PluginSide
<1>7. OneToken' /\ CoreSide'
  <2>1. CASE phase = "talking" /\ step < 5
    <3>1. asked /\ lastSent = Script[Last(step)] /\ Pending
      BY <1>0, <2>1 DEF Repairing, OneToken
    <3>2. toPlugin = <<>> /\ toCore = <<>> /\ step \in {3, 4} /\ expects = Last(step) + 1
      BY <1>0, <3>1 DEF Pending
    <3>3. CASE Quiet
      BY <1>0, <1>1, <3>1, <3>2, <3>3, <2>1 DEF Quiet, Say, OneToken, CoreSide, CorePipe
    <3>4. ASSUME NEW line, Say(line), line \in Fitting(step)
          PROVE  OneToken' /\ CoreSide'
      <4>1. toCore' = <<line>> /\ lastSaid' = line
        BY <3>2, <3>4 DEF Say
      <4> QED
        BY <1>0, <2>1, <3>1, <3>2, <3>4, <4>1 DEF OneToken, Pending, CoreSide, CorePipe
    <3>5. "configure_ack" \in Fitting(3) /\ "configure_error" \in Fitting(3) /\ "ready" \in Fitting(4)
      BY AnswerSteps DEF Fitting
    <3>6. (expects = 5 => step = 3) /\ (expects = 6 => step = 4)
      BY <3>2 DEF Last
    <3> QED
      BY <1>1, <3>3, <3>4, <3>5, <3>6
  <2>2. CASE ~(phase = "talking" /\ step < 5)
    BY <1>0, <2>2 DEF Repairing, OneToken, CoreSide
  <2> QED
    BY <2>1, <2>2
<1> QED
  BY <1>5, <1>6, <1>7 DEF Repairing

\* An end goes out when no request is pending, or when the plugin has stopped.
LEMMA EndsRepair == ChannelInv /\ Repairing /\ (WorkEnds \/ Concludes) => Repairing'
<1> SUFFICES ASSUME ChannelInv, Repairing, WorkEnds \/ Concludes PROVE Repairing'
  OBVIOUS
<1>0. /\ toCore \in Seq(ToCore) /\ step \in 1..5 /\ stopped' # "no" /\ stopped' # "violation"
      /\ UNCHANGED <<toPlugin, garbledLines, step, asked, lastSent, coreStreak, heard, phase, failure, pluginStreak>>
  BY AnswerSteps DEF WorkEnds, Concludes, Stop, coreVars, ChannelInv, TypeOK, Repairing, NobodyAccused
<1>1. \/ Quiet /\ said' = said
      \/ \E line \in Finishes : Say(line) /\ said' = line
  BY DEF WorkEnds, Concludes, Finishes
<1>2. CASE Quiet /\ said' = said
  BY <1>0, <1>2
  DEF Repairing, NobodyAccused, AskedForCause, OneToken, PluginSide, CoreSide, EndsHeard, Quiet
<1>3. ASSUME NEW line \in Finishes, Say(line), said' = line
      PROVE  Repairing'
  <2>1. toCore' = Append(toCore, line)
    BY <1>3 DEF Say
  <2>2. EndsHeard' /\ NobodyAccused' /\ OneToken' /\ PluginSide'
    BY <1>0, <1>3 DEF Repairing, EndsHeard, NobodyAccused, OneToken, PluginSide, Finishes
  <2>3. AskedForCause'
    BY <1>0, <1>3, <2>1, CorePipeLines, LinesAreWhole DEF Repairing, AskedForCause
  <2>4. CoreSide'
    <3>1. CASE phase = "talking" /\ step < 5
      <4>1. CorePipe(toCore, step, asked)
        BY <3>1 DEF Repairing, CoreSide
      <4> QED
        BY <1>0, <2>1, <4>1, CorePipeMore DEF CoreSide
    <3>2. CASE ~(phase = "talking" /\ step < 5)
      BY <1>0, <3>2 DEF CoreSide
    <3> QED
      BY <3>1, <3>2
  <2> QED
    BY <2>2, <2>3, <2>4 DEF Repairing
<1> QED
  BY <1>1, <1>2, <1>3

\* A plugin that breaks down says nothing.
LEMMA BreakdownRepairs == ChannelInv /\ Repairing /\ (Crashes \/ Hangs) => Repairing'
<1> SUFFICES ASSUME ChannelInv, Repairing, Crashes \/ Hangs PROVE Repairing'
  OBVIOUS
<1>1. /\ gone' \/ UNCHANGED gone
      /\ UNCHANGED <<toPlugin, toCore, garbledLines, step, asked, lastSent, coreStreak, heard, phase, failure,
                     expects, busy, said, lastSaid, pluginStreak, stopped>>
  BY DEF Crashes, Hangs, pipeVars, coreVars
<1> QED
  BY <1>1 DEF Repairing, NobodyAccused, AskedForCause, OneToken, Pending, PluginSide, CoreSide, EndsHeard

----------------------------------------------------------------------------
(* And nobody is taken for what he is not *)

\* The words that are no last ones.
LEMMA OtherWords ==
  /\ LastWords \cap {"resend", "garbled", "nothing", "handshake_ack", "other_kind", "capabilities_response",
                     "configure_ack", "ready"} = {}
  /\ \A e \in 1..5 : Script[e] \notin Tells
  BY LinesAreWhole DEF LastWords, Finishes

\* What a plugin that goes on has not said, and is not blamed for.
LEMMA GoesOnUnblamed ==
  ASSUME ChannelInv, Ending, stopped = "no"
  PROVE  /\ said = "nothing" /\ lastSaid \notin LastWords
         /\ \A i \in 1..Len(toCore) : toCore[i] \notin Finishes
         /\ ~gone => failure \notin {"process", "failed"}
<1>1. said = "nothing"
  BY DEF ChannelInv, EndsOnce
<1>2. "nothing" \notin Finishes
  BY DEF Finishes
<1> QED BY <1>1, <1>2 DEF Ending, EndsTrue, Blame, LastWords

\* A request is written to a plugin that has not reported its end.
LEMMA AskEnds == ChannelInv /\ Repairing /\ Ending /\ Ask => Ending'
<1> SUFFICES ASSUME ChannelInv, Repairing, Ending, Ask PROVE Ending'
  OBVIOUS
<1>0. /\ phase = "talking" /\ ~asked /\ step \in 1..4 /\ expects \in 1..6
      /\ UNCHANGED <<toCore, garbledLines, step, coreStreak, heard, pluginVars>>
  BY ScriptSteps, AnswerSteps DEF Ask, ChannelInv, TypeOK
<1>1. expects <= First(step) /\ First(step) \in 1..5 /\ First(step) <= Last(step) + 1
  BY <1>0 DEF Ending, Distance, First, Last
<1>2. CASE gone
  <2>1. phase' = "aborting" /\ failure' = "process" /\ UNCHANGED <<toPlugin, lastSent, asked>>
    BY <1>2 DEF Ask
  <2>2. lastSaid \notin Finishes
    <3> SUFFICES ASSUME lastSaid \in Finishes PROVE FALSE
      OBVIOUS
    <3>1. said # "nothing"
      BY DEF Ending, EndsTrue, Finishes
    <3>2. stopped \in {"done", "fatal"}
      BY <1>0, <3>1 DEF ChannelInv, EndsOnce, TypeOK, Ending, Untold, Repairing, NobodyAccused
    <3> QED BY <1>0, <1>1, <3>1, <3>2 DEF Ending, EndsTrue
  <2>3. lastSaid # "configure_error"
    <3> SUFFICES ASSUME lastSaid = "configure_error" PROVE FALSE
      OBVIOUS
    <3>1. expects = 5 /\ configured = 0
      BY DEF Ending, EndsTrue
    <3>2. step = 4
      BY <1>0, <1>1, <3>1 DEF First
    <3> QED BY <3>1, <3>2 DEF ChannelInv, CoreBehind
  <2> QED BY <1>0, <1>2, <2>1, <2>2, <2>3
          DEF pluginVars, Ending, Untold, EndsTrue, Distance, LastWordComes, ReadyFirst, Blame, LastWords
<1>3. CASE ~gone
  <2>1. /\ toPlugin' = toPlugin \o Requests[step] /\ lastSent' = Requests[step][Len(Requests[step])]
        /\ asked' /\ UNCHANGED <<phase, failure>>
    BY <1>3 DEF Ask
  <2>2. /\ toPlugin \in Seq(ToPlugin) /\ Requests[step] \in Seq(ToPlugin)
        /\ Len(Requests[step]) \in 1..Len(Requests[step])
        /\ \A i \in 1..Len(Requests[step]) : Requests[step][i] \notin Tells
    <3>1. Requests[step] \in Seq(ToPlugin) /\ Len(Requests[step]) \in 1..2
      BY <1>0, RequestLines, AnswerSteps
    <3>2. \A t \in {"handshake", "set_protocol_version", "capabilities_request", "configure", "start"} : t \notin Tells
      BY DEF Tells
    <3>3. \A i \in 1..Len(Requests[step]) :
            Requests[step][i] \in {"handshake", "set_protocol_version", "capabilities_request", "configure", "start"}
      <4>1. CASE step = 1
        BY <4>1 DEF Requests
      <4>2. CASE step = 2
        BY <4>2 DEF Requests
      <4>3. CASE step = 3
        BY <4>3 DEF Requests
      <4>4. CASE step = 4
        BY <4>4 DEF Requests
      <4> QED BY <1>0, <4>1, <4>2, <4>3, <4>4
    <3>4. toPlugin \in Seq(ToPlugin)
      BY DEF ChannelInv, TypeOK
    <3>5. Len(Requests[step]) \in 1..Len(Requests[step])
      <4>1. \A n \in 1..2 : n \in 1..n
        OBVIOUS
      <4> QED BY <3>1, <4>1
    <3> QED BY <3>1, <3>2, <3>3, <3>4, <3>5
  <2>3. lastSent' \notin Tells /\ \A i \in 1..Len(toPlugin') : toPlugin'[i] \notin Tells
    <3>1. \A i \in 1..Len(toPlugin \o Requests[step]) :
            \/ i \in 1..Len(toPlugin) /\ (toPlugin \o Requests[step])[i] = toPlugin[i]
            \/ i - Len(toPlugin) \in 1..Len(Requests[step])
               /\ (toPlugin \o Requests[step])[i] = Requests[step][i - Len(toPlugin)]
      BY <2>2
    <3> QED BY <1>0, <2>1, <2>2, <3>1 DEF Ending, Untold
  <2>4. Untold'
    BY <1>0, <2>1, <2>3 DEF pluginVars, Ending, Untold
  <2>5. Distance'
    <3>1. Last(step) \in 1..5
      BY <1>0 DEF Last
    <3>2. expects <= Last(step) + 1
      BY <1>0, <1>1, <3>1
    <3>3. asked' /\ step' = step /\ expects' = expects
      BY <1>0, <2>1 DEF pluginVars
    <3> QED BY <3>2, <3>3 DEF Distance, Last
  <2>6. EndsTrue' /\ LastWordComes' /\ ReadyFirst' /\ Blame'
    BY <1>0, <2>1 DEF pluginVars, Ending, EndsTrue, LastWordComes, LastWordGarbled, ReadyFirst, Blame
  <2> QED BY <2>4, <2>5, <2>6 DEF Ending
<1> QED BY <1>2, <1>3

\* The core reads the last word of a plugin before its end, unless it is
\* garbled, and blames the plugin for what it reported.
LEMMA HearsEnds == ChannelInv /\ Repairing /\ Ending /\ CoreHears /\ ~BeyondRepair' => Ending'
<1> SUFFICES ASSUME ChannelInv, Repairing, Ending, CoreHears, ~BeyondRepair' PROVE Ending'
  OBVIOUS
<1>0. /\ TypeOK /\ phase = "talking" /\ step \in 1..5 /\ (step < 5 => asked) /\ toCore # <<>> /\ toCore \in Seq(ToCore)
      /\ toPlugin \in Seq(ToPlugin) /\ expects \in 1..6 /\ coreStreak \in 0..1
      /\ UNCHANGED <<expects, busy, configured, said, lastSaid, pluginStreak, stopped, gone>>
      /\ toCore' = Tail(toCore)
  BY ScriptSteps, AnswerSteps DEF CoreHears, Listening, pluginVars, ChannelInv, TypeOK
<1>1. PICK got \in ToCore \cup {"garbled"} : Arrives(Head(toCore), got) /\ CoreTakes(got)
  BY DEF CoreHears
<1>2. /\ Head(toCore) = toCore[1] /\ 1 \in 1..Len(toCore) /\ Head(toCore) \in ToCore
      /\ \A i \in 1..Len(toCore') : toCore'[i] = toCore[i + 1] /\ i + 1 \in 1..Len(toCore)
  BY <1>0, TailOfPipe
<1>3. /\ got # "garbled" => got = Head(toCore) /\ UNCHANGED garbledLines
      /\ got = "garbled" => garbledLines = <<>> /\ garbledLines' = <<Head(toCore)>>
  BY <1>0, <1>1, <1>2, GarbledOnce
<1>4. EndsTrue'
  BY <1>0, <1>2 DEF Ending, EndsTrue
<1>5. failure = "none" /\ heard = "nothing" /\ lastSent \notin Tells
  BY <1>0 DEF Ending, Blame, Untold
<1>6. LastWordComes' \/ (lastSaid \in LastWords /\ got = lastSaid /\ phase' = "talking")
  <2> SUFFICES ASSUME lastSaid \in LastWords, got # lastSaid, ~LastWordGarbled'
               PROVE  toCore' # <<>> /\ toCore'[Len(toCore')] = lastSaid
    BY <1>0 DEF LastWordComes
  <2>1. Head(toCore) # lastSaid
    BY <1>3 DEF LastWordGarbled
  <2>2. ~LastWordGarbled
    <3>1. ASSUME NEW word, garbledLines = <<word>> PROVE garbledLines # <<>>
      BY <3>1
    <3> QED BY <1>3, <3>1 DEF LastWordGarbled
  <2>3. toCore[Len(toCore)] = lastSaid
    BY <1>0, <2>2 DEF Ending, LastWordComes
  <2>4. Len(toCore) # 1 /\ Len(toCore) \in Nat /\ Len(toCore) >= 1
    BY <1>0, <1>2, <2>1, <2>3
  <2>5. Len(toCore') = Len(toCore) - 1
    BY <1>0
  <2>6. Len(toCore') \in 1..Len(toCore') /\ Len(toCore') + 1 = Len(toCore)
    BY <2>4, <2>5
  <2>7. toCore'[Len(toCore')] = toCore[Len(toCore)]
    BY <1>2, <2>6
  <2>8. toCore' # <<>>
    BY <2>6
  <2> QED BY <2>3, <2>7, <2>8
<1>7. ReadyFirst' \/ got = "ready"
  <2> SUFFICES ASSUME step' < 5, phase' = "talking", said = "success", got # "ready", garbledLines' # <<"ready">>
               PROVE  FALSE
    BY <1>0 DEF ReadyFirst
  <2>1. Head(toCore) # "ready" /\ garbledLines # <<"ready">>
    BY <1>3
  <2>2. step < 5
    BY <1>0, <1>1, <2>1 DEF CoreTakes, NextStep, FailWith
  <2> QED BY <1>0, <1>2, <2>1, <2>2 DEF Ending, ReadyFirst
<1>8. Distance'
  <2> SUFFICES ASSUME phase' = "talking", step' < 5
               PROVE  expects <= (IF asked' THEN Last(step') + 1 ELSE First(step'))
    BY <1>0 DEF Distance
  <2>1. \/ step' = step /\ asked' = asked
        \/ step < 5 /\ step' = step + 1 /\ ~asked'
    BY <1>1, AnswerSteps DEF CoreTakes, NextStep
  <2>2. step < 5 => expects <= Last(step) + 1
    BY <1>0 DEF Ending, Distance
  <2> QED BY <1>0, <2>1, <2>2 DEF First, Last
<1>9. \A q \in {toPlugin, Append(toPlugin, "resend"), Append(toPlugin, lastSent)} : \A i \in 1..Len(q) : q[i] \notin Tells
  <2>1. \A i \in 1..Len(toPlugin) : toPlugin[i] \notin Tells
    BY <1>0 DEF Ending, Untold
  <2>2. ASSUME NEW x, x \notin Tells PROVE \A i \in 1..Len(Append(toPlugin, x)) : Append(toPlugin, x)[i] \notin Tells
    <3>1. \A i \in 1..Len(Append(toPlugin, x)) :
            (i \in 1..Len(toPlugin) /\ Append(toPlugin, x)[i] = toPlugin[i]) \/ Append(toPlugin, x)[i] = x
      BY <1>0
    <3> QED BY <2>1, <2>2, <3>1
  <2> QED BY <1>5, <2>1, <2>2, LinesAreWhole
<1>g. CASE got \in {"garbled", "resend"}
  <2>1. got = "garbled" => coreStreak = 0
    BY <1>3 DEF Repairing, AskedForCause
  <2>2. (AskAgain \/ SendAgain) /\ UNCHANGED <<step, asked, heard, phase, failure>>
    BY <1>1, <1>g, <2>1 DEF CoreTakes, Finishes
  <2>3. Untold' /\ Blame'
    BY <1>0, <1>5, <1>9, <2>2 DEF Ending, Untold, Blame, AskAgain, SendAgain
  <2> QED BY <1>4, <1>6, <1>7, <1>8, <1>g, <2>3, OtherWords DEF Ending
<1>f. CASE got \in Finishes
  <2>1. got = Head(toCore) /\ said = got /\ UNCHANGED garbledLines
    BY <1>2, <1>3, <1>f, LinesAreWhole DEF Ending, EndsTrue
  <2>2. /\ phase' = "aborting" /\ heard' = got
        /\ \/ got = "success" /\ step = 5 /\ UNCHANGED failure
           \/ ~(got = "success" /\ step = 5) /\ failure' = "failed"
    BY <1>1, <1>f, LinesAreWhole, AnswerSteps DEF CoreTakes, FailWith
  <2>3. got = "error" => stopped = "fatal"
    BY <2>1 DEF Ending, EndsTrue, Repairing, NobodyAccused
  <2>4. got # "cancelled"
    BY <1>0, <2>1 DEF Ending, EndsTrue, Untold
  <2>5. got = "success" /\ step # 5 => garbledLines = <<"ready">>
    BY <1>0, <1>2, <2>1 DEF Ending, ReadyFirst
  <2>6. Blame'
    BY <1>0, <1>5, <1>f, <2>1, <2>2, <2>3, <2>4, <2>5 DEF Blame, Finishes
  <2> QED BY <1>4, <2>2, <2>6 DEF Ending, Untold, Distance, LastWordComes, ReadyFirst
<1>a. CASE got \notin Finishes \cup {"garbled", "resend"}
  <2>1. Repairing'
    BY HearsRepairs
  <2>2. /\ got = Head(toCore) /\ UNCHANGED <<heard, garbledLines>>
        /\ \/ step < 5 /\ got = Answers[step] /\ NextStep
           \/ phase' = "aborting" /\ failure' \in {"incompatible", "rejected", "protocol"}
           \/ step = 5 /\ UNCHANGED <<step, asked, toPlugin, lastSent, phase, failure>>
    BY <1>1, <1>3, <1>a, AnswerSteps DEF CoreTakes, FailWith
  <2>3. CASE step < 5 /\ got = Answers[step] /\ NextStep
    <3>1. step' = step + 1 /\ UNCHANGED <<toPlugin, lastSent, phase, failure>>
      BY <2>3 DEF NextStep
    <3>2. got \notin LastWords
      <4>1. step \in 1..4
        BY <1>0, <2>3
      <4> QED BY <2>3, <4>1, AnswerSteps, OtherWords
    <3>3. ReadyFirst'
      <4>1. got = "ready" => step = 4
        <5>1. step \in 1..4
          BY <1>0, <2>3
        <5>2. step \in {1, 2, 3} => Answers[step] # "ready"
          BY AnswerSteps
        <5> QED BY <2>3, <5>1, <5>2
      <4> QED BY <1>7, <3>1, <4>1 DEF ReadyFirst
    <3>4. Untold' /\ Blame'
      BY <1>0, <1>5, <2>2, <3>1 DEF Ending, Untold, Blame
    <3> QED BY <1>4, <1>6, <1>8, <3>2, <3>3, <3>4 DEF Ending
  <2>4. CASE phase' = "aborting" /\ failure' \in {"incompatible", "rejected", "protocol"}
    BY <1>4, <2>4 DEF Ending, Untold, Distance, LastWordComes, ReadyFirst, Blame
  <2>5. CASE step = 5 /\ UNCHANGED <<step, asked, toPlugin, lastSent, phase, failure>>
    <3>1. got # lastSaid \/ lastSaid \notin LastWords
      <4>1. configured = 1
        BY <2>5 DEF ChannelInv, CoreBehind
      <4>2. lastSaid # "configure_error"
        BY <4>1 DEF Ending, EndsTrue
      <4> QED BY <1>a, <4>2 DEF LastWords
    <3>2. Untold' /\ Blame' /\ ReadyFirst'
      BY <1>0, <1>5, <2>2, <2>5 DEF Ending, Untold, Blame, ReadyFirst
    <3> QED BY <1>4, <1>6, <1>8, <3>1, <3>2 DEF Ending
  <2> QED BY <2>2, <2>3, <2>4, <2>5
<1> QED BY <1>g, <1>f, <1>a

\* Whatever else the core does, it blames a plugin only that is gone without a
\* last word, or whose last word was garbled.
LEMMA CoreEnds ==
  ASSUME ChannelInv, Repairing, Ending,
         CoreSeesEnd \/ CoreTimesOut \/ AbortElsewhere \/ WindDown \/ WindDownSeesEnd \/ Kill \/ Reap,
         ~BeyondRepair'
  PROVE  Ending'
<1>1. CASE CoreSeesEnd
  <2>1. /\ phase = "talking" /\ toCore = <<>> /\ gone /\ phase' = "aborting" /\ failure' = "failed"
        /\ UNCHANGED <<pipeVars, heard, pluginVars>>
    BY <1>1 DEF CoreSeesEnd, Listening
  <2>2. heard = "nothing" /\ (lastSaid \in LastWords => LastWordGarbled)
    BY <2>1 DEF Ending, Untold, LastWordComes
  <2> QED BY <2>1, <2>2 DEF pipeVars, pluginVars, Ending, Untold, EndsTrue, Distance, LastWordComes, LastWordGarbled, ReadyFirst, Blame
<1>2. CASE CoreTimesOut \/ AbortElsewhere
  <2>1. phase' = "aborting" /\ failure' \in {"timeout", "elsewhere"} /\ UNCHANGED <<toCore, pluginVars>>
    BY <1>2 DEF CoreTimesOut, AbortElsewhere, FailWith
  <2> QED BY <2>1 DEF pluginVars, Ending, Untold, EndsTrue, Distance, LastWordComes, ReadyFirst, Blame
<1>3. CASE WindDown
  <2>1. /\ phase = "aborting" /\ toCore # <<>> /\ toCore' = Tail(toCore) /\ UNCHANGED <<failure, pluginVars>>
        /\ toCore \in Seq(ToCore) /\ phase' \in {"aborting", "waiting"}
    BY <1>3 DEF WindDown, ChannelInv, TypeOK
  <2>2. /\ Head(toCore) = toCore[1] /\ 1 \in 1..Len(toCore) /\ Head(toCore) \in ToCore
        /\ \A i \in 1..Len(toCore') : toCore'[i] = toCore[i + 1] /\ i + 1 \in 1..Len(toCore)
    BY <2>1, TailOfPipe
  <2>3. EndsTrue'
    BY <2>1, <2>2 DEF pluginVars, Ending, EndsTrue
  <2>4. heard' = heard \/ heard' = said
    <3>1. PICK got \in ToCore \cup {"garbled"} :
            Arrives(Head(toCore), got) /\ (heard' = heard \/ (got \in Finishes /\ heard' = got))
      BY <1>3 DEF WindDown
    <3>2. got \in Finishes => got = Head(toCore)
      BY <3>1, LinesAreWhole DEF Arrives
    <3> QED BY <2>2, <3>1, <3>2 DEF Ending, EndsTrue
  <2>5. garbledLines = <<"ready">> => garbledLines' = garbledLines
    <3>1. PICK got \in ToCore \cup {"garbled"} : Arrives(Head(toCore), got)
      BY <1>3 DEF WindDown
    <3>2. got = "garbled" => garbledLines = <<>>
      BY <2>2, <3>1, GarbledOnce DEF ChannelInv
    <3>3. got # "garbled" => UNCHANGED garbledLines
      BY <2>2, <3>1, GarbledOnce DEF ChannelInv
    <3>4. <<"ready">> # <<>>
      OBVIOUS
    <3> QED BY <3>2, <3>3, <3>4
  <2> QED BY <2>1, <2>3, <2>4, <2>5 DEF pluginVars, Ending, Untold, Distance, LastWordComes, ReadyFirst, Blame
<1>4. CASE WindDownSeesEnd \/ Kill \/ Reap
  <2>1. /\ phase # "talking" /\ phase' # "talking" /\ gone'
        /\ UNCHANGED <<pipeVars, heard, failure, expects, configured, said, lastSaid, stopped>>
    BY <1>4 DEF WindDownSeesEnd, Kill, Reap, pluginVars
  <2> QED BY <2>1 DEF pipeVars, Ending, Untold, EndsTrue, Distance, LastWordComes, LastWordGarbled, ReadyFirst, Blame
<1> QED BY <1>1, <1>2, <1>3, <1>4

\* A plugin that hears is none that has said its last word.
LEMMA PluginHearsEnds == ChannelInv /\ Repairing /\ Ending /\ PluginHears /\ ~BeyondRepair' => Ending'
<1> SUFFICES ASSUME ChannelInv, Repairing, Ending, PluginHears, ~BeyondRepair' PROVE Ending'
  OBVIOUS
<1>0. /\ TypeOK /\ ~gone /\ stopped = "no" /\ ~busy /\ toPlugin # <<>> /\ toPlugin \in Seq(ToPlugin)
      /\ toCore \in Seq(ToCore) /\ expects \in 1..6 /\ step \in 1..5 /\ asked \in BOOLEAN
      /\ UNCHANGED <<step, asked, lastSent, heard, phase, failure, configured, said, gone>>
      /\ toPlugin' = Tail(toPlugin)
  BY ScriptSteps, AnswerSteps DEF PluginHears, Alive, coreVars, ChannelInv, TypeOK
<1>1. PICK got \in ToPlugin \cup {"garbled"} : Arrives(Head(toPlugin), got) /\ PluginTakes(got)
  BY DEF PluginHears
<1>2. /\ Head(toPlugin) = toPlugin[1] /\ 1 \in 1..Len(toPlugin) /\ Head(toPlugin) \in ToPlugin
      /\ \A i \in 1..Len(toPlugin') : toPlugin'[i] = toPlugin[i + 1] /\ i + 1 \in 1..Len(toPlugin)
  BY <1>0, TailOfPipe
<1>3. got = Head(toPlugin) \/ got = "garbled"
  BY <1>1 DEF Arrives
<1>4. /\ said = "nothing" /\ lastSaid \notin LastWords /\ failure \notin {"process", "failed"}
      /\ \A i \in 1..Len(toCore) : toCore[i] \notin Finishes
  BY <1>0, GoesOnUnblamed
<1>5. /\ \/ UNCHANGED <<expects, busy>> /\ stopped' \in {"no", "violation", "cancel", "core"}
         \/ expects \in 1..5 /\ expects' = expects + 1 /\ stopped' = stopped
      /\ \/ Quiet
         \/ \E line \in {"resend", "handshake_ack", "other_kind", "capabilities_response"} :
              toCore' = Append(toCore, line) /\ lastSaid' \in {lastSaid, line}
         \/ lastSaid # "nothing" /\ toCore' = Append(toCore, lastSaid) /\ lastSaid' = lastSaid
  BY <1>0, <1>1, PluginTakesEffect
<1>6. lastSaid' \notin LastWords /\ \A i \in 1..Len(toCore') : toCore'[i] \notin Finishes
  <2>1. CASE Quiet
    BY <1>4, <2>1 DEF Quiet
  <2>2. ASSUME NEW line \in {"resend", "handshake_ack", "other_kind", "capabilities_response", lastSaid},
               toCore' = Append(toCore, line), lastSaid' \in {lastSaid, line}
        PROVE  lastSaid' \notin LastWords /\ \A i \in 1..Len(toCore') : toCore'[i] \notin Finishes
    <3>1. line \notin LastWords
      BY <1>4, OtherWords
    <3>2. \A i \in 1..Len(toCore') : (i \in 1..Len(toCore) /\ toCore'[i] = toCore[i]) \/ toCore'[i] = line
      BY <1>0, <2>2, CorePipeLines
    <3> QED BY <1>4, <2>2, <3>1, <3>2 DEF LastWords
  <2> QED BY <1>5, <2>1, <2>2
<1>7. EndsTrue' /\ LastWordComes' /\ ReadyFirst' /\ Blame'
  BY <1>0, <1>4, <1>6 DEF Ending, EndsTrue, LastWordComes, ReadyFirst, Blame, LastWords
<1>8. Untold'
  <2> SUFFICES ASSUME phase = "talking" PROVE stopped' \notin {"cancel", "core"}
    BY <1>0, <1>2 DEF Ending, Untold
  <2>1. got \notin Tells
    BY <1>0, <1>2, <1>3, LinesAreWhole DEF Ending, Untold
  <2> QED BY <1>0, <1>1, <2>1 DEF PluginTakes, CarryOut, Stop, Tells
<1>9. Distance'
  <2> SUFFICES ASSUME phase = "talking", step < 5, expects' = expects + 1, stopped' = "no"
               PROVE  expects' <= (IF asked THEN Last(step) + 1 ELSE First(step))
    BY <1>0, <1>5 DEF Ending, Distance
  <2>1. OneToken'
    BY PluginHearsRepairs DEF Repairing
  <2>2. /\ ~asked => expects' = First(step)
        /\ asked => Pending'
    BY <1>0, <2>1 DEF OneToken
  <2>3. Last(step) \in 1..5 /\ (step = 2 => Last(step) = 3)
    BY <1>0 DEF Last
  <2>4. expects' \in 2..7
    BY <1>0
  <2>5. asked => expects' \in {2, Last(step), Last(step) + 1} /\ (expects' = 2 => expects' <= Last(step) + 1)
    BY <1>0, <2>2, <2>3 DEF Pending
  <2> QED BY <2>2, <2>3, <2>4, <2>5
<1> QED BY <1>7, <1>8, <1>9 DEF Ending

\* What a plugin says last is the last line of its pipe.
LEMMA LastLine ==
  ASSUME NEW line \in ToCore, ChannelInv, toCore' = Append(toCore, line)
  PROVE  /\ toCore' # <<>> /\ toCore'[Len(toCore')] = line
         /\ \A i \in 1..Len(toCore') : (i \in 1..Len(toCore) /\ toCore'[i] = toCore[i]) \/ toCore'[i] = line
         /\ toCore = <<>> \/ toCore'[1] = toCore[1]
<1>1. toCore \in Seq(ToCore)
  BY DEF ChannelInv, TypeOK
<1> QED BY <1>1

\* The answer to configure may be the last word.
LEMMA AnswersEnd == ChannelInv /\ Ending /\ (Configures \/ Starts) => Ending'
<1> SUFFICES ASSUME ChannelInv, Ending, Configures \/ Starts PROVE Ending'
  OBVIOUS
<1>0. /\ ~gone /\ stopped = "no" /\ busy
      /\ UNCHANGED <<toPlugin, garbledLines, step, asked, lastSent, heard, phase, failure, expects, said, gone>>
  BY DEF Configures, Starts, Alive, coreVars
<1>1. /\ said = "nothing" /\ lastSaid \notin LastWords /\ failure \notin {"process", "failed"}
      /\ \A i \in 1..Len(toCore) : toCore[i] \notin Finishes
  BY <1>0, GoesOnUnblamed
<1>2. \/ /\ expects = 5 /\ configured = 0
         /\ \/ Say("configure_ack") /\ UNCHANGED stopped
            \/ Say("configure_error") /\ stopped' = "fatal" /\ UNCHANGED configured
      \/ /\ expects = 6
         /\ \/ Say("ready") /\ UNCHANGED stopped
            \/ Quiet /\ stopped' = "fatal"
  <2>1. expects \in 1..6 /\ (expects < 5 => ~busy) /\ (expects = 5 /\ busy => configured = 0)
    BY ScriptSteps DEF ChannelInv, TypeOK, CarriedOut
  <2>2. Script[expects - 1] \in {"configure", "start"} => expects \in {5, 6}
    BY <1>0, <2>1
  <2>3. Script[5 - 1] = "configure" /\ Script[6 - 1] = "start"
    BY ScriptSteps
  <2> QED
    BY <1>0, <2>1, <2>2, <2>3 DEF Configures, Starts, Stop
<1>3. Untold' /\ Distance' /\ ReadyFirst' /\ Blame'
  BY <1>0, <1>1, <1>2 DEF Ending, Untold, Distance, ReadyFirst, Blame
<1>4. CASE Quiet /\ expects = 6
  BY <1>0, <1>1, <1>3, <1>4 DEF Quiet, Ending, EndsTrue, LastWordComes, LastWords
<1>5. ASSUME NEW line \in {"configure_ack", "configure_error", "ready"}, Say(line),
             line = "configure_error" => expects = 5 /\ configured' = 0 /\ stopped' = "fatal"
      PROVE  Ending'
  <2>1. line \in ToCore /\ line \notin Finishes
    BY DEF ToCore, Finishes
  <2>2. /\ toCore' # <<>> /\ toCore'[Len(toCore')] = line /\ lastSaid' = line
        /\ \A i \in 1..Len(toCore') : (i \in 1..Len(toCore) /\ toCore'[i] = toCore[i]) \/ toCore'[i] = line
    BY <1>5, <2>1, LastLine DEF Say
  <2>3. EndsTrue' /\ LastWordComes'
    BY <1>0, <1>1, <1>5, <2>1, <2>2 DEF EndsTrue, LastWordComes
  <2> QED BY <1>3, <2>3 DEF Ending
<1>6. CASE expects = 5
  BY <1>2, <1>5, <1>6
<1>7. CASE expects = 6
  BY <1>2, <1>4, <1>5, <1>7
<1> QED BY <1>2, <1>6, <1>7

\* A plugin that ends says so once, and a success behind its ready.
LEMMA EndsEnd == ChannelInv /\ Repairing /\ Ending /\ (WorkEnds \/ Concludes) => Ending'
<1> SUFFICES ASSUME ChannelInv, Repairing, Ending, WorkEnds \/ Concludes PROVE Ending'
  OBVIOUS
<1>0. /\ ~gone /\ step \in 1..5 /\ asked \in BOOLEAN /\ expects \in 1..6
      /\ UNCHANGED <<toPlugin, garbledLines, step, asked, lastSent, heard, phase, failure, expects, configured>>
  BY AnswerSteps, ScriptSteps DEF WorkEnds, Concludes, Alive, coreVars, ChannelInv, TypeOK
<1>1. \/ /\ Quiet /\ said' = said
         /\ stopped' = stopped \/ (stopped = "no" /\ stopped' = "fatal")
         /\ gone' = gone \/ gone'
      \/ /\ said = "nothing" /\ ~gone'
         /\ \/ Say("success") /\ said' = "success" /\ stopped' = "done" /\ stopped = "no" /\ expects = 6 /\ ~busy
            \/ Say("cancelled") /\ said' = "cancelled" /\ stopped' = "cancel" /\ stopped = "cancel"
            \/ /\ Say("error") /\ said' = "error" /\ stopped' = stopped
               /\ stopped \in {"fatal", "violation"} /\ started = 1
  <2>1. CASE WorkEnds
    BY <1>0, <2>1, ScriptSteps DEF WorkEnds, Stop, ChannelInv, EndsOnce
  <2>2. CASE Concludes
    BY <1>0, <2>2 DEF Concludes
  <2> QED BY <2>1, <2>2
<1>2. Untold' /\ Distance'
  BY <1>0, <1>1 DEF Ending, Untold, Distance
<1>3. CASE /\ Quiet /\ said' = said
           /\ stopped' = stopped \/ (stopped = "no" /\ stopped' = "fatal")
  <2>1. stopped' # stopped => said = "nothing" /\ lastSaid \notin LastWords /\ failure \notin {"process", "failed"}
    BY <1>0, <1>3, GoesOnUnblamed
  <2>2. EndsTrue' /\ LastWordComes' /\ ReadyFirst'
    BY <1>0, <1>3, <2>1 DEF Quiet, Ending, EndsTrue, LastWordComes, LastWordGarbled, ReadyFirst, LastWords
  <2>3. Blame'
    BY <1>0, <1>3, <2>1 DEF Quiet, Ending, Blame, LastWordGarbled
  <2> QED BY <1>2, <2>2, <2>3 DEF Ending
<1>4. ASSUME NEW line \in Finishes, Say(line), said' = line, said = "nothing", ~gone',
             line = "success" => stopped' = "done" /\ stopped = "no" /\ expects = 6 /\ ~busy,
             line = "cancelled" => stopped' = "cancel",
             line = "error" => stopped' \in {"fatal", "violation"} /\ expects = 6
      PROVE  Ending'
  <2>1. line \in ToCore /\ line # "nothing" /\ line # "configure_error"
    BY DEF ToCore, Finishes
  <2>2. /\ toCore' # <<>> /\ toCore'[Len(toCore')] = line /\ lastSaid' = line
        /\ \A i \in 1..Len(toCore') : (i \in 1..Len(toCore) /\ toCore'[i] = toCore[i]) \/ toCore'[i] = line
        /\ toCore = <<>> \/ toCore'[1] = toCore[1]
    BY <1>4, <2>1, LastLine DEF Say
  <2>3. \A i \in 1..Len(toCore) : toCore[i] \notin Finishes
    BY <1>4 DEF Ending, EndsTrue, Finishes
  <2>4. EndsTrue' /\ LastWordComes'
    BY <1>0, <1>4, <2>1, <2>2, <2>3 DEF EndsTrue, LastWordComes, Finishes
  <2>5. Blame'
    BY <1>0, <1>4 DEF Ending, Blame
  <2>6. ReadyFirst'
    <3> SUFFICES ASSUME phase = "talking", step < 5, line = "success", garbledLines # <<"ready">>
                 PROVE  toCore'[1] = "ready"
      BY <1>0, <1>4, <2>2 DEF ReadyFirst
    <3>1. asked /\ Pending
      BY <1>0, <1>4 DEF Repairing, OneToken, First
    <3>2. step = 4 => Fitting(4) = {"ready"}
      BY AnswerSteps DEF Fitting
    <3>3. /\ toCore = <<lastSaid>> \/ garbledLines = <<lastSaid>>
          /\ expects = Last(step) + 1 /\ lastSaid \in Fitting(step)
      BY <1>0, <1>4, <3>1 DEF Pending, Last
    <3>4. step = 4
      BY <1>0, <1>4, <3>3 DEF Last
    <3>5. toCore = <<"ready">>
      BY <3>2, <3>3, <3>4
    <3> QED BY <2>2, <3>5
  <2> QED BY <1>2, <2>4, <2>5, <2>6 DEF Ending
<1>5. started = 1 => expects = 6
  BY <1>0 DEF ChannelInv, CarriedOut
<1> QED BY <1>1, <1>3, <1>4, <1>5 DEF Finishes

\* A plugin that breaks down is gone, and stays without a last word.
LEMMA BreakdownEnds == Ending /\ (Crashes \/ Hangs) => Ending'
<1> SUFFICES ASSUME Ending, Crashes \/ Hangs PROVE Ending'
  OBVIOUS
<1>1. /\ gone' \/ UNCHANGED gone
      /\ UNCHANGED <<toPlugin, toCore, garbledLines, step, asked, lastSent, heard, phase, failure,
                     expects, configured, said, lastSaid, stopped>>
  BY DEF Crashes, Hangs, pipeVars, coreVars
<1> QED
  BY <1>1 DEF Ending, Untold, EndsTrue, Distance, LastWordComes, LastWordGarbled, ReadyFirst, Blame

\* The invariant of the repairs is inductive.
LEMMA RepairInvStep == ChannelInv /\ RepairInv /\ [Next]_vars => RepairInv'
<1> SUFFICES ASSUME ChannelInv, RepairInv, [Next]_vars, ~BeyondRepair'
             PROVE  Repairing' /\ Ending'
  BY DEF RepairInv
<1>1. Repairing /\ Ending
  BY BeyondKept DEF RepairInv, ChannelInv
<1>2. CASE CoreStep
  <2>1. Repairing'
    BY <1>1, <1>2, AskRepairs, HearsRepairs, AbortRepairs, EndRepairs, WindDownRepairs DEF CoreStep
  <2>2. Ending'
    BY <1>1, <1>2, AskEnds, HearsEnds, CoreEnds DEF CoreStep
  <2> QED BY <2>1, <2>2
<1>3. CASE PluginStep
  <2>1. Repairing'
    BY <1>1, <1>3, PluginHearsRepairs, AnswersRepair, EndsRepair, BreakdownRepairs DEF PluginStep
  <2>2. Ending'
    BY <1>1, <1>3, PluginHearsEnds, AnswersEnd, EndsEnd, BreakdownEnds DEF PluginStep
  <2> QED BY <2>1, <2>2
<1>4. CASE UNCHANGED vars
  <2>1. Repairing'
    BY <1>1, <1>4 DEF vars, pipeVars, coreVars, pluginVars,
         Repairing, NobodyAccused, AskedForCause, OneToken, Pending, PluginSide, CoreSide, EndsHeard
  <2>2. Ending'
    BY <1>1, <1>4 DEF vars, pipeVars, coreVars, pluginVars,
         Ending, Untold, EndsTrue, Distance, LastWordComes, LastWordGarbled, ReadyFirst, Blame
  <2> QED BY <2>1, <2>2
<1> QED
  BY <1>2, <1>3, <1>4 DEF Next, Over

\* For any number of garbled lines, any limits and any faults: one garbled
\* line makes neither side accuse the other of a protocol violation, unless it
\* is set_protocol_version; and the core takes no plugin that reported its end
\* for one that broke down, unless that report was the garbled line, nor for
\* one that failed, unless its success overtook the repetition of ready
\* (ControlChannel!RepairsOne).
THEOREM ChannelRepairsOne == Spec => []RepairsOne
<1>1. Init => Repairing /\ Ending
  <2>1. Init => Repairing
    BY DEF Init, Repairing, NobodyAccused, AskedForCause, OneToken, First, PluginSide, PluginPipe,
           CoreSide, CorePipe, EndsHeard, Finishes
  <2>2. Init => Ending
    BY DEF Init, Ending, Untold, Tells, EndsTrue, Finishes, Distance, First, LastWordComes, LastWords, ReadyFirst, Blame
  <2> QED BY <2>1, <2>2
<1>2. ChannelInv /\ RepairInv => RepairsOne
  <2> SUFFICES ASSUME ChannelInv, Repairing, Ending PROVE RepairsOne
    <3>1. ChannelInv => Len(garbledLines) \in Nat
      BY DEF ChannelInv, TypeOK
    <3> QED BY <3>1 DEF RepairInv, BeyondRepair, RepairsOne
  <2> QED BY DEF Repairing, NobodyAccused, Ending, Blame, LastWordGarbled, RepairsOne
<1> QED
  BY <1>1, <1>2, RepairInvStep, ChannelSafe, PTL DEF Spec, RepairInv

=============================================================================
