--------------------------- MODULE ControlChannel ---------------------------
(***************************************************************************)
(* The control channel between the core and one plugin, from the handshake *)
(* to the plugin's end: the core's side is Peer                            *)
(* (loadsmith-core/src/peer.rs) driven by loadsmith-core/src/lifecycle.rs, *)
(* the plugin's is the SDK's Control                                       *)
(* (loadsmith-plugin-sdk/src/control.rs).                                  *)
(*                                                                         *)
(* A line may arrive garbled; its reader asks for a repetition and gets    *)
(* the last message the other side remembers.  The run may be aborted      *)
(* from elsewhere (another plugin, a signal) at any point.  A deadline     *)
(* that is set may pass at any time.                                       *)
(***************************************************************************)
EXTENDS Integers, Sequences

CONSTANTS
  Garbles, \* bound: lines that arrive garbled, of both directions
  Limits,  \* the timeouts that are not 0
  Faults   \* what may go wrong (ChannelFaults)

ChannelLimits == {"handshake", "configure", "start", "work"}
ChannelFaults == {"foreign", "rejects", "fails", "crashes", "hangs", "elsewhere"}

ASSUME ChannelAssumption ==
  /\ Garbles \in Nat
  /\ Limits \subseteq ChannelLimits
  /\ Faults \subseteq ChannelFaults

VARIABLES
  toPlugin, toCore,  \* the pipes: lines written and not read
  step,      \* core: the answer it is at, an index of Answers
  asked,     \* core: the request of this step was sent
  lastSent,  \* Peer.last_sent
  coreStreak,
  heard,     \* Peer.finished
  phase,     \* core: talking, aborting (told, in the grace period), waiting, over
  failure,   \* core: what the conversation failed with
  expects,   \* plugin: the message it is at, an index of Script
  busy,      \* plugin: in its configure(), away from the channel
  configured, started, undone, \* plugin: how often each was done
  said,      \* plugin: the status of its finished
  lastSaid,  \* Control.last_sent
  pluginStreak,
  stopped,   \* plugin: why it stops, to be concluded
  gone, hung,
  garbledLines  \* the lines garbled so far

pipeVars   == <<toPlugin, toCore, garbledLines>>
coreVars   == <<step, asked, lastSent, coreStreak, heard, phase, failure>>
pluginVars == <<expects, busy, configured, started, undone, said, lastSaid, pluginStreak, stopped, gone, hung>>
vars == <<pipeVars, coreVars, pluginVars>>

Requests == << <<"handshake">>, <<"set_protocol_version", "capabilities_request">>, <<"configure">>, <<"start">> >>
Answers  == <<"handshake_ack", "capabilities_response", "configure_ack", "ready", "finished">>
Waits    == <<"handshake", "handshake", "configure", "start", "work">>
Script   == <<"handshake", "set_protocol_version", "capabilities_request", "configure", "start">>
Working  == Len(Script) + 1

Said == {"nothing", "success", "error", "cancelled"}
ToPlugin == {Script[i] : i \in 1..Len(Script)} \cup {"resend", "cancel", "error"}
ToCore   == {"handshake_ack", "other_kind", "capabilities_response", "configure_ack", "configure_error",
             "ready", "resend", "success", "error", "cancelled"}
Finishes == {"success", "error", "cancelled"}

TypeOK ==
  /\ toPlugin \in Seq(ToPlugin) /\ toCore \in Seq(ToCore)
  /\ garbledLines \in Seq(ToPlugin \cup ToCore) /\ Len(garbledLines) <= Garbles
  /\ step \in 1..Len(Answers) /\ asked \in BOOLEAN
  /\ lastSent \in {"nothing"} \cup ToPlugin /\ lastSaid \in {"nothing"} \cup ToCore
  /\ coreStreak \in 0..1 /\ pluginStreak \in 0..1
  /\ heard \in Said /\ said \in Said
  /\ phase \in {"talking", "aborting", "waiting", "over"}
  /\ failure \in {"none", "process", "protocol", "incompatible", "rejected", "failed", "timeout", "elsewhere"}
  /\ expects \in 1..Working /\ busy \in BOOLEAN
  /\ configured \in 0..2 /\ started \in 0..2 /\ undone \in 0..1
  /\ stopped \in {"no", "done", "cancel", "core", "fatal", "violation"}
  /\ gone \in BOOLEAN /\ hung \in BOOLEAN

Init ==
  /\ toPlugin = <<>> /\ toCore = <<>> /\ garbledLines = <<>>
  /\ step = 1 /\ asked = FALSE /\ lastSent = "nothing" /\ coreStreak = 0
  /\ heard = "nothing" /\ phase = "talking" /\ failure = "none"
  /\ expects = 1 /\ busy = FALSE /\ configured = 0 /\ started = 0 /\ undone = 0
  /\ said = "nothing" /\ lastSaid = "nothing" /\ pluginStreak = 0 /\ stopped = "no"
  /\ gone = FALSE /\ hung = FALSE

\* What a reader gets of a line: the line, or "garbled".
Arrives(line, got) ==
  \/ got = line /\ UNCHANGED garbledLines
  \/ /\ got = "garbled" /\ Len(garbledLines) < Garbles
     /\ garbledLines' = Append(garbledLines, line)

----------------------------------------------------------------------------
(* The core *)

\* A failed step: this plugin is told error when it is at fault and does not
\* know yet, cancel otherwise, unless it is done.
Tell(line, known) ==
  IF known # "nothing" \/ gone THEN UNCHANGED <<toPlugin, lastSent>>
  ELSE toPlugin' = Append(toPlugin, line) /\ lastSent' = line

FailWith(cause, line, known) == phase' = "aborting" /\ failure' = cause /\ Tell(line, known)

\* The request of a step; a plugin that is gone has closed its stdin.
Ask ==
  /\ phase = "talking" /\ ~asked /\ step \in 1..Len(Requests)
  /\ IF gone
     THEN /\ phase' = "aborting" /\ failure' = "process"
          /\ UNCHANGED <<toPlugin, lastSent, asked>>
     ELSE /\ toPlugin' = toPlugin \o Requests[step]
          /\ lastSent' = Requests[step][Len(Requests[step])]
          /\ asked' = TRUE
          /\ UNCHANGED <<phase, failure>>
  /\ UNCHANGED <<toCore, garbledLines, step, coreStreak, heard, pluginVars>>

Listening == phase = "talking" /\ (asked \/ step = Len(Answers))

\* resend is sent without being remembered.
AskAgain ==
  /\ toPlugin' = IF gone THEN toPlugin ELSE Append(toPlugin, "resend")
  /\ UNCHANGED lastSent

\* Mutant of SendAgain: everything the step asked for is sent again.
SendAgainWhole ==
  /\ toPlugin' = IF gone \/ lastSent = "nothing" \/ step > Len(Requests) THEN toPlugin
                 ELSE toPlugin \o Requests[step]
  /\ UNCHANGED lastSent

\* The last message is sent again.
SendAgain ==
  /\ toPlugin' = IF gone \/ lastSent = "nothing" THEN toPlugin ELSE Append(toPlugin, lastSent)
  /\ UNCHANGED lastSent

NextStep ==
  /\ step' = step + 1 /\ asked' = FALSE
  /\ UNCHANGED <<toPlugin, lastSent, phase, failure>>

\* What is made of a line: the transport's rules, then the step's answer.
CoreTakes(got) ==
  \/ /\ got = "garbled" /\ coreStreak = 0
     /\ coreStreak' = 1 /\ AskAgain
     /\ UNCHANGED <<step, asked, heard, phase, failure>>
  \/ /\ got = "garbled" /\ coreStreak = 1
     /\ FailWith("protocol", "error", heard)
     /\ UNCHANGED <<coreStreak, step, asked, heard>>
  \/ /\ got = "resend"
     /\ coreStreak' = 0 /\ SendAgain
     /\ UNCHANGED <<step, asked, heard, phase, failure>>
  \/ /\ got \in Finishes
     /\ coreStreak' = 0 /\ heard' = got
     /\ IF got = "success" /\ step = Len(Answers)
        THEN phase' = "aborting" /\ UNCHANGED <<failure, toPlugin, lastSent>>
        ELSE FailWith("failed", "cancel", got)
     /\ UNCHANGED <<step, asked>>
  \/ /\ got \notin Finishes \cup {"garbled", "resend"}
     /\ coreStreak' = 0
     /\ \/ step < Len(Answers) /\ got = Answers[step] /\ NextStep
        \/ got = "other_kind" /\ step = 1 /\ FailWith("incompatible", "error", heard) /\ UNCHANGED <<step, asked>>
        \/ got = "configure_error" /\ step = 3 /\ FailWith("rejected", "cancel", heard) /\ UNCHANGED <<step, asked>>
        \/ /\ step < Len(Answers) /\ got # Answers[step]
           /\ <<got, step>> \notin {<<"other_kind", 1>>, <<"configure_error", 3>>}
           /\ FailWith("protocol", "error", heard) /\ UNCHANGED <<step, asked>>
        \/ step = Len(Answers) /\ UNCHANGED <<step, asked, toPlugin, lastSent, phase, failure>>
     /\ UNCHANGED heard

CoreHears ==
  /\ Listening /\ toCore # <<>>
  /\ \E got \in ToCore \cup {"garbled"} : Arrives(Head(toCore), got) /\ CoreTakes(got)
  /\ toCore' = Tail(toCore)
  /\ UNCHANGED pluginVars

\* fd1 ended: the plugin is gone and cannot be told.
CoreSeesEnd ==
  /\ Listening /\ toCore = <<>> /\ gone
  /\ phase' = "aborting" /\ failure' = "failed"
  /\ UNCHANGED <<pipeVars, step, asked, lastSent, coreStreak, heard, pluginVars>>

CoreTimesOut ==
  /\ Listening /\ Waits[step] \in Limits
  /\ FailWith("timeout", "error", heard) /\ UNCHANGED heard
  /\ UNCHANGED <<toCore, garbledLines, step, asked, coreStreak, pluginVars>>

AbortElsewhere ==
  /\ "elsewhere" \in Faults /\ phase = "talking"
  /\ FailWith("elsewhere", "cancel", heard) /\ UNCHANGED heard
  /\ UNCHANGED <<toCore, garbledLines, step, asked, coreStreak, pluginVars>>

\* wind_down: until fd1 ends, or a second garbled line, a finished is recorded
\* and repetitions are answered.
WindDown ==
  /\ phase = "aborting" /\ toCore # <<>>
  /\ toCore' = Tail(toCore)
  /\ \E got \in ToCore \cup {"garbled"} :
       /\ Arrives(Head(toCore), got)
       /\ \/ got = "resend" /\ SendAgain /\ coreStreak' = 0 /\ UNCHANGED <<heard, phase>>
          \/ got = "garbled" /\ coreStreak = 0 /\ AskAgain /\ coreStreak' = 1 /\ UNCHANGED <<heard, phase>>
          \/ /\ got = "garbled" /\ coreStreak = 1
             /\ phase' = "waiting" /\ UNCHANGED <<toPlugin, lastSent, coreStreak, heard>>
          \/ /\ got \notin {"resend", "garbled"}
             /\ heard' = IF got \in Finishes THEN got ELSE heard
             /\ coreStreak' = 0 /\ UNCHANGED <<toPlugin, lastSent, phase>>
  /\ UNCHANGED <<step, asked, failure, pluginVars>>

WindDownSeesEnd ==
  /\ phase = "aborting" /\ toCore = <<>> /\ gone
  /\ phase' = "waiting"
  /\ UNCHANGED <<pipeVars, step, asked, lastSent, coreStreak, heard, failure, pluginVars>>

\* Mutant of Kill: a plugin that said finished is left to itself.
KillUnfinished ==
  /\ phase \in {"aborting", "waiting"} /\ ~gone /\ heard = "nothing"
  /\ gone' = TRUE /\ phase' = "waiting"
  /\ UNCHANGED <<pipeVars, step, asked, lastSent, coreStreak, heard, failure>>
  /\ UNCHANGED <<expects, busy, configured, started, undone, said, lastSaid, pluginStreak, stopped, hung>>

\* The grace period is over: nothing more is read, the process group is killed.
Kill ==
  /\ phase \in {"aborting", "waiting"} /\ ~gone
  /\ gone' = TRUE /\ phase' = "waiting"
  /\ UNCHANGED <<pipeVars, step, asked, lastSent, coreStreak, heard, failure>>
  /\ UNCHANGED <<expects, busy, configured, started, undone, said, lastSaid, pluginStreak, stopped, hung>>

Reap ==
  /\ phase = "waiting" /\ gone
  /\ phase' = "over"
  /\ UNCHANGED <<pipeVars, step, asked, lastSent, coreStreak, heard, failure, pluginVars>>

CoreStep ==
  Ask \/ CoreHears \/ CoreSeesEnd \/ CoreTimesOut \/ AbortElsewhere \/ WindDown \/ WindDownSeesEnd \/ Kill \/ Reap

----------------------------------------------------------------------------
(* The plugin *)

Alive == ~gone /\ ~hung

\* A message that is remembered for a repetition.
Say(line) == toCore' = Append(toCore, line) /\ lastSaid' = line
Quiet == UNCHANGED <<toCore, lastSaid>>

Stop(why) == stopped' = why

\* The message the plugin is at: it is carried out and answered.
CarryOut(i) ==
  /\ expects' = i + 1
  /\ \/ Script[i] = "handshake" /\ (Say("handshake_ack") \/ ("foreign" \in Faults /\ Say("other_kind")))
     \/ Script[i] = "capabilities_request" /\ Say("capabilities_response")
     \/ Script[i] \in {"set_protocol_version", "configure", "start"} /\ Quiet
  /\ busy' = (Script[i] \in {"configure", "start"})
  /\ UNCHANGED stopped

\* Mutant of PluginTakes: a message that comes again is carried out again.
PluginTakesAgain(got) ==
  \/ /\ got = "garbled" /\ pluginStreak = 0
     /\ pluginStreak' = 1 /\ toCore' = Append(toCore, "resend")
     /\ UNCHANGED <<expects, busy, lastSaid, stopped>>
  \/ /\ got = "garbled" /\ pluginStreak = 1
     /\ Stop("violation") /\ Quiet /\ UNCHANGED <<expects, busy, pluginStreak>>
  \/ /\ got = "resend"
     /\ pluginStreak' = 0
     /\ toCore' = IF lastSaid = "nothing" THEN toCore ELSE Append(toCore, lastSaid)
     /\ UNCHANGED <<expects, busy, lastSaid, stopped>>
  \/ /\ got \notin {"garbled", "resend"}
     /\ pluginStreak' = 0
     /\ \/ got = "cancel" /\ Stop("cancel") /\ Quiet /\ UNCHANGED <<expects, busy>>
        \/ got = "error" /\ Stop("core") /\ Quiet /\ UNCHANGED <<expects, busy>>
        \/ expects < Working /\ \E i \in 1..expects : got = Script[i] /\ CarryOut(i)
        \/ /\ got \notin {"cancel", "error"} /\ expects < Working
           /\ \A i \in 1..expects : got # Script[i]
           /\ Stop("violation") /\ Quiet /\ UNCHANGED <<expects, busy>>
        \/ got \notin {"cancel", "error"} /\ expects = Working /\ Quiet /\ UNCHANGED <<expects, busy, stopped>>

\* The transport's rules, then the lifecycle: a message out of place is fatal
\* before start, and ignored while the plugin works.
PluginTakes(got) ==
  \/ /\ got = "garbled" /\ pluginStreak = 0
     /\ pluginStreak' = 1 /\ toCore' = Append(toCore, "resend")
     /\ UNCHANGED <<expects, busy, lastSaid, stopped>>
  \/ /\ got = "garbled" /\ pluginStreak = 1
     /\ Stop("violation") /\ Quiet /\ UNCHANGED <<expects, busy, pluginStreak>>
  \/ /\ got = "resend"
     /\ pluginStreak' = 0
     /\ toCore' = IF lastSaid = "nothing" THEN toCore ELSE Append(toCore, lastSaid)
     /\ UNCHANGED <<expects, busy, lastSaid, stopped>>
  \/ /\ got \notin {"garbled", "resend"}
     /\ pluginStreak' = 0
     /\ \/ got = "cancel" /\ Stop("cancel") /\ Quiet /\ UNCHANGED <<expects, busy>>
        \/ got = "error" /\ Stop("core") /\ Quiet /\ UNCHANGED <<expects, busy>>
        \/ expects < Working /\ got = Script[expects] /\ CarryOut(expects)
        \/ /\ got \notin {"cancel", "error"} /\ expects < Working /\ got # Script[expects]
           /\ Stop("violation") /\ Quiet /\ UNCHANGED <<expects, busy>>
        \/ got \notin {"cancel", "error"} /\ expects = Working /\ Quiet /\ UNCHANGED <<expects, busy, stopped>>

PluginHears ==
  /\ Alive /\ stopped = "no" /\ ~busy /\ toPlugin # <<>>
  /\ \E got \in ToPlugin \cup {"garbled"} : Arrives(Head(toPlugin), got) /\ PluginTakes(got)
  /\ toPlugin' = Tail(toPlugin)
  /\ UNCHANGED <<configured, started, undone, said, gone, hung, coreVars>>

\* configure() ran: configure_ack, or the rejection and the end.
Configures ==
  /\ Alive /\ stopped = "no" /\ busy /\ Script[expects - 1] = "configure"
  /\ busy' = FALSE
  /\ \/ configured' = configured + 1 /\ Say("configure_ack") /\ UNCHANGED stopped
     \/ "rejects" \in Faults /\ Say("configure_error") /\ Stop("fatal") /\ UNCHANGED configured
  /\ UNCHANGED <<toPlugin, garbledLines, expects, started, undone, said, pluginStreak, gone, hung, coreVars>>

Starts ==
  /\ Alive /\ stopped = "no" /\ busy /\ Script[expects - 1] = "start"
  /\ busy' = FALSE /\ started' = started + 1
  /\ \/ Say("ready") /\ UNCHANGED stopped
     \/ "fails" \in Faults /\ Stop("fatal") /\ Quiet
  /\ UNCHANGED <<toPlugin, garbledLines, expects, configured, undone, said, pluginStreak, gone, hung, coreVars>>

\* Its work ends, well or not.
WorkEnds ==
  /\ Alive /\ stopped = "no" /\ ~busy /\ expects = Working
  /\ \/ Stop("done") /\ said' = "success" /\ Say("success")
     \/ "fails" \in Faults /\ Stop("fatal") /\ UNCHANGED said /\ Quiet
  /\ UNCHANGED <<toPlugin, garbledLines, expects, busy, configured, started, undone, pluginStreak, gone, hung, coreVars>>

\* Mutant of Concludes: finished goes out before the undo.
ConcludesFirst ==
  /\ Alive /\ stopped # "no"
  /\ IF started = 1 /\ stopped # "done" /\ said = "nothing"
     THEN /\ Say(IF stopped = "cancel" THEN "cancelled" ELSE "error")
          /\ said' = (IF stopped = "cancel" THEN "cancelled" ELSE "error")
          /\ UNCHANGED <<gone, undone>>
     ELSE /\ gone' = TRUE /\ undone' = IF started = 1 /\ stopped # "done" THEN 1 ELSE undone
          /\ Quiet /\ UNCHANGED said
  /\ UNCHANGED <<toPlugin, garbledLines, expects, busy, configured, started, pluginStreak, stopped, hung, coreVars>>

\* conclude: the undo of a started plugin that did not succeed, then its
\* finished, then the exit.
Concludes ==
  /\ Alive /\ stopped # "no"
  /\ IF started = 1 /\ stopped # "done" /\ undone = 0
     THEN undone' = 1 /\ Quiet /\ UNCHANGED <<said, gone>>
     ELSE IF said = "nothing" /\ (stopped = "cancel" \/ (stopped \in {"fatal", "violation"} /\ started = 1))
     THEN /\ said' = (IF stopped = "cancel" THEN "cancelled" ELSE "error")
          /\ Say(IF stopped = "cancel" THEN "cancelled" ELSE "error")
          /\ UNCHANGED <<undone, gone>>
     ELSE gone' = TRUE /\ Quiet /\ UNCHANGED <<undone, said>>
  /\ UNCHANGED <<toPlugin, garbledLines, expects, busy, configured, started, pluginStreak, stopped, hung, coreVars>>

Crashes ==
  /\ "crashes" \in Faults /\ ~gone
  /\ gone' = TRUE
  /\ UNCHANGED <<pipeVars, coreVars, expects, busy, configured, started, undone, said, lastSaid,
                 pluginStreak, stopped, hung>>

Hangs ==
  /\ "hangs" \in Faults /\ Alive
  /\ hung' = TRUE
  /\ UNCHANGED <<pipeVars, coreVars, expects, busy, configured, started, undone, said, lastSaid,
                 pluginStreak, stopped, gone>>

PluginStep == PluginHears \/ Configures \/ Starts \/ WorkEnds \/ Concludes \/ Crashes \/ Hangs

Over == phase = "over" /\ UNCHANGED vars

Next == CoreStep \/ PluginStep \/ Over

Spec == Init /\ [][Next]_vars

\* The core and a plugin that is neither hung nor gone get on; a deadline that
\* stays set passes, the grace period included.  Nothing has to fail.
Fairness ==
  /\ WF_vars(Ask) /\ WF_vars(CoreHears) /\ WF_vars(CoreSeesEnd) /\ WF_vars(CoreTimesOut)
  /\ WF_vars(WindDown) /\ WF_vars(WindDownSeesEnd) /\ WF_vars(Kill) /\ WF_vars(Reap)
  /\ WF_vars(PluginHears) /\ WF_vars(Configures) /\ WF_vars(Starts)
  /\ WF_vars(WorkEnds) /\ WF_vars(Concludes)

FairSpec == Spec /\ Fairness

----------------------------------------------------------------------------
(* Properties *)

\* The sides never part unnoticed, whatever is garbled and repeated: an answer
\* the core goes on with is the answer to its request, given by a plugin that
\* carried out everything before it, once.
InStep ==
  /\ step > 3 => configured = 1
  /\ step > 4 => started = 1
  /\ started <= configured /\ configured <= 1

\* What a plugin says last before it exits by itself: nobody is left to repeat
\* it.
LastWords == Finishes \cup {"configure_error"}

\* One garbled line is repaired, wherever it hits, but for three kinds.  It
\* never makes a side accuse the other, unless it is set_protocol_version,
\* behind which the next request is already on its way when the repetition is
\* asked for.  And no plugin that reported its end is taken for one that broke
\* down, or for one that failed: unless the report itself is garbled, or is a
\* success that overtakes the repetition of a garbled ready.
RepairsOne ==
  Len(garbledLines) <= 1 /\ garbledLines # <<"set_protocol_version">> =>
    /\ failure # "protocol" /\ stopped # "violation"
    /\ failure = "process" => lastSaid \notin LastWords
    /\ failure = "failed" =>
         \/ heard = "error" /\ stopped = "fatal"
         \/ heard = "success" /\ garbledLines = <<"ready">>
         \/ heard = "nothing" /\ (lastSaid \in LastWords => \E word \in LastWords : garbledLines = <<word>>)

\* A plugin never reports an end before it has undone what it started, and
\* one that succeeded undoes nothing.
UndoneBeforeSaid ==
  /\ said \in {"error", "cancelled"} /\ started = 1 => undone = 1
  /\ said = "success" => undone = 0

\* The plugin's process ends, whatever was garbled and whoever hangs.
ConversationEnds == <>(phase = "over" /\ gone)
============================================================================
