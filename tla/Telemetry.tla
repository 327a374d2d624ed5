------------------------------ MODULE Telemetry ------------------------------
(***************************************************************************)
(* What a plugin records on its way to the collector.  The SDK's recorder   *)
(* bounds it and counts what it drops; the one task that owns fd4 writes it *)
(* out; the core reads fd4, at once or, for a provider, only when the       *)
(* conversation with it is over; three exporters send it from bounded       *)
(* queues, and are flushed within a bound when the run ends.  One plugin    *)
(* process, one run.                                                        *)
(***************************************************************************)
EXTENDS Naturals, Sequences, FiniteSets

CONSTANTS
    Spans,        \* spans the plugin opens at most
    Logs,         \* log lines at most
    Points,       \* measurements at most
    Records,      \* of all three at most
    Instruments,  \* the metric series it may record
    Histograms,   \* those of them that are histograms
    MaxReplay,    \* MAX_REPLAY
    MaxSeries,    \* MAX_SERIES
    MaxPending,   \* MAX_PENDING
    Budget,       \* MAX_SPANS_PER_SECOND
    MaxHeld,      \* MAX_HELD_LOGS
    Modes,        \* of "drain" (any plugin) and "hold" (a provider)
    Shaky,        \* the signals whose exporter may fail or hang
    Faults        \* of "killed", "talkFails", "exportFails", "exporterHangs", "burst"

ASSUME BoundsAssumption ==
    /\ Spans \in Nat /\ Logs \in Nat /\ Points \in Nat /\ Records \in Nat
    /\ MaxSeries \in Nat /\ MaxPending \in Nat /\ Budget \in Nat /\ MaxHeld \in Nat
    /\ MaxReplay \in Nat
ASSUME SetsAssumption ==
    /\ IsFiniteSet(Instruments) /\ Histograms \subseteq Instruments
    /\ Shaky \subseteq {"traces", "metrics", "logs"}
    /\ Modes \subseteq {"drain", "hold"}
    /\ Faults \subseteq {"killed", "talkFails", "exportFails", "exporterHangs", "burst"}

VARIABLES
    settings,  \* the run's: on, the signals exported, whether the trace is sampled
    mode,      \* what the core does with this plugin's fd4
    plugin,    \* "working", "concluding", "left", "killed"
    span,      \* each span: its state, the span it was opened in, its parent
    budget,    \* spans admitted this second
    log,       \* the lines logged: their span, whether at the run's level, quoting a value
    measured,  \* measurements made
    pending,   \* the recorder's queue
    series,    \* the measurements of each metric series since the last delta
    gathered,  \* those in them that the core will measure again
    beyond,    \* those it will not: a histogram's beyond MaxReplay
    lost,      \* the recorder's counters of what it dropped, by signal
    writer,    \* the write in progress: what is left of it, its own line, the final one or not
    held,      \* what the core keeps of a provider
    overflow,  \* whether it kept all
    value,     \* the provider's value: "none", "fetched", "heard"
    talk,      \* the conversation with a provider: "on", "ok", "failed"
    bare,      \* lines that quote a value and were shown before it was known
    out,       \* what the core handed to the exporters
    queued,    \* the signals of which something is still to be sent
    crowded,   \* of what it handed over, what a full queue refused: nothing counts it
    exporter,  \* each exporter: "well", "failing" (it lost a batch), "hung"
    phase      \* of the run's telemetry: "on", "flushing", "ended"

vars == <<settings, mode, plugin, span, budget, log, measured, pending, series, gathered, beyond, lost,
          writer, held, overflow, value, talk, bare, out, queued, crowded, exporter, phase>>

Signals == {"traces", "metrics", "logs"}
Kinds == {"spans", "logs", "metrics"}
SpanIds == 1 .. Spans
CoreSpan == 0   \* the core's span of this plugin
Idle == [state |-> "idle", batch |-> <<>>, own |-> <<>>, final |-> FALSE]
Zero == [k \in Kinds |-> 0]
Nothing == [spans |-> {}, logs |-> {}, points |-> 0, beyond |-> 0, lost |-> Zero]

Message ==
    [signal : {"traces"}, id : SpanIds] \cup [signal : {"logs"}, id : Nat]
        \cup [signal : {"metrics"}, points : Nat, beyond : Nat, lost : [Kinds -> Nat]]

SpanType ==
    [state : {"none", "open", "over", "unseen", "closed", "shed", "dropped", "gone"},
     in : {CoreSpan} \cup SpanIds, parent : {CoreSpan} \cup SpanIds]
LineType == [in : {CoreSpan} \cup SpanIds, at : {CoreSpan} \cup SpanIds, loud : BOOLEAN, quotes : BOOLEAN]

TypeOK ==
    /\ settings \in [on : BOOLEAN, signals : SUBSET Signals, sampled : BOOLEAN]
    /\ mode \in Modes /\ plugin \in {"working", "concluding", "left", "killed"}
    /\ span \in [SpanIds -> SpanType]
    /\ budget \in 0..Budget /\ measured \in 0..Points
    /\ log \in Seq(LineType)
    /\ pending \in Seq(Message)
    /\ series \in [Instruments -> Nat] /\ gathered \in Nat /\ beyond \in Nat /\ lost \in [Kinds -> Nat]
    /\ writer \in [state : {"idle", "messages", "counting", "metrics"}, batch : Seq(Message), own : Seq(Message),
                   final : BOOLEAN]
    /\ held \in Seq(Message) /\ overflow \in BOOLEAN
    /\ value \in {"none", "fetched", "heard"} /\ talk \in {"on", "ok", "failed"}
    /\ bare \subseteq 1 .. Len(log)
    /\ out \in [spans : SUBSET SpanIds, logs : SUBSET (1 .. Len(log)), points : Nat, beyond : Nat,
                lost : [Kinds -> Nat]]
    /\ queued \subseteq Signals /\ crowded \in [{"traces", "logs"} -> SUBSET Nat]
    /\ exporter \in [Signals -> {"well", "failing", "hung"}]
    /\ phase \in {"on", "flushing", "ended"}

-----------------------------------------------------------------------------
(* The settings of the run: the flags, the file and the environment *)
Flags == [off : BOOLEAN, endpoint : BOOLEAN]
File == [enabled : {"unset", "yes", "no"}, endpoint : BOOLEAN, signals : {{}, {"metrics", "logs"}}]
Env == [disabled : BOOLEAN, endpoints : {{}, {"base"}, {"logs"}}, none : {{}, {"traces"}}]

TurnedOn(flags, file, env) ==
    /\ ~flags.off
    /\ file.enabled # "no"
    /\ \/ flags.endpoint \/ file.enabled = "yes" \/ file.endpoint
       \/ ~env.disabled /\ env.endpoints # {}

Selected(file, env) == IF file.signals # {} THEN file.signals ELSE Signals \ env.none

\* Without traces a plugin is told no parent, and takes that for sampled.
Told(signals, sampled) == sampled \/ "traces" \notin signals

Resolved(flags, file, env, sampled) ==
    LET on == TurnedOn(flags, file, env)
        signals == IF on THEN Selected(file, env) ELSE {}
    IN [on |-> on, signals |-> signals, sampled |-> Told(signals, sampled)]

Init ==
    /\ \E flags \in Flags, file \in File, env \in Env, sampled \in BOOLEAN :
           settings = Resolved(flags, file, env, sampled)
    /\ mode \in Modes
    /\ plugin = "working"
    /\ span = [s \in SpanIds |-> [state |-> "none", in |-> CoreSpan, parent |-> CoreSpan]]
    /\ budget = 0
    /\ log = <<>>
    /\ measured = 0
    /\ pending = <<>>
    /\ series = [i \in Instruments |-> 0] /\ gathered = 0 /\ beyond = 0
    /\ lost = Zero
    /\ writer = Idle
    /\ held = <<>> /\ overflow = FALSE
    /\ value = IF mode = "hold" THEN "none" ELSE "heard"
    /\ talk = IF mode = "hold" THEN "on" ELSE "ok"
    /\ bare = {}
    /\ out = Nothing /\ queued = {} /\ crowded = [sig \in {"traces", "logs"} |-> {}]
    /\ exporter = [s \in Signals |-> "well"]
    /\ phase = "on"

core == <<held, overflow, talk, bare, out, queued, crowded, exporter, phase>>
static == <<settings, mode>>
metrics == <<series, gathered, beyond>>

-----------------------------------------------------------------------------
(* The recorder, called from any task or thread of the plugin *)
Recording == plugin = "working" /\ settings.on

Push(msg, kind) ==
    IF Len(pending) >= MaxPending
    THEN lost' = [lost EXCEPT ![kind] = @ + 1] /\ UNCHANGED pending
    ELSE pending' = Append(pending, msg) /\ UNCHANGED lost

\* Mutant of ContextOf: only the span itself is looked at.
ContextOfSelf(s) == IF s # CoreSpan /\ span[s].state = "open" THEN s ELSE CoreSpan

\* The nearest recorded span from s up, or the core's.
ContextOf(s) ==
    LET up[r \in {CoreSpan} \cup SpanIds] ==
            IF r = CoreSpan \/ span[r].state = "open" THEN r ELSE up[span[r].in]
    IN  up[s]

More == measured + Len(log) + Cardinality({s \in SpanIds : span[s].state # "none"}) < Records

\* A span is opened inside one that is not closed, or at the top.
Enclosing == {CoreSpan} \cup {s \in SpanIds : span[s].state \in {"open", "over", "unseen"}}

\* Not watched: below INFO, or from before the plugin was configured.
OpenSpan ==
    /\ plugin = "working"
    /\ \E s \in SpanIds, in \in Enclosing, watched \in BOOLEAN :
        /\ More /\ span[s].state = "none" /\ \A r \in 1 .. s - 1 : span[r].state # "none"
        /\ LET seen == Recording /\ settings.sampled /\ watched
               admitted == budget < Budget
               state == IF ~seen THEN "unseen" ELSE IF admitted THEN "open" ELSE "over"
           IN /\ span' = [span EXCEPT ![s] = [state |-> state, in |-> in, parent |-> ContextOf(in)]]
              /\ budget' = IF state = "open" THEN budget + 1 ELSE budget
              /\ lost' = IF state = "over" THEN [lost EXCEPT !["spans"] = @ + 1] ELSE lost
    /\ UNCHANGED <<static, plugin, log, measured, pending, metrics, writer, value, core>>

\* A span closes after the ones opened in it.
CloseSpan ==
    /\ plugin = "working"
    /\ \E s \in SpanIds :
        /\ s \in Enclosing
        /\ \A c \in SpanIds : span[c].in = s => c \notin Enclosing
        /\ span' = [span EXCEPT ![s].state =
               CASE @ = "open" -> IF Len(pending) < MaxPending THEN "closed" ELSE "shed"
                 [] @ = "over" -> "dropped"
                 [] @ = "unseen" -> "gone"]
        /\ IF span[s].state = "open" THEN Push([signal |-> "traces", id |-> s], "spans")
                                     ELSE UNCHANGED <<pending, lost>>
    /\ UNCHANGED <<static, plugin, budget, log, measured, metrics, writer, value, core>>

NextSecond ==
    /\ budget > 0 /\ plugin = "working"
    /\ budget' = 0
    /\ UNCHANGED <<static, plugin, span, log, measured, pending, metrics, lost, writer, value, core>>

Line(in, loud) == [in |-> in, at |-> ContextOf(in), loud |-> loud,
                   quotes |-> mode = "hold" /\ value # "none"]

\* An event of `tracing`, at the run's log level.
Event ==
    /\ Recording /\ More /\ Len(log) < Logs
    /\ \E in \in Enclosing : log' = Append(log, Line(in, TRUE))
    /\ Push([signal |-> "logs", id |-> Len(log) + 1], "logs")
    /\ UNCHANGED <<static, plugin, span, budget, measured, metrics, writer, value, core>>

\* A sum, a last value or a histogram, new or known, takes one measurement more.
Aggregate(i) ==
    /\ series' = [series EXCEPT ![i] = @ + 1]
    /\ IF i \in Histograms /\ series[i] >= MaxReplay
       THEN beyond' = beyond + 1 /\ UNCHANGED gathered
       ELSE gathered' = gathered + 1 /\ UNCHANGED beyond

RecordMetric ==
    /\ Recording /\ More /\ measured < Points
    /\ measured' = measured + 1
    /\ \E i \in Instruments :
        IF series[i] = 0 /\ Cardinality({j \in Instruments : series[j] > 0}) >= MaxSeries
        THEN lost' = [lost EXCEPT !["metrics"] = @ + 1] /\ UNCHANGED metrics
        ELSE Aggregate(i) /\ UNCHANGED lost
    /\ UNCHANGED <<static, plugin, span, budget, log, pending, writer, value, core>>

-----------------------------------------------------------------------------
(* The core: what it reads on fd4 goes to stderr and to the exporters.  A    *)
(* message written is read in the step that writes it: on the wire it cannot *)
(* change, and the sooner it is read the less of it can be masked.           *)
Exports(msg) ==
    msg.signal \in settings.signals /\ (msg.signal = "logs" => log[msg.id].loud)

\* Each point is measured again, by the instrument of its name and kind, but a
\* histogram's only so far; the rest is counted here and nowhere in the code.
Remeasured(msg) == [out EXCEPT !.points = @ + msg.points,
                               !.beyond = @ + msg.beyond,
                               !.lost = [k \in Kinds |-> @[k] + msg.lost[k]]]

With(msg) ==
    CASE msg.signal = "traces" -> [out EXCEPT !.spans = @ \cup {msg.id}]
      [] msg.signal = "logs" -> [out EXCEPT !.logs = @ \cup {msg.id}]
      [] msg.signal = "metrics" -> Remeasured(msg)

Quotes(msg) == msg.signal = "logs" /\ log[msg.id].quotes

\* The exporter's queue takes what it is handed, unless it is full.  It is
\* shared with the core's own records and every other plugin's, so that it may
\* be full whatever this one sent; the metrics are aggregated, and need none.
Enqueue(msg) ==
    \/ queued' = queued \cup {msg.signal} /\ UNCHANGED crowded
    \/ /\ "burst" \in Faults /\ msg.signal # "metrics"
       /\ crowded' = [crowded EXCEPT ![msg.signal] = @ \cup {msg.id}]
       /\ UNCHANGED queued

Forward(msg) ==
    /\ bare' = IF Quotes(msg) /\ value # "heard" THEN bare \cup {msg.id} ELSE bare
    /\ \/ Exports(msg) /\ out' = With(msg) /\ Enqueue(msg)
       \/ ~Exports(msg) /\ UNCHANGED <<out, queued, crowded>>

Hold(msg) ==
    /\ held' = IF Len(held) < MaxHeld THEN Append(held, msg) ELSE held
    /\ overflow' = (overflow \/ Len(held) >= MaxHeld)

\* Mutant of ReadEvent: a provider's lines are not held back.
ReadEventAtOnce(msg) == Forward(msg) /\ UNCHANGED <<held, overflow>>

ReadEvent(msg) ==
    \/ mode = "drain" /\ Forward(msg) /\ UNCHANGED <<held, overflow>>
    \/ mode = "hold" /\ Hold(msg) /\ UNCHANGED <<bare, out, queued, crowded>>

-----------------------------------------------------------------------------
(* The task that owns fd4 *)
recorder == <<span, budget, measured>>

\* A send, a flush between units of work, or the last write of the process.
BeginWrite ==
    /\ writer.state = "idle"
    /\ plugin = "working"
    /\ \E own, loud, final \in BOOLEAN, in \in Enclosing :
        /\ own => More /\ Len(log) < Logs /\ ~final
        /\ ~own => loud /\ in = CoreSpan
        /\ log' = IF own THEN Append(log, Line(in, loud)) ELSE log
        /\ plugin' = IF final THEN "concluding" ELSE plugin
        /\ writer' = [state |-> "messages", batch |-> pending, final |-> final,
                      own |-> IF own THEN <<[signal |-> "logs", id |-> Len(log) + 1]>> ELSE <<>>]
    /\ pending' = <<>>
    /\ UNCHANGED <<static, recorder, metrics, lost, value, core>>

WriteOne ==
    /\ writer.state # "counting" /\ writer.batch # <<>> /\ plugin # "killed"
    /\ ReadEvent(Head(writer.batch))
    /\ writer' = [writer EXCEPT !.batch = Tail(@)]
    /\ UNCHANGED <<static, plugin, recorder, log, pending, metrics, lost, value, talk, exporter, phase>>

\* The delta: the series taken, and what was dropped until the counters were.
Delta ==
    LET taken == Head(writer.batch)
    IN IF settings.on /\ (taken.points + taken.beyond > 0 \/ \E k \in Kinds : lost[k] > 0)
       THEN <<[signal |-> "metrics", points |-> taken.points, beyond |-> taken.beyond, lost |-> lost]>>
       ELSE <<>>

\* Mutant of TakeCounters: the counters are not reset.
TakeCountersKept ==
    /\ writer.state = "counting" /\ plugin # "killed"
    /\ writer' = [writer EXCEPT !.state = "metrics", !.batch = Delta]
    /\ UNCHANGED <<static, plugin, recorder, log, pending, metrics, lost, value, core>>

\* The series, under their lock; the plugin may record before the counters are
\* read, and what it records goes into the next delta.
TakeSeries ==
    /\ writer' = [writer EXCEPT !.state = "counting",
           !.batch = <<[signal |-> "metrics", points |-> gathered, beyond |-> beyond, lost |-> Zero]>>]
    /\ series' = [i \in Instruments |-> 0] /\ gathered' = 0 /\ beyond' = 0

TakeCounters ==
    /\ writer.state = "counting" /\ plugin # "killed"
    /\ writer' = [writer EXCEPT !.state = "metrics", !.batch = Delta]
    /\ lost' = Zero
    /\ UNCHANGED <<static, plugin, recorder, log, pending, metrics, value, core>>

WriteMetrics ==
    /\ writer.state = "messages" /\ writer.batch = <<>> /\ plugin # "killed"
    /\ \/ TakeSeries
       \/ /\ ~writer.final   \* the interval has not passed
          /\ writer' = [writer EXCEPT !.state = "metrics"]
          /\ UNCHANGED metrics
    /\ UNCHANGED <<static, plugin, recorder, log, pending, lost, value, core>>

EndWrite ==
    /\ writer.state = "metrics" /\ writer.batch = <<>> /\ plugin # "killed"
    /\ IF writer.own # <<>>
       THEN writer' = [writer EXCEPT !.batch = writer.own, !.own = <<>>] /\ UNCHANGED plugin
       ELSE /\ writer' = Idle
            /\ plugin' = IF writer.final THEN "left" ELSE plugin
    /\ UNCHANGED <<static, recorder, log, pending, metrics, lost, value, core>>

-----------------------------------------------------------------------------
(* The provider's value, on the control channel *)
memory == <<static, recorder, log, pending, metrics, lost, writer>>

\* The plugin fetches a value and sends it in `resolved`.
FetchValue ==
    /\ plugin = "working" /\ value = "none" /\ value' = "fetched"
    /\ UNCHANGED <<memory, plugin, core>>

HearValue ==
    /\ talk = "on" /\ value = "fetched" /\ value' = "heard"
    /\ UNCHANGED <<memory, plugin, core>>

TalkEnds ==
    /\ talk = "on"
    /\ \/ talk' = "ok" /\ value = "heard" /\ plugin \in {"concluding", "left"}
       \/ talk' = "failed" /\ ("talkFails" \in Faults \/ plugin \in {"left", "killed"})
    /\ UNCHANGED <<memory, plugin, value, held, overflow, bare, out, queued, crowded, exporter, phase>>

\* What the process had not written goes with it.
Killed ==
    /\ "killed" \in Faults /\ plugin \in {"working", "concluding"}
    /\ plugin' = "killed"
    /\ pending' = <<>> /\ writer' = Idle /\ budget' = 0
    /\ series' = [i \in Instruments |-> 0] /\ gathered' = 0 /\ beyond' = 0 /\ lost' = Zero
    /\ UNCHANGED <<static, span, measured, log, value, core>>

-----------------------------------------------------------------------------
(* The end of the run *)
Gone == plugin \in {"left", "killed"}

\* The conversation is over and the provider gone: its fd4 has ended.
ReleaseHeld ==
    /\ Gone /\ talk # "on" /\ held # <<>>
    /\ Forward(Head(held))
    /\ held' = Tail(held)
    /\ UNCHANGED <<memory, plugin, value, overflow, talk, exporter, phase>>

\* An export that fails is reported and its batch lost; the run goes on.  The
\* ones made before the flush differ in nothing the model tells apart.
Export(sig) ==
    /\ phase = "flushing" /\ exporter[sig] # "hung" /\ sig \in queued
    /\ \/ queued' = queued \ {sig} /\ UNCHANGED exporter
       \/ /\ sig \in Shaky /\ "exportFails" \in Faults
          /\ queued' = queued \ {sig}
          /\ exporter' = [exporter EXCEPT ![sig] = "failing"]
       \/ /\ sig \in Shaky /\ "exporterHangs" \in Faults
          /\ exporter' = [exporter EXCEPT ![sig] = "hung"]
          /\ UNCHANGED queued
    /\ UNCHANGED <<memory, plugin, value, held, overflow, talk, bare, out, crowded, phase>>

\* cmd_run, once the run has returned: every fd4 was read to its end by then.
Shutdown ==
    /\ phase = "on" /\ Gone /\ talk # "on" /\ held = <<>>
    /\ phase' = "flushing"
    /\ UNCHANGED <<memory, plugin, value, held, overflow, talk, bare, out, queued, crowded, exporter>>

Flushed(sig) == exporter[sig] # "hung" /\ sig \notin queued

\* Mutant of FlushEnds: no bound on the flush.
FlushEndsUnbounded ==
    /\ phase = "flushing"
    /\ \A sig \in Signals : Flushed(sig)
    /\ phase' = "ended"
    /\ UNCHANGED <<memory, plugin, value, held, overflow, talk, bare, out, queued, crowded, exporter>>

\* Every signal is flushed, or the bound has passed.
FlushEnds ==
    /\ phase = "flushing"
    /\ (\A sig \in Signals : Flushed(sig)) \/ (\E sig \in Signals : exporter[sig] = "hung")
    /\ phase' = "ended"
    /\ UNCHANGED <<memory, plugin, value, held, overflow, talk, bare, out, queued, crowded, exporter>>

Writes == BeginWrite \/ WriteOne \/ WriteMetrics \/ TakeCounters \/ EndWrite
Recorder == OpenSpan \/ CloseSpan \/ NextSecond \/ Event \/ RecordMetric
Talks == FetchValue \/ HearValue \/ TalkEnds

Next ==
    \/ Recorder \/ Writes \/ Talks \/ Killed
    \/ ReleaseHeld \/ (\E sig \in Signals : Export(sig))
    \/ Shutdown \/ FlushEnds

Spec == Init /\ [][Next]_vars

\* The core's tasks are scheduled; a plugin need not record, write or leave.
Fairness ==
    /\ WF_vars(ReleaseHeld) /\ WF_vars(TalkEnds)
    /\ \A sig \in Signals : WF_vars(Export(sig))
    /\ WF_vars(Shutdown) /\ WF_vars(FlushEnds)

FairSpec == Spec /\ Fairness

-----------------------------------------------------------------------------
(* Properties *)

Admitted == {s \in SpanIds : span[s].state \in {"open", "closed", "shed"}}
Clean == plugin = "left" /\ ~overflow /\ \A sig \in Signals : exporter[sig] = "well"

\* What the exporters took, and so the collector has when all of it is sent.
Reached == [spans |-> out.spans \ crowded["traces"], logs |-> out.logs \ crowded["logs"]]

\* Of a plugin that left in its own time, the collector has every span, line
\* and measurement recorded, or a count of it in loadsmith.telemetry.dropped,
\* but for two that nothing counts: a histogram's measurements beyond those the
\* core makes again of one point, and what came while an exporter's queue was
\* full.  It claims nothing of a provider that logs more than the core holds
\* back, and nothing of a run whose exports fail.
AccountsForAll ==
    phase = "ended" /\ Clean /\ "metrics" \in settings.signals =>
        /\ queued = {}
        /\ out.points + out.beyond + out.lost["metrics"] = measured
        /\ "logs" \in settings.signals =>
               Cardinality(Reached.logs) + Cardinality(crowded["logs"]) + out.lost["logs"]
                   = Cardinality({n \in DOMAIN log : log[n].loud})
        /\ "traces" \in settings.signals =>
               Cardinality(Reached.spans) + Cardinality(crowded["traces"]) + out.lost["spans"]
                   = Cardinality({s \in SpanIds : span[s].state \in {"closed", "shed", "over", "dropped"}})

\* Everything a span was opened in, up to the core's.
Above == LET up[s \in {CoreSpan} \cup SpanIds] ==
                 IF s = CoreSpan THEN {CoreSpan} ELSE {s} \cup up[span[s].in]
         IN up

Nearest(s) == CHOOSE n \in Above[s] \cap (Admitted \cup {CoreSpan}) :
                  \A m \in Above[s] \cap Admitted : m <= n

\* The trace holds together whatever the budget drops: what the core exports
\* hangs on the nearest span around it that the budget admitted, or on the
\* core's.  An admitted span may itself be lost later, at a full queue.
HangsOnNearest ==
    /\ \A s \in out.spans : span[s].parent = Nearest(span[s].in)
    /\ \A n \in out.logs : log[n].at = Nearest(log[n].in)

\* A provider's line that quotes a value it fetched is shown and exported only
\* when the core knows the value and masks it; but a value it sent and the core
\* never heard, for the conversation failed, is not masked.
MaskedWhenShown == bare # {} => talk = "failed"

\* When the plugin is gone the run's telemetry ends, whatever the exporters do.
TelemetryEnds == (plugin \in {"left", "killed"}) ~> (phase = "ended")
=============================================================================
