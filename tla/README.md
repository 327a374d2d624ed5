# A TLA+ model of loadsmith

loadsmith moves data from a source to a destination, each a plugin process of
its own, and keeps three promises while doing so: a load arrives as a whole or
not at all, an incremental pipeline loses no row over crashes and retries, and
two runs of one pipeline do not work on its state at once. This directory
models the engine, its plugin SDK and the commands around them, checks the
models with TLC and proves the most important properties with TLAPS.

Paths are relative to the repository; `core/` stands for
`crates/loadsmith-core/src/` and `sdk/` for `crates/loadsmith-plugin-sdk/src/`.

## 1. Inventory

### The parts, their state and what makes them correct

| Part | Code | State | Operations | What makes it correct | Modelled |
|---|---|---|---|---|---|
| State lock | `core/state.rs`, `core/state_s3.rs`, `crates/loadsmith-aws/src/s3.rs` | the lock (a file or an object), each run's lease, lost flag and renewal timer | acquire, renew every 5 s, release, take an expired lease | one run works at a time, but for a run that was overtaken; a renewal touches only the run's own lease; a crashed holder is replaced without help | `Lease`, `S3Lock`, `LocalLock` |
| State document | same | watermark, resume record | load, persist | no run works on an old one while nobody was overtaken | same |
| Sink supervisor | `core/sink_supervisor.rs`, `sdk/sink.rs` | ledger of emitted and delivered files, delivered prefix, restarts | hand over, acknowledge, ping, resend, restart, halt | a stage that ends well delivered every file; a reported prefix is at the target | `SinkSupervisor` |
| State supervisor | `core/state_supervisor.rs`, `core/events.rs` | checkpoints, durable frontier, last persisted batch | throttled persist, final flush | nothing below the persisted watermark is missing at the target | `Delivery` |
| Attempts | `core/runner.rs` (`run_pipeline`, `run_attempt`), `core/error.rs` | the attempt, its processes, tasks, lock and directories, its resume point | set up, run, tear down, classify, wait, retry | delivered files are not replaced; an attempt leaves nothing behind; only what can pass is tried again | `Command`, `Delivery` |
| Data phase | `core/runner.rs` (`supervise_data_phase`), `core/pump.rs`, `sdk/source.rs`, `sdk/destination.rs` | what was heard of source, pump and destination; the commit; deadlines | forward, drain, commit, abort, reap | the destination's input ends cleanly only behind the whole data; success is real; every run ends | `DataPhase`, `AtomicLoad` |
| Flow control | `core/pump.rs` (`FlowWindow`), `sdk/flow.rs` | window, largest batch, grant, the source's gate | forward, relay, fetch | a source is never more than a window ahead, and never starves | `FlowControl`, `BoundedBuffer` |
| Parser feed | `core/parser_feed.rs`, `sdk/parser.rs`, `sdk/object_source.rs` | open inputs, files handed over, the deadline for the source's end | announce, feed, end of input, parse | a file is parsed once; a load is committed only with every file whose line arrived or could be repeated; the parser's input ends only after the raw source succeeded | `ParserStage` |
| Control channel | `core/peer.rs`, `core/lifecycle.rs`, `sdk/control.rs`, `crates/loadsmith-protocol` | last message of either side, malformed streak, the step of the conversation | ask, answer, repeat, abort, wind down, kill | no answer is taken for another's; a garbled line is repaired where somebody is left to repeat it; what was started is undone before its end is reported | `ControlChannel` |
| Plugin setup | `core/lifecycle.rs`, `core/load.rs`, `core/spawner.rs` | processes started so far | handshake, configure, start | what was started is stopped | `ControlChannel` (one plugin), `Command` (all of them) |
| Providers | `core/providers.rs`, `sdk/provider.rs` | provider sessions, resolved values | resolve, stop the others | the error reported is one that happened by itself; no provider is left | `Providers` |
| The command | `crates/loadsmith-cli/src/main.rs`, `exit.rs`, `crates/loadsmith-config` | the exit code, the summary document | read, resolve, run, report | code and document tell the truth | `Command` |
| Signals | `core/shutdown.rs` | the signal received | trigger, wait | the run stops | an input of every module |
| Telemetry | `sdk/telemetry.rs`, `core/telemetry/` | the recorder's queue, series and counters; held lines; the exporters | record, write, read, hold, mask, export, flush | everything recorded arrives or is counted as dropped, but for two bounds nobody counts at; spans hang together; values are masked; the end is not held up | `Telemetry` |
| Installation | `crates/loadsmith-cli/src/plugin_install.rs` | the plugin directory | install, install a binary, uninstall | only verified content is written; success means whole and executable binaries | `Installation` |
| Configuration, templates | `crates/loadsmith-config`, `sdk/config*.rs` | none | parse, render | sequential text processing | only which pipelines are refused, in `Command` |
| Watermark cursor | `sdk/watermark.rs` | last cursor values | batch, end | no row of a tied value is skipped | no |
| AWS credentials and signing, TLS, Arrow, object keys | `crates/loadsmith-aws`, `crates/loadsmith-tls`, `crates/loadsmith-arrow` | caches of credentials | cryptography, HTTP, value conversion | | no |

### How they interact

`loadsmith run` reads the pipeline file, resolves its secrets in parallel
provider sessions, and calls `run_pipeline`, which runs attempts until one
succeeds, one fails for good or no more are allowed; the command then prints a
summary and exits with a code of its own for every kind of failure.

An attempt takes the state lock and loads the document, spawns source,
destination and (if configured) parser and sink, talks each through handshake,
configuration and start over its control channel, and runs three supervisors
side by side: the **data phase**, fed by the plugins' control channels, the
pump's end and a watchdog; the **sink supervisor**, fed by the destination's
`object_ready` events over an unbounded channel; and the **state supervisor**,
fed by the source's checkpoints, the destination's committed batches and the
sink supervisor's delivered prefixes. With a parser the source announces files
instead of writing a stream, and the **feed** hands them to the parser. At the
end of an attempt the data phase ends first, then the plugins' event channels
drain, then the sink stage ends, then the state supervisor does its last flush;
two one-shot channels (the delivery gate and the outcome) order the last two.
The lease is renewed from a thread of its own and shares nothing with the
supervisors: no supervisor looks at whether it was lost.

Next to control channel and data stream a plugin has fd4, over which its
recorder sends spans, lines and metrics; the core reads it while the plugin
runs, except a provider's, which it holds back until the values are known that
have to be masked in it.

### What is hard about it

* *Interleavings*: three supervisors, a pump thread, a commit on a blocking
  thread, four channels per plugin that break in any order when it dies;
  provider sessions that stop each other.
* *Failures*: a plugin may report an error, crash or hang anywhere; a sink is
  restarted and must be given what its predecessor did not acknowledge; every
  step of a setup may fail with others already running.
* *Crashes*: SIGKILL between any two writes; a sink that survives the core; a
  command that dies while it writes a binary.
* *Ordering*: files are acknowledged out of order; checkpoints, commits and
  prefixes reach the state supervisor over different channels; the parser's
  report, its stream's end and the end of its input come in any order.
* *Timeouts and retries*: leases measured on several clocks, requests that are
  repeated by the S3 client, deadlines everywhere, pings to the sink, lines
  that are repeated on request, attempts that are made again.
* *Limits*: windows, queues and rates that coalesce or drop.

`PROJECT.json` lists every hazard at its line with the properties that cover it.

## 2. The modules

| Module | Models | Extends / uses |
|---|---|---|
| `ExclusiveState` | abstract: who takes the document owns it alone but for owners that were overtaken; no owner works on an old one until somebody was | |
| `Lease` | acquire, renew, release, the document, clocks and crashes: what both backends share | `ExclusiveState` |
| `S3Lock` | the lease over conditional PUTs that are repeated when no answer comes | `Lease` |
| `LocalLock` | the lease over a lock file that is created, written and renamed | `Lease` |
| `LockProofs` | theorems about `S3Lock` and `LocalLock` | `S3Lock`, `LocalLock` |
| `SinkSupervisor` | the sink stage and the sink process | |
| `Delivery` | source, destination, sink stage, state supervisor and the attempts | `SinkSupervisor` |
| `DeliveryProofs` | theorems about `SinkSupervisor` and `Delivery` | `Delivery` |
| `AtomicLoad` | abstract: the target takes a load as a whole, or not at all | |
| `DataPhase` | source, pump, destination and the runner's loop; refinement of `AtomicLoad` | `AtomicLoad` |
| `BoundedBuffer` | abstract: a buffer of a fixed size | |
| `FlowControl` | the pump's window, the relay of its grants, the source's gate, garbled lines; refinement of `BoundedBuffer` | `BoundedBuffer` |
| `DataPlaneProofs` | theorems about `DataPhase` and `FlowControl` | `DataPhase`, `FlowControl` |
| `ParserStage` | raw source, feed, parser, the data phase around them | |
| `ParserStageProofs` | theorems about `ParserStage` | `ParserStage` |
| `ControlChannel` | the core and one plugin, from the handshake to the plugin's end | |
| `ControlChannelProofs` | theorems about `ControlChannel` | `ControlChannel` |
| `Providers` | the provider sessions of a command | |
| `Command` | a whole `loadsmith run`: reading, resolving, attempts, exit | `Providers` |
| `CommandProofs` | theorems about `Providers` and `Command` | `Command` |
| `Telemetry` | one plugin's recorder, fd4, the core's reader and the exporters | |
| `TelemetryProofs` | theorems about `Telemetry` | `Telemetry` |
| `Installation` | install and uninstall commands over one plugin directory | |
| `InstallationProofs` | theorems about `Installation` | `Installation` |
| `MCLock` | numbered runs over either backend, their clocks, fairness | `S3Lock`, `LocalLock` |
| `MCDataPlane` | the data phase and flow control side by side in one run | `DataPhase`, `FlowControl` |
| `MCInstallation` | the symmetry of commands and kinds | `Installation` |

### State and actions against the code

**The lock.** A member of `Runs` is one acquisition; those in `Crashed` were over
before the first state and may have left a lease of any age, torn or whole. `pc`
is where a run's thread stands: `create`, `look`, `watching`, `stealing` are the
phases of `acquire`; `holding` is a run with its guard, `renewing` (and
`rewriting`, over the file) the renewal thread between its read and its write;
`releasing` and `removing` are the drop of the guard. No clock value is kept: the
lock carries its age in ticks, a run the ticks since it began to watch, made the
lease it is about to write, or was due to renew; `Skew` is how far a run's wall
clock is ahead. Nothing ties a run to the time: `Tick` may come any number of
times between any two of its steps, so a request takes as long as it likes. The
version of the lock (an ETag, or the file's content) is abstracted to `fresh`,
the set of runs whose last look still shows what is stored; every write empties
it. `Request` lists what one conditional request can do and answer; one that was
applied and whose answer was lost is made again, with the same condition, up to
`MaxRepeats` times (`repeats`). Over the file, creation and writing are two
steps, as are the two halves of a replacement through the shared temporary file.

The history `overtaken`, which no guard reads, collects the runs that lose the
lock while they have it: to a taker that found the lease lapsed, or to a write
that looks at no version (a DELETE, a rename) after another run wrote. `view` is
what a run knows of the document: nothing, the one stored, or an older one.

**The sink stage.** A file is its position in the destination's announcements.
Each branch of the `select` in `drive_instance` is an action, and `Recover` is
what every recoverable end of a sink process does. `inSink`, `landed` and `acks`
are the sink process's: files it holds, files at the target, acknowledgements on
their way. `InputOpen` is the top of the loop, where the sink's stdin is closed.

**Delivery.** `Delivery` adds the plane around it: batches read, checkpoints,
committed batches, the resume document (`doc`), what the target's objects hold
by name (`target`), and attempts that start from the document. A batch is a
block of the source's rows; a block at or below `doc.cursor` is never read
again, so `NoGap` (all of them are at the target) is the promise of the
incremental pipeline in one line. When the record holds a resume token the source
may answer that it reads everything again (`Resumes`, fault `startsOver`; a source
that does not answer counts as one that does so): `FirstObject` then numbers from 1, and the attempt's
files replace the recorded ones (`Redone`). `over` remembers that the document
still counts files that are being replaced (`"redoing"`, until the attempt
persists: `Rewrites`), and that a later attempt continued from that document after
all (`"mixed"`).

**The data phase.** `made`, `pumped`, `forwarded` and `taken` count batches in
the four places they pass. `phase` is the runner: its loop, the abort, the reap.
`HearX` is the loop's branch for X and `Watchdog` the tick that looks at the
deadlines; a deadline that is set may pass at any time. The commit task is on
its own (`CommitWrites`), since it waits for room in the pipe. Plugins behave as
the SDK makes them, but for a source that reports success without ending its
stream (`srcLies`).

**Flow control.** A grant passes four places: `granted` (the pump's window, a
watch channel that keeps the latest value only), `relayed` (what the runner last
took from it), `wire` (lines on the source's stdin) and `gate` (what the SDK
knows). `Write` puts a line on the wire, or a garbled one in its place;
`resends` are the requests of a source that met one, answered with `last`, the
last line the core remembers having sent. The pump reads a batch (`PumpReads`)
and hands it on or, once the run aborts, drops it (`PumpHandsOn`); both grant. A
source asks for one batch more than there are, so it needs a grant to find its
end (`Exhaust`).

**The parser stage.** `announced` are the raw source's announcements, `events`
those the feed has not read, `sent` the files it handed over. A file then is a
line in `queue` (the writer task), in `stdin` (the pipe), in the parser's
`inbox`, and at last a batch in `written`. The feed's actions are the branches
of `Feed`'s handlers: `FeedObject`, `FeedClosed`, `FeedFinished`, `FeedGone`,
`FeedOverdue`, and `EndInput`, which follows whichever of the raw source's
report and its channel's end comes last. `HearX` are the data phase's branches
for the parser; `Replay` answers its request for a repetition with the last
line the core sent, if the parser's input is still open, and `unrepaired` keeps
the files whose garbled line was not the one repeated. The
destination is only its readiness and its failure.

**The control channel.** `toPlugin` and `toCore` are the two pipes; `Arrives`
takes a line from one, whole or garbled. The core's side is the sequence
`Requests`/`Answers` of `lifecycle.rs`, `step` where it is; the plugin's is
`Script`, `expects` where it is. `SendAgain` and `PluginTakesAgain` are the two
sides' answers to a request for a repetition, with `coreStreak` and
`pluginStreak` the malformed lines in a row. The plugin carries out what it was
told in steps of its own (`Configures`, `Starts`, `WorkEnds`), `Concludes` is
the SDK's end: undo what was started, then report. On the core's side an abort
tells the plugin (`Tell`), waits out a grace period (`WindDown`), kills and
reaps.

**Providers and the command.** A session goes through `Spawn`, `SetUp`,
`Hear` and `WindDown`, one request at a time; what fails stops the rest through
`halt`, and `induced` marks a failure that this caused. `Command` extends it:
`stage` is the place in `main`, `run_pipeline` and `run_attempt`, each of whose
steps (`Steps`, in the code's order) is an action that either goes on or fails
with the errors that step can have. `Abort` is the arm a failed step takes,
`SetupFailed` and `Teardown` the two ways an attempt is torn down, `Report` the
decision to try again. What the supervisors end with is a choice here
(`DataEnds`, `SinkEnds`, `StateEnds`, `PersistFails`) and shown in the modules
that model them; `shape` says which optional parts the pipeline has.

**Telemetry.** `span`, `log` and `measured` are what the plugin recorded,
`pending` is its recorder's queue, `series` the measurements of each series since
the last delta, of which the core will make `gathered` again and leave out
`beyond`, a histogram's beyond `MaxReplay`; `lost` are the counters of what the
recorder dropped. `writer` is the one task that owns fd4: a batch, then the
metrics, for which it takes the series (`TakeSeries`) and then the counters
(`TakeCounters`), while the plugin goes on recording. The core forwards what it reads, or holds it (`held`, `overflow`)
for a provider, whose conversation (`talk`) ends with every value heard or with
a failure; `out` is what it handed to the exporters, `crowded` what a full queue of
theirs refused (`Enqueue`; the queue is shared with all other plugins and the core,
so it may be full whenever anything arrives). `Resolved` computes the settings
from flags, file and environment.

**Installation.** A command is a record of what was asked for and its phase:
index, manifest, artifact, verification, then each binary opened, written, made
executable. `file` is what the directory holds, `open` who writes to it; `by`
collects who opened a file since it was last truncated. Runs start binaries
(`Spawn`) without asking anybody.

### Abstractions

Rows are blocks, files are numbers, messages are the actions that take them.
Transport, formats and wording are left out. In particular:

* In `Delivery` the data phase is coarser than in `DataPhase` (it runs, ends
  well or fails), and in `DataPhase` there is no sink; the two meet in
  `outcome`. Setup is one step of `Delivery`, `Providers` and of each plugin in
  `Command`; `ControlChannel` has its lines.
* In `ParserStage` a file is one batch, and a deadline that is set may pass at
  any time.
* In the lock, a request that the client gave up on and the store applies only
  later is not modelled; one that is applied although the client gave up on it
  is. Writing the temporary file is one step.
* In `Delivery` a source that reports a watermark and a token, and starts over at
  its watermark, is not modelled: a source that does not resume "reads everything
  again" (`docs/src/protocol/messages.md:254`).
* In `ControlChannel` a garbled line is one whose reader cannot parse it; a line
  that is garbled into another valid one is not modelled.
* In `Command` a pipeline is only its optional parts; of the configuration all
  that can go wrong before the run is one choice.
* In `Telemetry` a message is read in the step that writes it, exports happen at
  the flush, a killed process loses its memory, and a plugin's recording is over
  when its final write begins. Spans below INFO, unsampled ones and those before
  the configuration are "unseen". A histogram is cut to exactly `MaxReplay`
  measurements; the code scales each bucket and rounds down, so it may lose a few
  more. Points that the core would skip for their value (a negative counter) do
  not occur: the SDK's `Instrument::add` ignores a negative value, and its
  deltas are always of a known kind. The core's own spans and metrics are not there.
* In `Installation` a download is whole or garbled, a manifest usable or not; a
  garbled manifest parses as an incompatible one.

## 3. The runs

| Run | Question | Bounds |
|---|---|---|
| `lock` | Who works on the state beside whom, over either store; does a renewal replace only the run's own lease; does every run that wants the lock get it or a refusal? | 2 runs and a third that crashed before, lease 3 ticks, renewal each tick, clocks up to a tick apart, 2 repetitions of a request, every fault |
| `lock_retried` | Is a lease given up as lost only when another has the lock? (no) | 2 runs, one lost answer per request |
| `sink_stage` | Is a stage that ends well complete, is a prefix at the target, does the stage end? | 3 files, one without a range, 2 restarts, every fault |
| `delivery` | Is there ever a gap behind the watermark, is a delivered file replaced? | 3 blocks, 2 files of up to 2, 2 attempts, a restart, crashes, orphans, signals, failed persists, a source that grows at any time or starts over |
| `delivery_rangeless` | Is there a gap with a destination that announces no ranges? (yes) | 2 files without ranges |
| `data_plane` | Is the load atomic, is the guilty blamed, does the phase end? Is a source bounded by the window and the budget, and does it ever wait for ever? | data phase: 3 batches, pipes of 2, every limit and every fault; flow control: 6 batches of 3 sizes, window of 3, budget of 4, 2 garbled lines, an abort |
| `parser_stage` | Is every file parsed, once, before the load is committed, who is blamed, does the stage end? | 2 files, pipes of 1, a garbled line, every fault |
| `parser_garbled` | Is every announced file in a committed load though a line is garbled? (no) | 2 files, one garbled line, no other fault |
| `control_channel` | Do core and plugin stay in step, which garbled lines are repaired, does the conversation end? | one plugin, 3 garbled lines of both directions, every fault |
| `command` | Is anything left behind, do the exit code and the document tell the truth, does the command end? | 2 providers with 2 values each, 4 attempts, every shape of pipeline, every fault and a signal |
| `telemetry` | Is everything accounted for, does the trace hold together, is a value ever shown, does the run end? | 2 spans, 2 lines, 2 measurements, 3 records in all; a queue of one, one series, one span a second, one held line, a histogram of which one measurement is made again, full exporter queues; every setting |
| `installation` | Is only verified content written, is a reported success true, is the rest of the directory left alone? | 2 commands, 2 packages, 2 kinds, 2 redirects, one binary running |

*Why the bounds are enough.* Two runs compete for the lease a third left behind,
whole or torn and of any age, so that two takers of one lapsed lease occur, which
a lock file does not tell apart; each of them may also take from the other.
Three that all start were checked once (2.2 million states, nothing else found).
The lease takes 3 ticks of which a renewal uses one, so it may be renewed in time, late, or too
late; no relation between these numbers is assumed. Two
attempts contain everything one hands to the next, since nothing but the
document and the target survives; three blocks in files of two let a watermark
lie inside a file, and a retry cut its files elsewhere. Three files with one unranged are the shortest
ledger with a gap in the acknowledgements behind and before an unranged file.
Three batches with pipes of two fill a pipe and leave one at the source.
Six batches are twice the window: the window grows, shrinks below what was
granted and is caught up with; sizes of 1, 2 and 5 against a budget of 4 give
every window from one to three. Two garbled lines are a repeated line that is
garbled again, and two in a row; the control channel, where both sides ask, has
three, so that a repetition and the request for it can both be lost. Two files
of a raw source are one in the parser's hands and one on the way, behind which
the end of the input can come too early. Two providers are the one that fails
and the one that is stopped, four attempts reach the third doubling of the wait
behind an attempt that wrote rows. Limits of one in `Telemetry` are reached by
the second record. Two commands are all that two writers of a file need; of the
two packages one is what a publisher should not publish, the other is installed
already and sound. The run of the sink stage lets each fault happen in each of
the three processes it may start. `Tick` is bounded by `MaxAge`, beyond which
ages compare alike.

*Fairness.* Weak fairness is given to the core's threads and tasks (the tokio
scheduler and the operating system run a task that can run; a `select` is a
loop, so each branch gets its turn), to timers that stay armed, and to a plugin
process that is neither hung nor gone. Nothing has to fail, hang, crash, signal
or grow. `DeliveryEnds` assumes in addition that a sink that does not hang gets
on with its work (`SinkFairness`) and that a hung sink is one the pings can find
(`Watched`). `ParserStage`, `ControlChannel` and `DataPhase` are checked to end
with every limit set; with a limit of 0 a hung plugin is waited for. In
`Command` the parts an attempt waits for end, which is what the other modules
show of them. In `Telemetry` the core reads, flushes and gives up; the plugin need not leave.
`AcquireEnds` gives fairness to time and to the thread of the run that acquires,
over either store, and to nobody else: the other runs may stop anywhere. An
installation has no timeout at all, so no liveness is claimed of it.

`lock`, `data_plane` (its flow control), `telemetry` and `installation` may stop
(every run is over, a source waits behind a run that aborted, a process has nothing
left to do), so deadlock is not checked there; elsewhere the end is a step of its own and deadlock is checked.

## 4. What is proved

All theorems hold for every value of the constants under the modules' `ASSUME`s
(named, and evaluated by TLC on every run).

`DataPlaneProofs`, the data phase. The inductive invariant `PhaseInv` says where the data is:
the pump keeps nothing back unless the run aborts or the destination's stream
is closed (`PumpFaithful`), what the runner heard was said (`HeardWasSaid`), it
aborts only after a failure (`FailureStops`), and from the commit point on the
source vouched for all of its data and all of it was handed on
(`CommitCovers`). The safety properties are corners of it; none of them is
inductive alone, since the marker is written by a task that looks at nothing
but the decision the runner took earlier. From it follow `PhaseTypeOK`,
`PhaseCommitsOnlyWhole`, `PhaseFinalizesOnlyWhole`, `PhaseSuccessIsReal` and
the refinement `PhaseImplementsAtomicLoad`: the source's steps are the
producer's, the destination's end decides the target, and everything else
stutters. `PhaseBlamesTheGuilty` adds the traces a breakdown leaves (`Traces`).

`LockProofs`. Nothing is assumed of time, of clocks, of how fast a run is, of how
many runs there are or of which requests are repeated: whatever makes a run lose
its lock unnoticed makes it a member of `overtaken`, and the theorems say what
that leaves. The inductive invariant is the same over both stores. `LockInv` says
that who has the lock and was not overtaken finds its own lease in it (`Held`),
that a lock is somebody's (`Owned`), what the last look of a run is worth as long as
nobody writes (`Looked`: a run that renews or removes had its own lease before it, a
watcher has not watched longer than the lease is old, a taker found it lapsed), and
that a run that works on an old document implies that somebody was overtaken
(`Known`). From it follow `S3Alone` and, over the lock file with `FileInv` (which adds that the
shared temporary file holds some run's lease, `TmpOwned`), `FileAlone`: two runs
work at once only when one of them was overtaken. `S3ImplementsExclusiveState` and
`FileImplementsExclusiveState` map every step of the code's lock to a step of the
ownership: who takes the document owns it alone but for owners that were overtaken,
and until somebody was, what an owner persists goes on from the stored document.
`S3RenewsOwnOnly` rests on the conditional PUT alone and holds with repetitions
too; over the lock file there is no such property, since a rename compares nothing.
That a lease renewed in time is not overtaken is false of this code, by the ways
section 5 lists, so no theorem says it.

`DataPlaneProofs`, flow control. A grant never grows on its way (`GrantsTravel`), and the
pump has one batch in hand and grants at most a window ahead of what it handed
on (`WindowAhead`); so a source that obeys a late grant is within the present
one (`FlowWithinGrant`), and source and pump implement a buffer of
`max_inflight_batches` (`FlowImplementsBoundedBuffer`). `WindowFits` carries the
budget (`FlowWithinBudget`), and `FlowTypeCorrect` the types. Nothing is assumed of the number of lines garbled
or of the sizes of batches.

`DeliveryProofs`, the sink stage. `SinkInv` says that what is acknowledged is at the
target (`AcksAreTrue`), that what is not is in the hands of the process being
driven, dead or alive (`HandedOver`), and that the end of the input is seen
behind the last file, a success behind the end of the input (`EndsInOrder`).
`SinkAllHandedOver`, `SinkDoneMeansDelivered` and `SinkPrefixLanded` are corners
of it, for any numbers of files and restarts. `SinkDoneMeansDelivered` assumes
`HonestSink`: no success before the input ended, as the SDK's sink has it.

`DeliveryProofs`, the attempts. `DeliveryInv` ties the four counts of files to each other and
to the target: a file keeps its content once it is announced (`Announced`); the
state supervisor has heard, or will, of exactly the delivered prefix (`Told`);
what landed in this attempt is there (`Placed`), what the attempts before are
relied on for is in objects this one does not name (`Behind`); the document
counts delivered files, and no row behind them (`Recorded`). `Harmless` says that
a sink left behind by a crash names no object that is relied on. An attempt whose
source starts over replaces what the document counts; until it persists the
document is exempt (`over`), and with its first persist it counts that attempt's
files as any other does. A source that later continues from the token it had
started over from leaves a mix about which nothing is said: the invariant is
`DeliveryOrMixed`, and a mix stays one (`MixedStays`). With
`DocumentHolds`, every block below the watermark is in one of the files the
record counts, the next attempt begins with `Behind` again. From it follow
`DeliveryNoGap` and `DeliveryRecordedFilesKept`; `DeliverySuccessDeliversAll` adds
that a destination that finished had staged all that was read (`Ended`), and
`DeliveryCursorForward` and `DeliveryStoppedSinkCounts` that the document is at
the last persist while the state is tracked (`Tracked`). They hold for any numbers of blocks, files, restarts and attempts and assume `Orderly`: the
destination announces batch ranges (section 5 shows what happens if not),
`HonestSink`, and no late orphan. `DeliveryTypeOK` assumes none of
that; its invariant says besides that no attempt numbers its files beyond its share
of the objects (`Numbered`) and that the document's watermark is a position the
source has reached (`DocumentTypes`).

`ControlChannelProofs`. The channel has no sequence numbers, and a request for a
repetition is answered with whatever was written last; that no side is misled
by it is an invariant of both ends together. `ChannelInv` says: every answer on
its way, or remembered to be repeated, is true of the plugin (`AnswersTrue`); the
plugin carried out configure and start once each, and only when its script was
there (`CarriedOut`); the core is never ahead of the plugin (`CoreBehind`); and
the plugin's report of its end is its last word (`EndsOnce`). `ChannelInStep` and
`ChannelUndoneBeforeSaid` follow for any number of garbled lines, any choice of
limits and all faults; nothing is assumed but the constants' types.
`ChannelRepairsOne` says which single garbled line does no harm and names those that
do (section 5). It has invariants of its own, `RepairInv`, for the
conversations in which one line was garbled and no more: while the two
speak about a step exactly one token is under way between them, be it a request, its answer, a garbled line or
the request to repeat it (`OneToken`); what waits in each pipe is of the step the
reading side is at (`PluginSide`, `CoreSide`), so that a repeated line is the one
that was lost; and nobody asks without a cause (`AskedForCause`). And `Ending`, which follows a plugin's
last word from the plugin to the core: said, it is on its way, heard, or garbled itself.

`ParserStageProofs`. Between its announcement and its batch a file passes the
feed's event channel, the writer's queue, the pipe and the parser's inbox, and may
be no more than a request to repeat a garbled line.
`StageInv` says where each is: the feed has handed over what it took from the
event channel (`FeedInv`); the lines in queue and pipe are of such files, and the
end of the input is behind all of them, sent only when the raw source succeeded
(`InputInv`); what the parser saw it has queued or written, once, and its marker
is behind them (`ParsedInv`); its report is the last it says and true (`WordsInv`).
`CarriedInv` puts it together: each file handed over is parsed, queued, on its way
or asked for again, unless the parser is doomed or stopped by itself, or the file's
own garbled line was answered by another's repetition or by none (`unrepaired`, each
a line that was garbled). At the commit every place but the stream is empty, which
is `StageCommitsEveryFile`: such files excepted, and section 5 shows a load that
lacks one, a garbled line costs no file, and neither does the order of reports; `StageNothingTwice`, `StageBlamesTheGuilty` and
`StageNoEndAfterFailure` are corners of the same invariant. They hold for any
number of files, any room in the pipes, any number of garbled lines and all
faults, a source that announces a file again included.

`CommandProofs`. `CommandInv` follows the command through its stages. Of the
resolution it says how far each session is (`Progress`, `Ended`), and that who
fails by itself is guilty and who does not was stopped by one who is (`Blame`,
`HaltHasCause`): `CommandRootIsReal`. Of an attempt it says who lives at which
stage (`Living`), which tasks run (`Tasks`), who has the lock (`Guarded`: the run,
then the state task, which gives it back), and what was removed (`Kept`), which
give `CommandLeavesNothing` and `CommandHoldsTheLock`; `Reported` and `Told` carry
the outcome to the exit code and the document, `CommandTellsTheTruth`. `Counted`
ties the backoff's counter to the history of attempts. `CommandCountsAttempts`
says for any number of attempts that one follows only a cause that may pass and
waits the `Backoff` of the attempts behind the last that wrote rows;
`CommandRetries` is the property the run checks, with the doubling written out,
and assumes at most 22 attempts: beyond that the code cuts the exponent at 20, and
the provers know of `^` only what it is of given numbers, not that a greater
exponent gives a greater power.

`TelemetryProofs`. Spans are numbered as they open, so the chain of enclosing spans
descends, and what `ContextOf` finds on it is characterised by minimal elements
(the library's `WFMin`) and not by recursion: the nearest span above that was
admitted, or the core's. `Sorted` says that what lies in a queue was recorded and
that its spans are closed, `Shape` that a span is opened inside one that is open;
with them `Hangs` gives `TelemetryHangsOnNearest`: a line or a span that was exported
refers to the nearest span the budget admitted.
`Masks`, which relates the provider's conversation to what is held, gives `TelemetryMasked`.
`TelemetryAccounts` needs to know what the end of a plugin leaves behind (`Ends`: its last write takes
queue, series and counters) and `Accounts`, the sum over all places a line, a
span or a measurement can be: kept, in a queue or in a message under way, counted
by a counter that is itself still in the recorder, in a message, or with the
exporters, be it among what the core leaves out of a histogram or what a full queue
refused: the two that the code does not count, and the theorem says that there is
no third. The sum over a queue is stated by its partial sums (`Total`), which a
longer or shorter queue extends or shifts, so that no fold has to be unfolded.
All hold for any number of spans, lines, measurements and instruments, any bounds
of the recorder, the core and `MAX_REPLAY`, queues that are full at any moment, all
settings and faults.

`InstallationProofs`. `InstallInv` follows each binary through the command that
is due to write it: a command in `extract` writes verified content, one binary at
a time, of the package at hand (`OnItsWay`, `Apart`); what it was asked for it
has, has before it, or said it skips (`Covered`); and a command alone at a binary
(`by = {c}`) has it open or has written it whole (`Alone`). `InstallOnlyVerified`,
`InstallReportIsTrue` and `InstallLeavesOthersAlone` hold for any number of
commands, packages and kinds, for whatever is published, and with crashes, full
disks, refusals and garbled downloads; assumed are finite sets and that a
command's identity is no content of an old file.

*Only model-checked*: the liveness properties (`AcquireEnds`, `DeliveryEnds`,
`HaltEnds`, `PhaseEnds`, `SourceNeverStarves`, `StageEnds`, `ConversationEnds`,
`EndsOrStuck`, `TelemetryEnds`: TLAPS does not reason about fairness here), and
`CommandRetries` beyond 22 attempts. Every invariant and every property of steps
that a passing run checks is stated by a theorem.

*Stated and not run.* The modules keep properties that no run checks any more:
`CommitsOnlyWhole`, `FinalizesOnlyWhole`,
`SuccessIsReal`, `WithinGrant`, `SuccessDeliversAll`, `StoppedSinkCounts` and
`CursorForward`, each proved above; the type invariants, proved as well and a line away from any
configuration; `AbortEnds`, beside the `RunEnds` of `DataPhase`; and those that section 5
shows to fail.

## 5. Where code and documentation part

Shown by a run:

* `lock_retried` (`LostMeansTaken`): a renewal whose answer is lost is repeated
  with the same `If-Match` (`s3.rs:193`), refused because of its own first write,
  and read as a lost lease (`state.rs:530`). The holder renews no more and works on
  under a lease nobody else has; when it has lapsed another run takes it, as
  `CHANGELOG.md:43-45` excludes. The passing run has these repetitions too: a run
  overtaken so is one of `overtaken`.
* `delivery_rangeless` (`NoGap`): without batch ranges a failed attempt
  persists the committed watermark with a record that counts no file
  (`state_supervisor.rs:183`); the next attempt's files replace them.
* `parser_garbled` (`NoFileLost`): a repetition on request is the last line written
  (`peer.rs:287`), and there is none once the parser's input is closed. When the
  line that was lost was an earlier one, the parser gets one it has parsed already
  and ignores it, or nothing, and finishes well; the core does not match
  `object_parsed` against what it handed over (`events.rs:156` only logs it). The
  load is committed without that file, where `protocol/reference.md:99-103` has it
  repaired, or the run failed.

Met while modelling. Each of the first group has a configuration beside the
modules that reproduces it, e.g.
`tlc -config MCCommandStuck.cfg Command.tla`:

* `MCSinkSupervisorFinalize` (`SinkSupervisor`, `StageEnds`): after its input was
  closed a sink is neither pinged nor timed out (`sink_supervisor.rs:431`), while
  `sink-delivery.md:124-126` and `pipeline-yaml.md:185` bound it.
* `MCDeliverySignal` (`Delivery`, `SignalStops`): past the data phase nothing
  looks at the operator's signal (`runner.rs:884`, against 496-497 and
  `cli.md:80-82`).
* `MCDeliveryEnds` (`Delivery`, `RunEnds`): passes; with the two above it shows
  that the run of `Delivery` ends but for those two.
* `MCDeliveryOrphan` (`Delivery`, `RecordedFilesKept`): nothing stops the sink of
  a killed core (`sdk/sink.rs:126-163` takes the end of its stdin for the end of
  its input). If it is still uploading when the next attempt writes, its files,
  which were cut elsewhere, replace that attempt's under the same names. The
  other runs leave this out (`lateOrphan`): the next attempt first waits for the
  killed run's lease to expire, some 15 s.
* `MCDataPhaseCommit` (`DataPhase`, `NoCleanEndAfterAbort`): a commit that waits
  for the pipe cannot be aborted (`runner.rs:1473`, against 1471 and
  `protocol/reference.md:343-344`).
* `MCCommandStuck` (`Command`, `CommandEnds`): a setup that fails after the state
  task was spawned waits for that task (`runner.rs:743`), which waits for the
  outcome (`state_supervisor.rs:170-174`) whose sender the failed setup still
  holds (`runner.rs:509`, comment 507-508). The command hangs.

The model can be set up to show each of these:

* A run suspended between its last look at the lock and the DELETE removes
  another run's lock (`state.rs:553`), and so does a DELETE that is repeated
  because its first answer was lost; `state.rs:369` says that a holder never
  deletes a lock whose token is not its own.
* A clock ahead by more than a lease makes a live lease look expired
  (`state.rs:466`; `MCLock` with `Skew <- FarClocks`), while
  `docs/src/architecture/incremental-state.md:130-131` says skew cannot fool it.
* Replacing the lock file compares nothing (`state.rs:685`): two runs that
  watched a crashed holder can both take it, and one's renewal can rename over the
  other's lease.
* A holder that is suspended, or whose renewals fail or take longer than a lease,
  works on while another has taken its lock: nothing looks at `lost` or at the
  lease before a persist (`state_supervisor.rs:132`).
* A lock file whose content could not be written counts as held
  (`state.rs:667`; fault `shortWrite`) until the first renewal.
* An attempt whose source starts over stages its files under the recorded ones'
  names (`runner.rs:674-678`, as it says) while the document, up to its first
  persist, still counts the replaced files. If it fails before, and the source
  then continues from that old token, the target holds a mix.
* A sink that reports success before its input ended ends the stage
  (`sink_supervisor.rs:405`; fault `finishesEarly`).
* While a halt waits, a resend request hands the sink files it never had
  (`sink_supervisor.rs:414` against lines 325-328).
* A frozen sink with a full pipe holds the supervisor in a write
  (`sink_supervisor.rs:446`; `sup = "blocked"`): `HaltEnds` excludes it.
* With a destination that died and a sink that then ended well, the frontier is
  the destination's last commit, behind what was delivered
  (`state_supervisor.rs:148`): rows are read twice, none is lost.
* A persist that fails in the middle of a run ends the state supervisor, which
  gives the lock back while the run goes on until it next waits for it.
* After an abort no grant reaches the source, since the loop that relays them is
  over (`runner.rs:1280`), while a comment says that it "keeps getting credit"
  (`pump.rs:207-208`). The cancel, which does reach it, is what ends it.
* A garbled credit whose request for a repetition is garbled too is lost: the
  core asks in turn and gets the source's last message. The source waits until
  the stall limit ends the run (`peer.rs:304-321`, `sdk/control.rs:179-189`);
  `FlowControl` garbles lines to the source only.
* A garbled `set_protocol_version` is not repaired: the next request is already
  behind it, and is what is repeated. A plugin's garbled `finished` or
  `configure_error` is not repeated either, the plugin being gone: the core reports
  that it exited without sending it, and the error's class is lost. A garbled
  `ready` that a success overtakes ends the conversation as a failure. `RepairsOne`
  names the three.
* Prefixes of a draining sink are not persisted before it ends
  (`state_supervisor.rs:107`).
* The deadline for the source's report runs on while the pump waits for a slow
  destination (`runner.rs:1344`).
* A protocol violation, and a `Summary` error of any class, is retried
  (`runner.rs:167-171`, `retryable`), while the comment on it (234-238) and
  `docs/src/reference/pipeline-yaml.md:131-133` list what is not.
* With `--json`, the document on stdout says exit code 0 when the summary file
  could not be written and the command exits with 1 (`main.rs:432-443`).
* The staging directory of an attempt whose setup failed is not removed.
* The lines a provider held back are masked with the values the core heard; a
  value the plugin sent but the core no longer read is shown
  (`providers.rs:272-273` says otherwise).
* Two losses of telemetry are counted nowhere: of a histogram point the core makes
  at most `MAX_REPLAY` measurements again (`core/telemetry/plugin.rs:252`, 314-318),
  and the exporters' batch queues have the library's default size and drop what does
  not fit (`core/telemetry/export.rs:128-147`). `docs/src/architecture/telemetry.md:136-138`
  promises the count for the SDK's own bounds only.
* A span that is shed from a full queue leaves its children with a parent nobody
  was sent; a held line that overflows is not counted anywhere.
* Nothing excludes two installs from each other: two versions of a package can
  end up mixed, two writers of one binary can leave a mixture. A crash or full
  disk leaves a binary cut short, executable where an old one was
  (`plugin_install.rs:234`); it cannot be written while a run executes it.
* A garbled manifest counts as incompatible, and `--all` skips it.
* An uninstall without a kind removes whatever ends in `-<name>`, other packages'
  binaries included (`plugin_install.rs:203`, against its comment 188-190).

## 6. What is left

Planned and done: the lock, the sink stage, delivery over attempts, the data
phase, flow control, the parser stage, the control channel, providers, the
command with its attempts and retries, telemetry and installation.

*Not modelled.*
* The watermark cursor (`sdk/watermark.rs`), object keys, Arrow conversion and
  the parsing, templates and masking of configurations are sequential functions
  of strings, rows and values; what they are used for (numbers that are not
  reused, pipelines that are refused, values that are masked) is in `Delivery`,
  `Command` and `Telemetry`.
* AWS credentials, request signing and TLS are calls of services and
  cryptography; a failure of theirs is a failed request of `S3Lock`.
* The core's own spans and metrics go through a library's exporter; only the end
  of the exporter is modelled.
* How a plugin's own code reads and writes rows is not the repository's.
