------------------------------- MODULE Command -------------------------------
(***************************************************************************)
(* A whole `loadsmith run`: the pipeline file is read, its secrets are     *)
(* resolved (Providers), run_pipeline makes its attempts                   *)
(* (loadsmith-core/src/runner.rs) and the command exits                    *)
(* (loadsmith-cli/src/main.rs, exit.rs).                                   *)
(*                                                                         *)
(* An attempt is here what run_attempt does around its parts: the lock,    *)
(* the directories, the processes and the tasks it has to end, in which    *)
(* order.  The parts themselves are other modules' (ControlChannel: a      *)
(* plugin's setup, DataPhase and ParserStage: the data phase,              *)
(* SinkSupervisor: the sink task, Delivery: the state task); what they may *)
(* end with is a choice here.                                              *)
(***************************************************************************)
EXTENDS Providers, Sequences

CONSTANTS
  MaxAttempts,   \* pipeline.recovery.max_attempts
  BackoffBase    \* pipeline.recovery.backoff_seconds

ASSUME CommandAssumption == MaxAttempts \in Nat \ {0} /\ BackoffBase \in Nat

VARIABLES
  shape,      \* the optional parts of this pipeline
  stage,      \* where the command is
  attempt, idle, wait,
  history,    \* of each failed attempt, whether it wrote rows
  lock,       \* the state lock: free, or held by the run or the state task
  live,       \* the plugin processes
  sinkTask, stateTask, \* none, running, ok or failed
  trigger,    \* the sink stage was told to halt
  outcome,    \* outcome_tx: held, or what was sent
  failure,    \* what the attempt failed with
  late,       \* late_failure
  staging,    \* the directory of staged files: none, there, removed
  downloads,  \* the raw source's: none, empty, files, removed
  flowing,    \* the attempt reached its data phase
  status,     \* of the attempt: none, success, cancelled, error (a Summary), err (an Err)
  exit,
  document    \* the status its machine-readable summary says, when it has one

attemptVars == <<lock, live, sinkTask, stateTask, trigger, outcome, failure, late, staging, downloads, flowing, status>>
loopVars    == <<attempt, idle, wait, history>>
vars == <<provVars, shape, stage, loopVars, attemptVars, exit, document>>

\* The stages of an attempt's setup that end in a data phase.
Steps == <<"lock", "prepare", "spawn", "configure", "gates", "sink", "producer", "drift", "state", "destination">>
StepAfter(s) == LET n == CHOOSE i \in 1..Len(Steps) : Steps[i] = s
                IN IF n = Len(Steps) THEN "data" ELSE Steps[n + 1]

Errors == {"not_found", "incompatible", "rejected", "config", "state", "failed", "process",
           "protocol", "timeout", "interrupted"}
Parts == {"parser", "sink", "state"}
Data == {"source", "destination"} \cup (shape \cap {"parser"})

\* Of a Summary, or of the Err an attempt has instead of one.
Statuses == {"none", "success", "cancelled", "error", "err"}

\* Exit: 0, 1, 2, 3, 4, 5, and 130 or 143.
Exits == {"success", "run_failed", "usage", "config", "plugin", "state", "signal"}

TypeOK ==
  /\ ProvTypeOK
  /\ shape \subseteq Parts
  /\ stage \in {"read", "resolve", "begin", "data", "abort", "await", "backoff", "report", "over"}
               \cup {Steps[i] : i \in 1..Len(Steps)}
  /\ attempt \in 1..MaxAttempts /\ idle \in 0..MaxAttempts /\ wait \in 0..3600
  /\ history \in Seq(BOOLEAN) /\ Len(history) < MaxAttempts
  /\ lock \in {"free", "run", "task"} /\ live \subseteq {"source", "parser", "destination", "sink"}
  /\ {sinkTask, stateTask} \subseteq {"none", "running", "ok", "failed"} /\ trigger \in BOOLEAN
  /\ outcome \in {"held", "ok", "failed"} /\ failure \in Errors \cup {"none"} /\ late \in BOOLEAN
  /\ staging \in {"none", "there", "removed"} /\ downloads \in {"none", "empty", "files", "removed"}
  /\ flowing \in BOOLEAN
  /\ status \in Statuses /\ exit \in Exits \cup {"none"}
  /\ document \in {"none", "success", "cancelled", "error"}

\* What an attempt begins with.
Fresh ==
  /\ lock = "free" /\ live = {} /\ sinkTask = "none" /\ stateTask = "none" /\ trigger = FALSE
  /\ outcome = "held" /\ failure = "none" /\ late = FALSE
  /\ staging = "none" /\ downloads = "none" /\ flowing = FALSE /\ status = "none"

Init ==
  /\ ProvInit /\ Fresh
  /\ shape \in SUBSET Parts
  /\ stage = "read" /\ attempt = 1 /\ idle = 0 /\ wait = 0 /\ history = <<>>
  /\ exit = "none" /\ document = "none"

----------------------------------------------------------------------------
(* The end of the command *)

\* What the document says of a run that ends with this code.
DocumentOf(code) ==
  CASE status \in {"none", "success"} /\ code = "success" -> "success"
    [] status = "cancelled" \/ (status \in {"none", "err"} /\ code = "signal") -> "cancelled"
    [] OTHER -> "error"

\* A summary file that was asked for and cannot be written fails a command
\* that succeeded.
End(code) ==
  /\ stage' = "over" /\ document' = DocumentOf(code)
  /\ exit' \in {code} \cup (IF code = "success" THEN {"run_failed"} ELSE {})

\* The exit code of an error.
Classify(e) ==
  CASE e \in {"not_found", "incompatible"} -> "plugin"
    [] e \in {"rejected", "config", "nobody"} -> "config"
    [] e = "state" -> "state"
    [] e = "interrupted" -> "signal"
    [] OTHER -> "run_failed"

----------------------------------------------------------------------------
(* Before the run *)

\* What a pipeline may be made of.
Valid(parts) == ~({"parser", "state"} \subseteq parts)

\* Every secret() names a declared instance, in a block resolved with them.
Placements == {"declared", "undeclared", "early"}
WellPlaced(placement) == placement = "declared"

\* Flags; the pipeline file and its static checks; then whatever of it needs
\* no provider.
ReadSource ==
  /\ stage = "read"
  /\ \/ End("usage")
     \/ \E readable, evaluates \in BOOLEAN, placement \in Placements :
          IF readable /\ Valid(shape) /\ WellPlaced(placement) /\ evaluates
          THEN stage' = "resolve" /\ UNCHANGED <<exit, document>>
          ELSE End("config")
  /\ UNCHANGED <<provVars, shape, loopVars, attemptVars>>

Resolve ==
  /\ stage = "resolve" /\ result = "none" /\ ProvNext
  /\ UNCHANGED <<shape, stage, loopVars, attemptVars, exit, document>>

\* A dry run ends here, and so does one whose configuration is only printed or
\* does not hold up.
AfterResolve ==
  /\ stage = "resolve" /\ result # "none"
  /\ \/ result = "resolved" /\ stage' = "begin" /\ UNCHANGED <<exit, document>>
     \/ result = "resolved" /\ \E code \in {"success", "config"} : End(code)
     \/ result # "resolved" /\ End(Classify(result))
  /\ UNCHANGED <<provVars, shape, loopVars, attemptVars>>

Signal ==
  /\ ~signal /\ stage # "over" /\ signal' = TRUE
  /\ UNCHANGED <<sessionVars, shape, stage, loopVars, attemptVars, exit, document>>

----------------------------------------------------------------------------
(* An attempt: setup *)

\* An early return: what was spawned is killed, the guard is dropped.
Return(e) ==
  /\ failure' = e /\ status' = "err" /\ live' = {} /\ lock' = "free" /\ stage' = "report"
  /\ UNCHANGED <<sinkTask, stateTask, trigger, outcome, late, staging, downloads, flowing>>

BeginAttempt ==
  /\ stage = "begin"
  /\ IF signal THEN Return("interrupted")
     ELSE stage' = "lock" /\ UNCHANGED attemptVars
  /\ UNCHANGED <<provVars, shape, loopVars, exit, document>>

\* The lock is taken and the state read.
Lock ==
  /\ stage = "lock"
  /\ \/ /\ lock' = IF "state" \in shape THEN "run" ELSE "free"
        /\ stage' = StepAfter(stage)
        /\ UNCHANGED <<live, sinkTask, stateTask, trigger, outcome, failure, late, staging, downloads, flowing, status>>
     \/ "state" \in shape /\ Return("state")
  /\ UNCHANGED <<provVars, shape, loopVars, exit, document>>

\* Binaries, configs, the staging directory.
Prepare ==
  /\ stage = "prepare"
  /\ \/ /\ staging' = IF "sink" \in shape THEN "there" ELSE "none"
        /\ stage' = StepAfter(stage)
        /\ UNCHANGED <<lock, live, sinkTask, stateTask, trigger, outcome, failure, late, downloads, flowing, status>>
     \/ \E e \in {"not_found", "config", "process"} : Return(e)
  /\ UNCHANGED <<provVars, shape, loopVars, exit, document>>

\* A process of its own group, which a signal at the terminal does not reach:
\* it lives until it ends or the core kills or drops it.
Spawned(plugins) == live' = live \cup plugins

SpawnPlugins ==
  /\ stage = "spawn"
  /\ \/ /\ Spawned(Data) /\ stage' = StepAfter(stage)
        /\ UNCHANGED <<lock, sinkTask, stateTask, trigger, outcome, failure, late, staging, downloads, flowing, status>>
     \/ Return("incompatible")
  /\ UNCHANGED <<provVars, shape, loopVars, exit, document>>

\* A failed setup step: the sink stage is told, then the plugins.
Abort(e) ==
  /\ failure' = e /\ trigger' = TRUE /\ stage' = "abort"
  /\ UNCHANGED <<lock, live, sinkTask, stateTask, outcome, late, staging, downloads, flowing, status>>

\* What a plugin's part of the setup may fail with; a signal ends every wait.
Refusals == {"incompatible", "rejected", "failed", "process", "protocol", "timeout"}
FailedStep(causes) ==
  \/ \E e \in causes : Abort(e)
  \/ signal /\ Abort("interrupted")

\* A raw source that asks for it gets its download directory.
ConfigurePlugins ==
  /\ stage = "configure"
  /\ \/ /\ downloads' \in {"none"} \cup (IF "parser" \in shape THEN {"empty"} ELSE {})
        /\ stage' = StepAfter(stage)
        /\ UNCHANGED <<lock, live, sinkTask, stateTask, trigger, outcome, failure, late, staging, flowing, status>>
     \/ FailedStep(Refusals)
  /\ UNCHANGED <<provVars, shape, loopVars, exit, document>>

\* A parser goes with a source that has files for it, and can parse.
ParserGate(able) ==
  CASE "parser" \in shape /\ "files" \notin able -> "config"
    [] "parser" \in shape /\ "parse" \notin able -> "incompatible"
    [] "parser" \notin shape /\ "files" \in able -> "config"
    [] OTHER -> "none"

\* What the plugins are able to, of what the pipeline needs.
Gates ==
  /\ stage = "gates"
  /\ \E able \in SUBSET {"files", "parse", "increments", "objects"} :
       LET refused == CASE ParserGate(able) # "none" -> ParserGate(able)
                        [] "state" \in shape /\ "increments" \notin able -> "config"
                        [] "sink" \in shape /\ "objects" \notin able -> "config"
                        [] OTHER -> "none"
       IN IF refused = "none" THEN stage' = StepAfter(stage) /\ UNCHANGED attemptVars
          ELSE Abort(refused)
  /\ UNCHANGED <<provVars, shape, loopVars, exit, document>>

LaunchSink ==
  /\ stage = "sink"
  /\ sinkTask' = IF "sink" \in shape THEN "running" ELSE "none"
  /\ stage' = StepAfter(stage)
  /\ UNCHANGED <<lock, live, stateTask, trigger, outcome, failure, late, staging, downloads, flowing, status>>
  /\ UNCHANGED <<provVars, shape, loopVars, exit, document>>

\* The source's start, the parser's, the schema and the stream's header.
StartProducer ==
  /\ stage = "producer"
  /\ \/ stage' = StepAfter(stage) /\ UNCHANGED attemptVars
     \/ FailedStep({"failed", "process", "protocol", "timeout"})
  /\ UNCHANGED <<provVars, shape, loopVars, exit, document>>

\* The state document that was read: its fingerprint may be one this version
\* cannot compare, or another one than the source's schema has now.
Priors == {"none", "older", "same", "changed"}
Policies == {"refuse", "continue"}
Comparable(prior) == prior \in {"same", "changed"}
Drifted(prior, policy) == Comparable(prior) /\ prior # "same" /\ policy = "refuse"

CheckDrift ==
  /\ stage = "drift"
  /\ \E prior \in Priors, policy \in Policies :
       IF "state" \in shape /\ Drifted(prior, policy) THEN Abort("state")
       ELSE stage' = StepAfter(stage) /\ UNCHANGED attemptVars
  /\ UNCHANGED <<provVars, shape, loopVars, exit, document>>

\* The guard of the lock goes with the state task.
LaunchState ==
  /\ stage = "state"
  /\ stateTask' = IF "state" \in shape THEN "running" ELSE "none"
  /\ lock' = IF "state" \in shape THEN "task" ELSE lock
  /\ stage' = StepAfter(stage)
  /\ UNCHANGED <<live, sinkTask, trigger, outcome, failure, late, staging, downloads, flowing, status>>
  /\ UNCHANGED <<provVars, shape, loopVars, exit, document>>

StartDestination ==
  /\ stage = "destination"
  /\ \/ /\ stage' = StepAfter(stage) /\ flowing' = TRUE
        /\ UNCHANGED <<lock, live, sinkTask, stateTask, trigger, outcome, failure, late, staging, downloads, status>>
     \/ FailedStep({"failed", "process", "protocol", "timeout"})
  /\ UNCHANGED <<provVars, shape, loopVars, exit, document>>

----------------------------------------------------------------------------
(* The tasks beside it *)

\* Mutant of StateEnds: the state task does not wait for the sink.
StateEndsUngated ==
  /\ stateTask = "running" /\ live \cap {"source", "destination"} = {}
  /\ outcome # "held" \/ sinkTask = "failed"
  /\ stateTask' \in {"ok", "failed"} /\ lock' = "free"
  /\ UNCHANGED <<live, sinkTask, trigger, outcome, failure, late, staging, downloads, flowing, status>>
  /\ UNCHANGED <<provVars, shape, stage, loopVars, exit, document>>

\* Behind both event drains and the sink's gate, and with everything delivered
\* behind the run's outcome: the last flush.  The guard goes with the task.
StateEnds ==
  /\ stateTask = "running" /\ live \cap {"source", "destination"} = {}
  /\ sinkTask # "running" /\ (outcome # "held" \/ sinkTask = "failed")
  /\ stateTask' \in {"ok", "failed"} /\ lock' = "free"
  /\ UNCHANGED <<live, sinkTask, trigger, outcome, failure, late, staging, downloads, flowing, status>>
  /\ UNCHANGED <<provVars, shape, stage, loopVars, exit, document>>

\* A persist that fails under way ends it as well.
PersistFails ==
  /\ stateTask = "running" /\ flowing
  /\ stateTask' = "failed" /\ lock' = "free"
  /\ UNCHANGED <<live, sinkTask, trigger, outcome, failure, late, staging, downloads, flowing, status>>
  /\ UNCHANGED <<provVars, shape, stage, loopVars, exit, document>>

SinkSpawns ==
  /\ sinkTask = "running" /\ "sink" \notin live
  /\ Spawned({"sink"})
  /\ UNCHANGED <<lock, sinkTask, stateTask, trigger, outcome, failure, late, staging, downloads, flowing, status>>
  /\ UNCHANGED <<provVars, shape, stage, loopVars, exit, document>>

\* It delivers everything, behind the destination's announcements, or fails; a
\* halt need not come in time.  Its sink has exited by then.
SinkEnds ==
  /\ sinkTask = "running"
  /\ \/ sinkTask' = "ok" /\ "destination" \notin live /\ "sink" \in live
     \/ sinkTask' = "failed"
  /\ live' = live \ {"sink"}
  /\ UNCHANGED <<lock, stateTask, trigger, outcome, failure, late, staging, downloads, flowing, status>>
  /\ UNCHANGED <<provVars, shape, stage, loopVars, exit, document>>

----------------------------------------------------------------------------
(* An attempt: the data phase and the teardown *)

DataEnds ==
  /\ stage = "data"
  /\ \/ /\ failure' = "none" /\ outcome' = "ok" /\ UNCHANGED trigger
     \/ /\ failure' \in {"failed", "process", "protocol", "timeout"} \cup (IF signal THEN {"interrupted"} ELSE {})
        /\ outcome' = "failed" /\ trigger' = TRUE
  /\ downloads' \in {downloads} \cup (IF downloads = "empty" THEN {"files"} ELSE {})
  /\ stage' = "abort"
  /\ UNCHANGED <<lock, live, sinkTask, stateTask, late, staging, flowing, status>>
  /\ UNCHANGED <<provVars, shape, loopVars, exit, document>>

\* The plugins finished or were told; each is gone within the grace period.
PluginsGone ==
  /\ stage = "abort"
  /\ live' = live \cap {"sink"} /\ stage' = "await"
  /\ UNCHANGED <<lock, sinkTask, stateTask, trigger, outcome, failure, late, staging, downloads, flowing, status>>
  /\ UNCHANGED <<provVars, shape, loopVars, exit, document>>

\* Mutant of SetupFailed: nobody waits for the sink stage.
SetupFailedHasty ==
  /\ stage = "await" /\ ~flowing
  /\ stateTask # "running"
  /\ status' = "err" /\ lock' = "free" /\ stage' = "report"
  /\ UNCHANGED <<live, sinkTask, stateTask, trigger, outcome, failure, late, staging, downloads, flowing>>
  /\ UNCHANGED <<provVars, shape, loopVars, exit, document>>

\* A failed setup: its tasks are awaited, and its error returned.
SetupFailed ==
  /\ stage = "await" /\ ~flowing
  /\ stateTask # "running" /\ sinkTask # "running"
  /\ status' = "err" /\ lock' = "free" /\ stage' = "report"
  /\ UNCHANGED <<live, sinkTask, stateTask, trigger, outcome, failure, late, staging, downloads, flowing>>
  /\ UNCHANGED <<provVars, shape, loopVars, exit, document>>

\* Mutant of LateFailure: only the sink's failure is one.
LateFailureSink == failure = "none" /\ sinkTask = "failed"

LateFailure == stateTask = "failed" \/ (failure = "none" /\ sinkTask = "failed")

\* The directories: staged files go when the sink has them; downloads go when
\* the whole run succeeded, or there are none.  A removal may fail.
Release(succeeded) ==
  /\ staging' \in {staging} \cup (IF staging = "there" /\ sinkTask = "ok" THEN {"removed"} ELSE {})
  /\ downloads' \in {downloads}
       \cup (IF downloads \in {"empty", "files"} /\ succeeded THEN {"removed"} ELSE {})
       \cup (IF downloads = "empty" THEN {"none"} ELSE {})

\* Behind the data phase the tasks are awaited, and what they ended with counts.
Teardown ==
  /\ stage = "await" /\ flowing
  /\ stateTask # "running" /\ sinkTask # "running"
  /\ late' = LateFailure
  /\ Release(failure = "none" /\ ~LateFailure)
  /\ status' = CASE failure = "interrupted" -> "cancelled"
                 [] failure # "none" \/ LateFailure -> "error"
                 [] OTHER -> "success"
  /\ stage' = "report"
  /\ UNCHANGED <<lock, live, sinkTask, stateTask, trigger, outcome, failure, flowing>>
  /\ UNCHANGED <<provVars, shape, loopVars, exit, document>>

----------------------------------------------------------------------------
(* The attempts *)

\* Mutant of Retryable: a state problem is tried again.
RetryableState(e) == e \in {"failed", "process", "rejected", "timeout", "state"}

Retryable(e) == e \in {"failed", "process", "rejected", "timeout"}

\* A Summary with status error is tried again whatever it failed with.
TryAgain == status = "error" \/ (status = "err" /\ Retryable(failure))

\* base after the first, doubled for each one after it, at most an hour.
Lesser(a, b) == IF a <= b THEN a ELSE b
Backoff(failures) == Lesser(BackoffBase * 2 ^ Lesser(IF failures = 0 THEN 0 ELSE failures - 1, 20), 3600)

\* Mutant of IdleAfter: an attempt that wrote rows is not counted itself.
IdleAfterProgress(progressed) == IF progressed THEN 0 ELSE idle + 1

IdleAfter(progressed) == IF progressed THEN 1 ELSE idle + 1

\* The exit code of the last attempt's result.
ExitOf ==
  CASE status = "success" -> "success"
    [] status = "cancelled" -> "signal"
    [] status = "error" -> "run_failed"
    [] OTHER -> Classify(failure)

\* An attempt ended: another one after a wait, or the end.  An attempt may
\* have written rows only where data flowed.
Report ==
  /\ stage = "report"
  /\ IF TryAgain /\ attempt < MaxAttempts /\ ~signal
     THEN \E progressed \in (IF status = "error" THEN BOOLEAN ELSE {FALSE}) :
            /\ idle' = IdleAfter(progressed) /\ wait' = Backoff(IdleAfter(progressed))
            /\ history' = Append(history, progressed)
            /\ stage' = "backoff" /\ UNCHANGED <<exit, document>>
     ELSE End(ExitOf) /\ UNCHANGED <<idle, wait, history>>
  /\ UNCHANGED <<provVars, shape, attempt, attemptVars>>

\* The wait passes, or the signal ends it; it may do so unheard.
WaitEnds ==
  /\ stage = "backoff"
  /\ \/ /\ attempt' = attempt + 1 /\ stage' = "begin"
        /\ lock' = "free" /\ live' = {} /\ sinkTask' = "none" /\ stateTask' = "none" /\ trigger' = FALSE
        /\ outcome' = "held" /\ failure' = "none" /\ late' = FALSE
        /\ staging' = "none" /\ downloads' = "none" /\ flowing' = FALSE /\ status' = "none"
        /\ UNCHANGED <<exit, document>>
     \/ signal /\ End(ExitOf) /\ UNCHANGED <<attempt, attemptVars>>
  /\ UNCHANGED <<provVars, shape, idle, wait, history>>

AttemptStep ==
  \/ BeginAttempt \/ Lock \/ Prepare \/ SpawnPlugins \/ ConfigurePlugins \/ Gates \/ LaunchSink
  \/ StartProducer \/ CheckDrift \/ LaunchState \/ StartDestination
  \/ DataEnds \/ PluginsGone \/ SetupFailed \/ Teardown \/ Report \/ WaitEnds

\* A run that waits for itself: the outcome the state task waits for is
\* dropped when run_attempt returns, which waits for the state task.
Stuck == stage = "await" /\ ~flowing /\ stateTask = "running" /\ sinkTask \in {"none", "ok"} /\ outcome = "held"

Rest == (stage = "over" \/ Stuck) /\ UNCHANGED vars

Next ==
  \/ ReadSource \/ Resolve \/ AfterResolve \/ Signal
  \/ AttemptStep \/ StateEnds \/ PersistFails \/ SinkSpawns \/ SinkEnds \/ Rest

Spec == Init /\ [][Next]_vars

\* The command goes on, the parts it waits for end (what ControlChannel,
\* DataPhase, ParserStage and SinkSupervisor show of them), and limits pass.
Fairness ==
  /\ WF_vars(ReadSource) /\ WF_vars(Resolve) /\ WF_vars(AfterResolve) /\ WF_vars(AttemptStep)
  /\ WF_vars(StateEnds) /\ WF_vars(SinkEnds)

FairSpec == Spec /\ Fairness

----------------------------------------------------------------------------
(* Properties *)

\* An attempt that is over, and a run that is over, leave nothing behind that
\* could meet the next one: no process, no task, and not the lock.  What was
\* removed from the disk is nothing anybody still needs.
NothingLeft ==
  stage \in {"report", "backoff", "begin", "over"} =>
    /\ live = {} /\ lock = "free"
    /\ "running" \notin {sinkTask, stateTask}
    /\ \A i \in Instances : proc[i] \notin {"up", "hung"}
    /\ staging = "removed" => sinkTask = "ok"
    /\ downloads = "removed" => status = "success"

\* Whoever asks how the run went is told the truth.  The code is 0 only when
\* every value was resolved and, unless nothing was to run, the load ended
\* well, its state was persisted and the sink delivered; a signal's code only
\* when one came.  The document says the same, but for a success whose file
\* was lost.
ExitTellsTheTruth ==
  /\ exit = "success" =>
       /\ document = "success"
       /\ \A i \in Instances : got[i] = References /\ failed[i] = "none"
       /\ status # "none" => /\ flowing /\ failure = "none"
                             /\ "state" \in shape => stateTask = "ok"
                             /\ "sink" \in shape => sinkTask = "ok"
  /\ exit = "signal" => signal
  /\ stage = "over" => /\ (document = "cancelled") = (exit = "signal")
                       /\ document = "success" => exit \in {"success", "run_failed"}

\* The lock covers everything a run with state does: while a plugin of it
\* lives, the lock is held, unless a failed persist ended the state task.
LockCoversTheRun ==
  "state" \in shape /\ live # {} => lock # "free" \/ stateTask = "failed"

\* The attempts since the last one that wrote rows, that one included.
Since ==
  LET wrote == {k \in 1..Len(history) : history[k]}
  IN IF wrote = {} THEN Len(history)
     ELSE Len(history) - (CHOOSE k \in wrote : \A m \in wrote : m <= k) + 1

\* A failure that cannot pass is not tried again, where nothing flowed; and one
\* that can only after a wait that doubled with every attempt behind the last
\* that wrote rows, from the base, up to an hour.
RetriedForACause ==
  [][attempt' # attempt =>
       /\ flowing \/ failure \in {"failed", "process", "rejected", "timeout"}
       /\ wait = Lesser(3600, BackoffBase * 2 ^ (Since - 1))]_vars

\* The command ends, whatever fails, hangs or is signalled, or it is stuck in
\* the one way Stuck describes.
EndsOrStuck == <>(stage = "over" \/ Stuck)

\* The command ends: "the plugins are cancelled and reaped first", then the
\* error is returned (runner.rs:133).  It does not hold: see Stuck.
CommandEnds == <>(stage = "over")
=============================================================================
