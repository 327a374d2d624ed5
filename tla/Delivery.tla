------------------------------ MODULE Delivery ------------------------------
(***************************************************************************)
(* A pipeline with a sink and incremental state, over its attempts: the    *)
(* source reads blocks of rows in cursor order, the destination stages     *)
(* them in files, the sink stage delivers the files (SinkSupervisor), the  *)
(* state supervisor (state_supervisor.rs) persists the watermark behind    *)
(* the delivered files, and an attempt that failed or crashed is           *)
(* continued by the next one from the document it left (runner.rs).        *)
(*                                                                         *)
(* A block is one batch.  Batch and file numbers are the attempt's own, as *)
(* in the code; its batch k is block base + k of the source, and its file  *)
(* i is the target's object first + i - 1.                                 *)
(***************************************************************************)
EXTENDS SinkSupervisor

CONSTANTS
  Blocks,        \* bound: what the source ever holds
  FileBlocks,    \* blocks the destination puts in a file before the next one
  Interval,      \* state.checkpoint_interval
  MaxAttempts,   \* bound: attempts, in this process or the next
  CoreFaults     \* what may go wrong with the rest of the run (RunFaults)

RunFaults ==
  {"fails", "dstDies", "crash", "orphan", "persistError", "signal", "grows", "lateOrphan", "startsOver"}

ASSUME DeliveryAssumption ==
  /\ Blocks \in Nat /\ FileBlocks \in Nat \ {0}
  /\ Interval \in Nat
  /\ MaxAttempts \in Nat \ {0}
  /\ CoreFaults \subseteq RunFaults
  /\ MaxFiles * FileBlocks >= Blocks

VARIABLES
  attempt,      \* the attempt's number
  base,         \* the watermark it resumed from
  first,        \* first_object_seq
  atSource,     \* blocks the source holds by now
  read,         \* batches read in this attempt
  srcOpen,      \* the source's event channel is open
  committed,    \* the destination's last Committed
  finalized,    \* the destination finished
  outcome,      \* the data phase: running, ok or failed
  checkpoints,  \* checkpoint_at: batches whose checkpoint arrived
  seen,         \* delivered.objects, as the state supervisor knows it
  persistedAt,  \* last_persisted_seq
  tracking,     \* the state supervisor: on, done, or failed to persist
  signalled,    \* the operator asked the run to stop
  doc,          \* the state document: watermark, and next_object_seq or 0
  over,         \* what a source that started over made of the files doc counts
  target,       \* what the target's objects hold
  orphan        \* uploads that a sink left behind by a crashed core may still do

attemptVars == <<attempt, base, first>>
planeVars   == <<read, srcOpen, committed, finalized, outcome>>
stateVars   == <<checkpoints, seen, persistedAt, tracking>>
worldVars   == <<atSource, signalled, target, orphan>>
docVars     == <<doc, over>>
vars == <<supVars, attemptVars, planeVars, stateVars, worldVars, docVars>>

Objects == 1 .. MaxFiles * MaxAttempts

\* The last batch of the attempt's first i files.
LastOf(i) == Min({i * FileBlocks, read})

\* What file i holds, in blocks of the source, and what it is called.
Content(i) == (base + LastOf(i - 1) + 1) .. (base + LastOf(i))
Name(i) == first + i - 1

Init ==
  /\ SupInit
  /\ attempt = 1 /\ base = 0 /\ first = 1
  /\ atSource \in 1..Blocks
  /\ read = 0 /\ srcOpen = TRUE /\ committed = 0 /\ finalized = FALSE /\ outcome = "running"
  /\ checkpoints = {} /\ seen = 0 /\ persistedAt = 0 /\ tracking = "on"
  /\ signalled = FALSE
  /\ doc = [cursor |-> 0, next |-> 0] /\ over = "no"
  /\ target = [o \in Objects |-> {}]
  /\ orphan = {}

TypeOK ==
  /\ SupTypeOK
  /\ attempt \in 1..MaxAttempts /\ base \in 0..Blocks /\ first \in Nat \ {0}
  /\ atSource \in 1..Blocks
  /\ read \in 0 .. atSource - base
  /\ srcOpen \in BOOLEAN /\ committed \in 0..read /\ finalized \in BOOLEAN
  /\ outcome \in {"running", "ok", "failed"}
  /\ checkpoints \subseteq 1..read /\ seen \in 0..staged /\ persistedAt \in 0..read
  /\ tracking \in {"on", "done", "failed"} /\ signalled \in BOOLEAN
  /\ doc.cursor \in 0..Blocks /\ doc.next \in 0 .. MaxFiles * MaxAttempts + 1
  /\ over \in {"no", "redoing", "mixed"}
  /\ target \in [Objects -> SUBSET (1..Blocks)]
  /\ orphan \subseteq Objects \X SUBSET (1..Blocks)

----------------------------------------------------------------------------
(* The data plane *)

Running == outcome = "running" /\ ~finalized

\* A sink left behind by a crashed core is done before the next attempt reads:
\* that one first waits for the crashed run's lease to expire.  One that is
\* late is a fault.
ReadBatch ==
  /\ Running /\ srcOpen
  /\ orphan = {} \/ "lateOrphan" \in CoreFaults
  /\ base + read < atSource
  /\ read' = read + 1
  /\ UNCHANGED <<supVars, attemptVars, srcOpen, committed, finalized, outcome, stateVars, worldVars, docVars>>

SourceEnds ==
  /\ Running /\ srcOpen
  /\ base + read = atSource
  /\ srcOpen' = FALSE
  /\ UNCHANGED <<supVars, attemptVars, read, committed, finalized, outcome, stateVars, worldVars, docVars>>

\* A file is announced when it is full, or at the end of the input.
StageFile ==
  /\ Running
  /\ LastOf(staged) < read
  /\ (staged + 1) * FileBlocks <= read \/ ~srcOpen
  /\ Announce
  /\ UNCHANGED <<attemptVars, planeVars, stateVars, worldVars, docVars>>

\* durable_through: the SDK reports it behind the files it announced.
Commit ==
  /\ Running /\ eventsOpen
  /\ committed < LastOf(staged)
  /\ committed' = LastOf(staged)
  /\ UNCHANGED <<supVars, attemptVars, read, srcOpen, finalized, outcome, stateVars, worldVars, docVars>>

\* finalize, the last Committed, and the end of its event channel; finished
\* comes after that.
Finalize ==
  /\ Running /\ ~srcOpen
  /\ LastOf(staged) = read
  /\ committed' = read
  /\ finalized' = TRUE
  /\ EventsEnd
  /\ UNCHANGED <<attemptVars, read, srcOpen, outcome, stateVars, worldVars, docVars>>

DstDies ==
  /\ "dstDies" \in CoreFaults
  /\ outcome = "running"
  /\ EventsEnd
  /\ UNCHANGED <<attemptVars, planeVars, stateVars, worldVars, docVars>>

DataPhaseEnds ==
  /\ outcome = "running" /\ finalized
  /\ outcome' = "ok"
  /\ UNCHANGED <<supVars, attemptVars, read, srcOpen, committed, finalized, stateVars, worldVars, docVars>>

\* A failure or a signal: the runner stops the sink stage and the plugins.
DataPhaseFails ==
  /\ outcome = "running"
  /\ "fails" \in CoreFaults \/ (~eventsOpen /\ ~finalized) \/ signalled
  /\ outcome' = "failed"
  /\ Abort
  /\ UNCHANGED <<attemptVars, read, srcOpen, committed, finalized, stateVars, worldVars, docVars>>

PluginsGone ==
  /\ outcome = "failed"
  /\ srcOpen \/ eventsOpen
  /\ srcOpen' = FALSE
  /\ eventsOpen' = FALSE
  /\ UNCHANGED <<staged, halt, ledgerVars, driveVars, sinkVars, attemptVars, read, committed,
                 finalized, outcome, stateVars, worldVars, docVars>>

Signal ==
  /\ "signal" \in CoreFaults
  /\ ~signalled
  /\ signalled' = TRUE
  /\ UNCHANGED <<supVars, attemptVars, planeVars, stateVars, atSource, target, orphan, docVars>>

Grow ==
  /\ "grows" \in CoreFaults
  /\ atSource < Blocks
  /\ atSource' = atSource + 1
  /\ UNCHANGED <<supVars, attemptVars, planeVars, stateVars, signalled, target, orphan, docVars>>

----------------------------------------------------------------------------
(* The state supervisor *)

\* Mutant of Safe: the checkpoint just past the frontier.
SafeBeyond(checkpointed, frontier) == Max({0} \cup {c \in checkpointed : c <= frontier + 1})

\* safe_checkpoint: the last checkpoint at or below the frontier, or 0.
Safe(checkpointed, frontier) == Max({0} \cup {c \in checkpointed : c <= frontier})

\* Mutant of Looping: the end of the event channels not noticed.
LoopingOn == tracking = "on"

\* run_state_supervisor's loop runs while a plugin's event channel is open.
Looping == tracking = "on" /\ (srcOpen \/ eventsOpen)

Record(batch, objects) == [cursor |-> base + batch, next |-> first + objects]

\* A document written by an attempt that started over counts that attempt's own
\* files again.
Rewrites == over' = IF over = "redoing" THEN "no" ELSE over

\* The throttled persist that ends every turn of the loop.
PersistDue(checkpointed, objects) ==
  LET batch == Safe(checkpointed, LastOf(objects))
  IN  IF Interval > 0 /\ batch > 0 /\ batch >= persistedAt + Interval
      THEN \/ /\ doc' = Record(batch, objects) /\ Rewrites
              /\ persistedAt' = batch
              /\ UNCHANGED tracking
           \/ /\ "persistError" \in CoreFaults
              /\ tracking' = "failed"
              /\ UNCHANGED <<docVars, persistedAt>>
      ELSE UNCHANGED <<docVars, persistedAt, tracking>>

CheckpointArrives(c) ==
  /\ Looping /\ srcOpen
  /\ c \in 1..read /\ \A b \in checkpoints : b < c
  /\ checkpoints' = checkpoints \cup {c}
  /\ PersistDue(checkpoints', seen)
  /\ UNCHANGED <<supVars, attemptVars, planeVars, seen, worldVars>>

PrefixArrives ==
  /\ Looping
  /\ prefixTx # <<>>
  /\ seen' = Head(prefixTx)
  /\ prefixTx' = Tail(prefixTx)
  /\ PersistDue(checkpoints, seen')
  /\ UNCHANGED <<inputVars, received, delivered, inputClosed, reported, driveVars, sinkVars,
                 attemptVars, planeVars, checkpoints, worldVars>>

\* Mutant of Drained: the prefixes still queued when the gate resolves left out.
SeenOnly == seen

\* What the supervisor knows once the gate has resolved: the prefixes still
\* queued count, the latest last.
Drained == IF prefixTx = <<>> THEN seen ELSE prefixTx[Len(prefixTx)]

\* Mutant of Advances: whatever is safe is written.
AnythingSafe(batch) == batch > 0

\* The last flush writes what advanced beyond the throttled persists.
Advances(batch) == batch > 0 /\ batch > persistedAt

\* Past the loop, the delivery gate and the run's outcome: the last flush.
FinalFlush ==
  /\ tracking = "on" /\ ~Looping
  /\ sup \in Over /\ outcome # "running"
  /\ LET allDelivered == sup = "done"
         succeeded == allDelivered /\ outcome = "ok"
         batch == Safe(checkpoints, IF allDelivered THEN committed ELSE LastOf(Drained))
         document == IF succeeded THEN [cursor |-> base + batch, next |-> 0] ELSE Record(batch, Drained)
         clears == succeeded /\ doc.next # 0
         writes == Advances(batch) \/ clears
     IN  \/ /\ writes
            /\ \/ batch > 0 /\ doc' = document /\ Rewrites
               \/ batch = 0 /\ doc' = [doc EXCEPT !.next = 0] /\ UNCHANGED over
            /\ tracking' = "done"
         \/ /\ ~writes
            /\ tracking' = "done"
            /\ UNCHANGED docVars
         \/ /\ writes /\ "persistError" \in CoreFaults
            /\ tracking' = "failed"
            /\ UNCHANGED docVars
  /\ UNCHANGED <<supVars, attemptVars, planeVars, checkpoints, seen, persistedAt, worldVars>>

----------------------------------------------------------------------------
(* The sink's uploads, with what they put at the target *)

Upload(i) ==
  /\ Land(i)
  /\ target' = [target EXCEPT ![Name(i)] = Content(i)]
  /\ UNCHANGED <<attemptVars, planeVars, stateVars, atSource, signalled, orphan, docVars>>

SinkStage ==
  /\ \/ SupervisorStep
     \/ SinkFinish \/ SinkFails \/ SinkHangs \/ ResendRequested \/ Pong
     \/ \E i \in Files : Ack(i)
  /\ UNCHANGED <<attemptVars, planeVars, stateVars, worldVars, docVars>>

OrphanUploads ==
  \E upload \in orphan :
    /\ target' = [target EXCEPT ![upload[1]] = upload[2]]
    /\ orphan' = orphan \ {upload}
    /\ UNCHANGED <<supVars, attemptVars, planeVars, stateVars, atSource, signalled, docVars>>

----------------------------------------------------------------------------
(* Attempts *)

AttemptOver == sup \in Over /\ outcome # "running" /\ tracking # "on" /\ ~srcOpen /\ ~eventsOpen

\* The final flush of a run that succeeded, which clears its resume record: a
\* run after that is another one, with names of its own.
Succeeded == sup = "done" /\ outcome = "ok" /\ tracking = "done"

\* What the source makes of the resume record: it continues where it stopped,
\* or, one that was handed its token back, reads everything again
\* (schema.resumed).  A source that resumes at a watermark has no such choice.
Resumes == IF "startsOver" \in CoreFaults /\ doc.next # 0 THEN BOOLEAN ELSE {TRUE}

\* Mutant of FirstObject: every attempt numbers its files from 1.
FromOne(resumed) == 1

\* first_object_seq: a failed run's files are numbered on when the source
\* continues and there is something to continue from.
FirstObject(resumed) == IF resumed /\ doc.next # 0 /\ doc.cursor > 0 THEN doc.next ELSE 1

\* Files of an attempt that starts over replace those the document counts, until
\* it writes the document itself.  Should the source continue from that document
\* after all, what it counts is a mix.
Redone(resumed) ==
  CASE over = "no"      -> IF resumed THEN "no" ELSE "redoing"
    [] over = "redoing" -> IF resumed THEN "mixed" ELSE "redoing"
    [] over = "mixed"   -> "mixed"

\* Mutant of FreshState: what the attempt before persisted still counts.
FreshStateButPersisted == checkpoints' = {} /\ seen' = 0 /\ persistedAt' = persistedAt /\ tracking' = "on"

\* A state supervisor starts from nothing but the document.
FreshState == checkpoints' = {} /\ seen' = 0 /\ persistedAt' = 0 /\ tracking' = "on"

\* The next attempt resumes from the document: at its watermark or token, and
\* with the numbering of the failed run's files; or it starts over.
Begin ==
  /\ attempt < MaxAttempts
  /\ attempt' = attempt + 1
  /\ \E resumed \in Resumes :
       /\ base' = IF resumed THEN doc.cursor ELSE 0
       /\ first' = FirstObject(resumed)
       /\ over' = Redone(resumed)
  /\ staged' = 0 /\ eventsOpen' = TRUE /\ halt' = FALSE
  /\ sup' = "spawning"
  /\ received' = 0 /\ delivered' = {} /\ inputClosed' = FALSE
  /\ restarts' = 0 /\ reported' = 0 /\ prefixTx' = <<>>
  /\ halting' = FALSE /\ pinged' = FALSE
  /\ inSink' = {} /\ landed' = {} /\ acks' = {} /\ farewell' = "none" /\ hung' = FALSE
  /\ read' = 0 /\ srcOpen' = TRUE /\ committed' = 0 /\ finalized' = FALSE /\ outcome' = "running"
  /\ FreshState
  /\ signalled' = FALSE
  /\ UNCHANGED <<atSource, target, doc>>

Retry ==
  /\ AttemptOver /\ ~Succeeded
  /\ Begin
  /\ UNCHANGED orphan

\* SIGKILL: what is left is the document and the target.  A sink that the
\* crashed core leaves behind takes the end of its stdin for the end of its
\* input, and delivers what it was handed.
Crash ==
  /\ "crash" \in CoreFaults
  /\ ~Succeeded
  /\ Begin
  /\ orphan' = orphan \cup
       IF "orphan" \in CoreFaults /\ Alive THEN {<<Name(i), Content(i)>> : i \in inSink \ landed} ELSE {}

Stop ==
  /\ AttemptOver
  /\ Succeeded \/ attempt = MaxAttempts
  /\ UNCHANGED vars

CoreStep ==
  \/ ReadBatch \/ SourceEnds \/ StageFile \/ Commit \/ Finalize
  \/ DataPhaseEnds \/ DataPhaseFails \/ PluginsGone
  \/ PrefixArrives \/ FinalFlush
  \/ \E c \in 1..Blocks : CheckpointArrives(c)

Next ==
  \/ CoreStep \/ SinkStage \/ \E i \in Files : Upload(i)
  \/ DstDies \/ Signal \/ Grow \/ OrphanUploads
  \/ Retry \/ Crash \/ Stop

Spec == Init /\ [][Next]_vars

\* The core and the state supervisor are scheduled; the source reads on and the
\* destination writes; nobody has to fail, to grow or to signal, and a signal
\* is acted on while the data phase runs.
CoreFairness ==
  /\ WF_vars(ReadBatch) /\ WF_vars(SourceEnds) /\ WF_vars(StageFile) /\ WF_vars(Finalize)
  /\ WF_vars(DataPhaseEnds) /\ WF_vars(DataPhaseFails) /\ WF_vars(PluginsGone)
  /\ WF_vars(PrefixArrives) /\ WF_vars(FinalFlush)
  /\ WF_vars(Retry)

Quiet == UNCHANGED <<attemptVars, planeVars, stateVars, worldVars, docVars>>

StageFairness ==
  /\ WF_vars(Spawn /\ Quiet) /\ WF_vars(ReceiveObject /\ Quiet) /\ WF_vars(InputEnds /\ Quiet)
  /\ WF_vars(Finished /\ Quiet) /\ WF_vars(PingTick /\ Quiet)
  /\ WF_vars(Halt /\ Quiet) /\ WF_vars(GraceEnds /\ Quiet)
  /\ \A i \in Files : WF_vars(ObjectDelivered(i) /\ Quiet)

\* A sink that is as slow as it likes, and one that gets on with its work.
SlowSinkSpec == Spec /\ CoreFairness /\ StageFairness
FairSpec ==
  /\ SlowSinkSpec
  /\ WF_vars(SinkFinish /\ Quiet)
  /\ \A i \in Files : WF_vars(Upload(i) \/ (Ack(i) /\ Quiet))

----------------------------------------------------------------------------
(* Properties *)

AtTarget == UNION {target[o] : o \in Objects}

\* Whatever lies at or below the persisted watermark is at the target, for
\* good: no crash, retry or later attempt leaves a gap behind it.  While an
\* attempt that started over replaces the failed run's files, up to its first
\* persist, the document claims nothing: the token in it is one that the source
\* could not continue from.
NoGap == over = "no" => 1..doc.cursor \subseteq AtTarget

\* A file that the resume record counts as delivered is never replaced, unless
\* by an attempt whose source started over, which replaces them all.
RecordedFilesKept ==
  [][over = "no" => \A o \in Objects : o < doc.next => target'[o] = target[o]]_vars

\* Over all its attempts the pipeline never moves its watermark back, unless
\* its source started over.
CursorForward == [][over = "no" => doc'.cursor >= doc.cursor]_vars

\* A run that ends well left everything its source held at the target, also one
\* that started over.
SuccessDeliversAll == Succeeded /\ over # "mixed" => 1 .. base + read \subseteq AtTarget

\* What the sink acknowledged before it was stopped is not read again: the
\* document accounts for it when the run ends.
StoppedSinkCounts ==
  over = "no" /\ tracking = "done" /\ sup \in {"halted", "failed"}
    => doc.cursor >= base + Safe(checkpoints, LastOf(Prefix(delivered)))

\* Every attempt ends, and with them the run.
RunEnds == <>[]AttemptOver

\* A signal stops the run, whatever the sink does.
SignalStops == [](signalled => <>(AttemptOver \/ ~signalled))
============================================================================
