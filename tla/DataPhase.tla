----------------------------- MODULE DataPhase -----------------------------
(***************************************************************************)
(* The data phase of one run: the pump copies the source's batches to the  *)
(* destination (loadsmith-core/src/pump.rs), and the runner supervises     *)
(* both, ends the destination's input at the commit point and aborts on    *)
(* the first failure (supervise_data_phase and what follows it in          *)
(* loadsmith-core/src/runner.rs).  Source and destination do as the plugin *)
(* SDK does; a source may also report success without having ended its     *)
(* stream, as a plugin built without the SDK might.                        *)
(*                                                                         *)
(* A deadline that is set may pass at any time.                            *)
(***************************************************************************)
EXTENDS Integers, FiniteSets

CONSTANTS
  Batches,   \* bound: batches a source produces
  PipeRoom,  \* batches a data pipe holds
  Limits,    \* the timeouts that are not 0
  Faults     \* what may go wrong (PhaseFaults)

PhaseLimits == {"finish", "finalize", "stall"}
PhaseFaults == {"srcFails", "srcCrashes", "srcHangs", "srcLies",
                "dstFails", "dstCrashes", "dstHangs", "signal"}

ASSUME PhaseAssumption ==
  /\ Batches \in Nat /\ PipeRoom \in Nat \ {0}
  /\ Limits \subseteq PhaseLimits
  /\ Faults \subseteq PhaseFaults

VARIABLES
  made,       \* batches the source wrote to its stream
  srcEnd,     \* how its stream ended: not yet, with the marker, or cut
  srcSaid,    \* the status of its finished
  srcGone, srcHung,
  taken,      \* batches the destination read
  marker,     \* the end-of-stream marker is in the destination's input
  dst,        \* what the destination did with its data
  dstSaid, dstGone, dstHung,
  pumped,     \* batches the pump read
  forwarded,  \* batches it wrote to the destination
  output,     \* PumpOutput: the destination's stream, open or closed
  pumpOver,   \* how the pump ended
  phase,      \* where the runner is
  failure,    \* the failure it ended the data phase with
  pumpHeard,  \* pump_outcome: it knows that the pump ended
  srcHeard,   \* src.finished()
  dstHeard,   \* dst.finished()
  commit,     \* the commit task: writes the marker, away from the loop
  finishDue,  \* source_end_deadline is set
  finalizeDue \* finalize_deadline is set

srcVars  == <<made, srcEnd, srcSaid, srcGone, srcHung>>
dstVars  == <<taken, dst, dstSaid, dstGone, dstHung>>
pumpVars == <<pumped, forwarded, output, pumpOver>>
hearing  == <<pumpHeard, srcHeard, dstHeard>>
dueVars  == <<finishDue, finalizeDue>>
coreVars == <<phase, failure, hearing, commit, dueVars>>
vars     == <<srcVars, dstVars, pumpVars, marker, coreVars>>

Said == {"nothing", "success", "error"}
Causes == {"source", "sourceLate", "destination", "destinationLate", "stalled", "signal"}

TypeOK ==
  /\ made \in 0..Batches /\ srcEnd \in {"open", "marker", "cut"}
  /\ srcSaid \in Said /\ srcGone \in BOOLEAN /\ srcHung \in BOOLEAN
  /\ pumped \in 0..made /\ forwarded \in 0..pumped /\ taken \in 0..forwarded
  /\ marker \in BOOLEAN
  /\ dst \in {"reading", "finalizing", "finalized", "undone"}
  /\ dstSaid \in Said /\ dstGone \in BOOLEAN /\ dstHung \in BOOLEAN
  /\ output \in {"open", "closed"} /\ pumpOver \in {"running", "clean", "cut"}
  /\ phase \in {"supervising", "failed", "aborting", "reaping", "over"}
  /\ failure \in {"none"} \cup Causes
  /\ pumpHeard \in BOOLEAN /\ srcHeard \in Said /\ dstHeard \in Said
  /\ commit \in {"none", "writing", "written", "broken", "known", "dropped"}
  /\ finishDue \in BOOLEAN /\ finalizeDue \in BOOLEAN

Init ==
  /\ made = 0 /\ srcEnd = "open" /\ srcSaid = "nothing" /\ srcGone = FALSE /\ srcHung = FALSE
  /\ taken = 0 /\ marker = FALSE /\ dst = "reading"
  /\ dstSaid = "nothing" /\ dstGone = FALSE /\ dstHung = FALSE
  /\ pumped = 0 /\ forwarded = 0 /\ output = "open" /\ pumpOver = "running"
  /\ phase = "supervising" /\ failure = "none"
  /\ pumpHeard = FALSE /\ srcHeard = "nothing" /\ dstHeard = "nothing"
  /\ commit = "none" /\ finishDue = FALSE /\ finalizeDue = FALSE

----------------------------------------------------------------------------
(* The source *)

SrcAlive == ~srcGone /\ ~srcHung

SrcWrite ==
  /\ SrcAlive /\ srcEnd = "open" /\ srcSaid = "nothing"
  /\ made < Batches /\ made - pumped < PipeRoom
  /\ made' = made + 1
  /\ UNCHANGED <<srcEnd, srcSaid, srcGone, srcHung, dstVars, pumpVars, marker, coreVars>>

SrcEnds ==
  /\ SrcAlive /\ srcEnd = "open" /\ srcSaid = "nothing"
  /\ srcEnd' = "marker"
  /\ UNCHANGED <<made, srcSaid, srcGone, srcHung, dstVars, pumpVars, marker, coreVars>>

\* finished comes behind the end of the stream.
SrcFinish ==
  /\ SrcAlive /\ srcSaid = "nothing"
  /\ srcEnd = "marker" \/ "srcLies" \in Faults
  /\ srcSaid' = "success"
  /\ UNCHANGED <<made, srcEnd, srcGone, srcHung, dstVars, pumpVars, marker, coreVars>>

SrcFails ==
  /\ "srcFails" \in Faults
  /\ SrcAlive /\ srcSaid = "nothing"
  /\ srcSaid' = "error"
  /\ UNCHANGED <<made, srcEnd, srcGone, srcHung, dstVars, pumpVars, marker, coreVars>>

\* The process is gone, and with it its end of the stream.
SrcLeaves ==
  /\ srcGone' = TRUE
  /\ srcEnd' = IF srcEnd = "open" THEN "cut" ELSE srcEnd
  /\ UNCHANGED <<made, srcSaid, srcHung, dstVars, pumpVars, marker, coreVars>>

SrcExit    == SrcAlive /\ srcSaid # "nothing" /\ SrcLeaves
SrcCrashes == ~srcGone /\ "srcCrashes" \in Faults /\ SrcLeaves

SrcHangs ==
  /\ "srcHangs" \in Faults
  /\ SrcAlive
  /\ srcHung' = TRUE
  /\ UNCHANGED <<made, srcEnd, srcSaid, srcGone, dstVars, pumpVars, marker, coreVars>>

\* cancel, or error: it stops where it is.  Past the grace period it is killed.
SrcStopped ==
  /\ phase \in {"aborting", "reaping"}
  /\ ~srcGone
  /\ SrcLeaves

SrcStep == SrcWrite \/ SrcEnds \/ SrcFinish \/ SrcFails \/ SrcExit \/ SrcCrashes \/ SrcHangs \/ SrcStopped

----------------------------------------------------------------------------
(* The destination *)

DstAlive == ~dstGone /\ ~dstHung

DstTake ==
  /\ DstAlive /\ dst = "reading"
  /\ taken < forwarded
  /\ taken' = taken + 1
  /\ UNCHANGED <<srcVars, dst, dstSaid, dstGone, dstHung, pumpVars, marker, coreVars>>

DstSawEnd ==
  /\ DstAlive /\ dst = "reading"
  /\ marker /\ taken = forwarded
  /\ dst' = "finalizing"
  /\ UNCHANGED <<srcVars, taken, dstSaid, dstGone, dstHung, pumpVars, marker, coreVars>>

\* finalize, which a cancel does not interrupt, and finished.
DstFinalize ==
  /\ DstAlive /\ dst = "finalizing"
  /\ \/ dst' = "finalized" /\ dstSaid' = "success"
     \/ "dstFails" \in Faults /\ dst' = "undone" /\ dstSaid' = "error"
  /\ UNCHANGED <<srcVars, taken, dstGone, dstHung, pumpVars, marker, coreVars>>

DstFails ==
  /\ "dstFails" \in Faults
  /\ DstAlive /\ dst = "reading"
  /\ dst' = "undone" /\ dstSaid' = "error"
  /\ UNCHANGED <<srcVars, taken, dstGone, dstHung, pumpVars, marker, coreVars>>

DstLeaves == dstGone' = TRUE /\ UNCHANGED <<srcVars, taken, dstSaid, dstHung, pumpVars, marker, coreVars>>

DstExit    == DstAlive /\ dstSaid # "nothing" /\ DstLeaves /\ UNCHANGED dst
DstCrashes == ~dstGone /\ "dstCrashes" \in Faults /\ DstLeaves /\ UNCHANGED dst

DstHangs ==
  /\ "dstHangs" \in Faults
  /\ DstAlive
  /\ dstHung' = TRUE
  /\ UNCHANGED <<srcVars, taken, dst, dstSaid, dstGone, pumpVars, marker, coreVars>>

\* cancel, while it watches its control channel: it rolls back.
DstCancelled ==
  /\ phase = "aborting" /\ dstHeard = "nothing"
  /\ DstAlive /\ dst = "reading"
  /\ dst' = "undone"
  /\ DstLeaves

\* Mutant of DstKilled: only a destination that answered is killed.
DstKilledIfHeard ==
  /\ phase \in {"aborting", "reaping"}
  /\ ~dstGone /\ dstHeard # "nothing"
  /\ DstLeaves /\ UNCHANGED dst

DstKilled ==
  /\ phase \in {"aborting", "reaping"}
  /\ ~dstGone
  /\ DstLeaves /\ UNCHANGED dst

DstStep ==
  \/ DstTake \/ DstSawEnd \/ DstFinalize \/ DstFails \/ DstExit \/ DstCrashes \/ DstHangs
  \/ DstCancelled \/ DstKilled

----------------------------------------------------------------------------
(* The pump *)

\* PumpControl.abort: set once the runner aborts.
Aborting == phase \in {"aborting", "over"} /\ failure # "none"

\* Mutant of PumpForwards: a batch is written once more.
PumpRepeats ==
  /\ pumpOver = "running" /\ pumped < made
  /\ ~Aborting /\ output = "open"
  /\ ~dstGone /\ forwarded - taken < PipeRoom
  /\ forwarded' = forwarded + 1
  /\ UNCHANGED <<srcVars, dstVars, pumped, output, pumpOver, marker, coreVars>>

PumpForwards ==
  /\ pumpOver = "running" /\ pumped < made
  /\ ~Aborting /\ output = "open"
  /\ ~dstGone /\ forwarded - taken < PipeRoom
  /\ pumped' = pumped + 1
  /\ forwarded' = forwarded + 1
  /\ UNCHANGED <<srcVars, dstVars, output, pumpOver, marker, coreVars>>

\* Mutant of PumpDrains: a full pipe taken for a failed write.
PumpDrainsWhenFull ==
  /\ pumpOver = "running" /\ pumped < made
  /\ \/ Aborting \/ output = "closed" \/ dstGone \/ forwarded - taken = PipeRoom
  /\ output' = "closed"
  /\ pumped' = pumped + 1
  /\ UNCHANGED <<srcVars, dstVars, forwarded, pumpOver, marker, coreVars>>

\* A failed write, an earlier one, or an abort: the source is drained.
PumpDrains ==
  /\ pumpOver = "running" /\ pumped < made
  /\ \/ Aborting /\ UNCHANGED output
     \/ output = "closed" /\ UNCHANGED output
     \/ dstGone /\ output = "open" /\ output' = "closed"
  /\ pumped' = pumped + 1
  /\ UNCHANGED <<srcVars, dstVars, forwarded, pumpOver, marker, coreVars>>

PumpEnds ==
  /\ pumpOver = "running"
  /\ pumped = made /\ srcEnd # "open"
  /\ pumpOver' = IF srcEnd = "marker" THEN "clean" ELSE "cut"
  /\ UNCHANGED <<srcVars, dstVars, pumped, forwarded, output, marker, coreVars>>

PumpStep == PumpForwards \/ PumpDrains \/ PumpEnds

----------------------------------------------------------------------------
(* The runner: the loop of supervise_data_phase *)

Supervising == phase = "supervising"

\* A failure ends the loop.  Aborting the commit task stops it only if it has
\* not begun: it runs on a blocking thread.
Fail(cause) ==
  /\ phase' = "failed" /\ failure' = cause
  /\ \/ commit = "writing" /\ commit' = "dropped"
     \/ UNCHANGED commit
GoOn == UNCHANGED <<phase, failure, commit>>

Others == UNCHANGED <<srcVars, dstVars, pumpVars, marker>>

HearPump ==
  /\ Supervising
  /\ pumpOver # "running" /\ ~pumpHeard
  /\ pumpHeard' = TRUE
  /\ IF pumpOver = "cut" THEN Fail("source") ELSE GoOn
  /\ finishDue' = (finishDue \/ (pumpOver = "clean" /\ srcHeard = "nothing" /\ "finish" \in Limits))
  /\ Others /\ UNCHANGED <<srcHeard, dstHeard, finalizeDue>>

HearSource ==
  /\ Supervising
  /\ srcSaid # "nothing" /\ srcHeard = "nothing"
  /\ srcHeard' = srcSaid
  /\ IF srcSaid = "success" THEN GoOn ELSE Fail("source")
  /\ finishDue' = (finishDue \/ (srcSaid = "success" /\ ~pumpHeard /\ "finish" \in Limits))
  /\ Others /\ UNCHANGED <<pumpHeard, dstHeard, finalizeDue>>

HearSourceGone ==
  /\ Supervising
  /\ srcGone /\ srcSaid = "nothing"
  /\ Fail("source")
  /\ Others /\ UNCHANGED <<hearing, dueVars>>

\* Mutant of CommitPoint: the end of the stream is enough.
CommitAtEnd ==
  /\ Supervising
  /\ commit = "none"
  /\ pumpHeard /\ pumpOver = "clean" /\ output = "open"
  /\ commit' = "writing"
  /\ finalizeDue' = ("finalize" \in Limits)
  /\ UNCHANGED <<phase, failure>>
  /\ Others /\ UNCHANGED <<hearing, finishDue>>

\* Mutant of CommitPoint: the source's report is enough.
CommitAtReport ==
  /\ Supervising
  /\ commit = "none"
  /\ srcHeard = "success" /\ output = "open"
  /\ commit' = "writing"
  /\ finalizeDue' = ("finalize" \in Limits)
  /\ UNCHANGED <<phase, failure>>
  /\ Others /\ UNCHANGED <<hearing, finishDue>>

\* The commit point: the producer's stream ended with its marker and the
\* producer reported success.  A destination that stopped reading fails here.
CommitPoint ==
  /\ Supervising
  /\ commit = "none"
  /\ srcHeard = "success"
  /\ pumpHeard /\ pumpOver = "clean"
  /\ \/ /\ output = "open"
        /\ commit' = "writing"
        /\ finalizeDue' = ("finalize" \in Limits)
        /\ UNCHANGED <<phase, failure>>
     \/ /\ output = "closed"
        /\ Fail("destination")
        /\ UNCHANGED finalizeDue
  /\ Others /\ UNCHANGED <<hearing, finishDue>>

\* The commit task itself: it waits for room in the pipe.
CommitWrites ==
  /\ commit = "writing"
  /\ \/ /\ ~dstGone /\ forwarded - taken < PipeRoom
        /\ marker' = TRUE
        /\ commit' = "written"
     \/ /\ dstGone
        /\ commit' = "broken"
        /\ UNCHANGED marker
  /\ UNCHANGED <<srcVars, dstVars, pumpVars, phase, failure, hearing, dueVars>>

HearCommit ==
  /\ Supervising
  /\ \/ commit = "written" /\ commit' = "known" /\ UNCHANGED <<phase, failure>>
     \/ commit = "broken" /\ Fail("destination")
  /\ Others /\ UNCHANGED <<hearing, dueVars>>

\* Success before the commit point is a protocol violation; with the commit in
\* flight the destination may be done before the task reports back.
HearDestination ==
  /\ Supervising
  /\ dstSaid # "nothing" /\ dstHeard = "nothing"
  /\ dstHeard' = dstSaid
  /\ IF dstSaid = "success" /\ commit # "none" THEN GoOn ELSE Fail("destination")
  /\ Others /\ UNCHANGED <<pumpHeard, srcHeard, dueVars>>

HearDestinationGone ==
  /\ Supervising
  /\ dstGone /\ dstSaid = "nothing"
  /\ Fail("destination")
  /\ Others /\ UNCHANGED <<hearing, dueVars>>

\* Mutant of Watchdog: no limit past the commit point.
WatchdogBeforeCommit ==
  /\ Supervising
  /\ \/ "stall" \in Limits /\ ~pumpHeard /\ Fail("stalled")
     \/ finishDue /\ commit # "known" /\ Fail("sourceLate")
  /\ Others /\ UNCHANGED <<hearing, dueVars>>

Watchdog ==
  /\ Supervising
  /\ \/ "stall" \in Limits /\ ~pumpHeard /\ Fail("stalled")
     \/ finishDue /\ commit # "known" /\ Fail("sourceLate")
     \/ finalizeDue /\ Fail("destinationLate")
  /\ Others /\ UNCHANGED <<hearing, dueVars>>

Shutdown ==
  /\ Supervising
  /\ "signal" \in Faults
  /\ Fail("signal")
  /\ Others /\ UNCHANGED <<hearing, dueVars>>

\* Mutant of Complete: the end of the destination's input is enough.
CompleteAtCommit ==
  /\ Supervising
  /\ commit = "known"
  /\ phase' = "reaping"
  /\ Others /\ UNCHANGED <<failure, hearing, commit, dueVars>>

Complete ==
  /\ Supervising
  /\ commit = "known" /\ dstHeard = "success"
  /\ phase' = "reaping"
  /\ Others /\ UNCHANGED <<failure, hearing, commit, dueVars>>

----------------------------------------------------------------------------
(* The runner: past the loop *)

\* The pump stops forwarding, and every plugin that did not finish is told.
AbortPlugins ==
  /\ phase = "failed"
  /\ phase' = "aborting"
  /\ Others /\ UNCHANGED <<failure, hearing, commit, dueVars>>

\* Both plugins are reaped and the pump has drained its source.
Collect ==
  /\ phase \in {"aborting", "reaping"}
  /\ srcGone /\ dstGone /\ pumpOver # "running"
  /\ phase' = "over"
  /\ Others /\ UNCHANGED <<failure, hearing, commit, dueVars>>

RunnerStep ==
  \/ HearPump \/ HearSource \/ HearSourceGone \/ CommitPoint \/ HearCommit
  \/ HearDestination \/ HearDestinationGone \/ Watchdog \/ Shutdown \/ Complete
  \/ AbortPlugins \/ Collect

Over == phase = "over" /\ UNCHANGED vars

Next == SrcStep \/ DstStep \/ PumpStep \/ CommitWrites \/ RunnerStep \/ Over

Spec == Init /\ [][Next]_vars

\* A plugin that is neither hung nor gone gets on with its work; the runner,
\* the pump and the commit task are scheduled, and a deadline that stays set
\* passes.  Nothing has to fail, and no signal has to come.
Fairness ==
  /\ WF_vars(SrcWrite) /\ WF_vars(SrcEnds) /\ WF_vars(SrcFinish) /\ WF_vars(SrcExit)
  /\ WF_vars(DstTake) /\ WF_vars(DstSawEnd) /\ WF_vars(DstFinalize) /\ WF_vars(DstExit)
  /\ WF_vars(PumpStep) /\ WF_vars(CommitWrites)
  /\ WF_vars(HearPump) /\ WF_vars(HearSource) /\ WF_vars(HearSourceGone)
  /\ WF_vars(CommitPoint) /\ WF_vars(HearCommit)
  /\ WF_vars(HearDestination) /\ WF_vars(HearDestinationGone)
  /\ WF_vars(Watchdog) /\ WF_vars(Complete)
  /\ WF_vars(AbortPlugins) /\ WF_vars(Collect)
  /\ WF_vars(SrcStopped) /\ WF_vars(DstKilled)

FairSpec == Spec /\ Fairness

----------------------------------------------------------------------------
(* Properties *)

\* Abort rule 1: the destination's input ends with the marker only after the
\* source's stream did, the source reported success, and every batch it wrote
\* was handed on.
CommitsOnlyWhole ==
  marker => srcEnd = "marker" /\ srcSaid = "success" /\ forwarded = made

\* A destination finalizes the whole of what the source produced, or nothing.
FinalizesOnlyWhole ==
  dst \in {"finalizing", "finalized"} => srcSaid = "success" /\ taken = made

\* A run reports success only when the destination holds the data.
SuccessIsReal == phase = "reaping" => dst = "finalized" /\ taken = made /\ failure = "none"

\* A failure is laid on a plugin only when that plugin failed: one side's
\* breakdown never comes out as the other's.
BlamesTheGuilty ==
  /\ failure = "source" => srcSaid = "error" \/ (srcGone /\ (srcSaid = "nothing" \/ srcEnd = "cut"))
  /\ failure = "destination" => dstSaid = "error" \/ dstGone

\* An aborted run hands the destination no more than it had: from the cancel
\* on, even a destination that ignores it sees no clean end of input.
NoCleanEndAfterAbort == [][phase = "aborting" => marker' = marker]_vars

\* The data phase implements the atomic load.
Producer ==
  IF srcSaid = "success" /\ srcEnd = "marker" THEN "complete"
  ELSE IF srcSaid = "error" \/ srcGone THEN "broken"
  ELSE "producing"
Target == IF dst = "finalized" THEN "holds" ELSE IF dst = "undone" THEN "discarded" ELSE "open"

Abstract == INSTANCE AtomicLoad WITH produced <- made, producer <- Producer, target <- Target
ImplementsAtomicLoad == Abstract!LoadSpec

\* With every limit set the run ends, whatever hangs.
RunEnds == <>(phase = "over")

\* With or without a stall limit, a failure or a signal ends it.
AbortEnds == phase = "failed" ~> phase = "over"
============================================================================
