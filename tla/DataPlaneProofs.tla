--------------------------- MODULE DataPlaneProofs ---------------------------
(***************************************************************************)
(* What is proved of the way of the data.  First the data phase: the abort *)
(* rules hold for any number of batches, any pipes, any limits and any     *)
(* faults, the commit point covers the whole of the data, and the data     *)
(* phase implements the atomic load.  Then flow control, which bounds what *)
(* a source is ahead of the destination, for any window, budget, batches   *)
(* and pipes, and however many lines are garbled.                          *)
(***************************************************************************)
EXTENDS DataPhase, FlowControl, TLAPS

----------------------------------------------------------------------------
(* The data phase *)

\* Everything the source will ever produce has been handed to the destination,
\* and the source has vouched for it.
Whole == srcEnd = "marker" /\ srcSaid = "success" /\ forwarded = made

\* The pump keeps nothing back, unless the run aborts or the stream is closed,
\* and reports a clean end only behind the last batch.
PumpFaithful ==
  /\ output = "open" /\ ~Aborting => forwarded = pumped
  /\ pumpOver = "clean" => srcEnd = "marker" /\ pumped = made

\* What the runner heard was said.
HeardWasSaid ==
  /\ srcHeard # "nothing" => srcHeard = srcSaid
  /\ dstHeard # "nothing" => dstHeard = dstSaid
  /\ dstSaid = "success" => dst = "finalized"
  /\ dst \in {"reading", "finalizing"} => dstSaid = "nothing"

\* The runner aborts after a failure only.
FailureStops ==
  /\ phase \in {"supervising", "reaping"} => failure = "none"
  /\ phase = "reaping" => commit = "known" /\ dstHeard = "success"

\* From the commit point on, the data is whole; the marker comes from there,
\* and a destination that finalizes saw the marker behind the last batch.
CommitCovers ==
  /\ commit # "none" => Whole
  /\ marker => commit # "none"
  /\ dst \in {"finalizing", "finalized"} => marker /\ taken = forwarded

PhaseInv == TypeOK /\ PumpFaithful /\ HeardWasSaid /\ FailureStops /\ CommitCovers

----------------------------------------------------------------------------

\* The data phase starts with nothing produced, said or heard.
LEMMA PhaseInvInit == Init => PhaseInv
<1> SUFFICES ASSUME Init
             PROVE  PhaseInv
  OBVIOUS
<1>1. TypeOK
  <2>1. 0 \in 0..Batches /\ 0 \in 0..0
    BY PhaseAssumption
  <2> QED
    BY <2>1 DEF Init, TypeOK, Said
<1>2. PumpFaithful
  BY DEF Init, PumpFaithful
<1>3. HeardWasSaid /\ FailureStops /\ CommitCovers
  BY DEF Init, HeardWasSaid, FailureStops, CommitCovers
<1> QED
  BY <1>1, <1>2, <1>3 DEF PhaseInv

\* Type correctness, actor by actor.
LEMMA PhaseTypeNext == TypeOK /\ [Next]_vars => TypeOK'
<1> SUFFICES ASSUME TypeOK, [Next]_vars
             PROVE  TypeOK'
  OBVIOUS
<1> USE PhaseAssumption DEF TypeOK, Said, Causes, Aborting, srcVars, dstVars, pumpVars, hearing, dueVars, coreVars
<1>1. CASE SrcStep
  <2>1. CASE SrcWrite
    BY <2>1 DEF SrcWrite
  <2>2. CASE SrcEnds
    BY <2>2 DEF SrcEnds
  <2>3. CASE SrcFinish
    BY <2>3 DEF SrcFinish
  <2>4. CASE SrcFails
    BY <2>4 DEF SrcFails
  <2>5. CASE SrcExit
    BY <2>5 DEF SrcExit, SrcLeaves
  <2>6. CASE SrcCrashes
    BY <2>6 DEF SrcCrashes, SrcLeaves
  <2>7. CASE SrcHangs
    BY <2>7 DEF SrcHangs
  <2>8. CASE SrcStopped
    BY <2>8 DEF SrcStopped, SrcLeaves
  <2> QED
    BY <1>1, <2>1, <2>2, <2>3, <2>4, <2>5, <2>6, <2>7, <2>8 DEF SrcStep
<1>2. CASE DstStep
  <2>1. CASE DstTake
    BY <2>1 DEF DstTake
  <2>2. CASE DstSawEnd
    BY <2>2 DEF DstSawEnd
  <2>3. CASE DstFinalize
    BY <2>3 DEF DstFinalize
  <2>4. CASE DstFails
    BY <2>4 DEF DstFails
  <2>5. CASE DstExit
    BY <2>5 DEF DstExit, DstLeaves
  <2>6. CASE DstCrashes
    BY <2>6 DEF DstCrashes, DstLeaves
  <2>7. CASE DstHangs
    BY <2>7 DEF DstHangs
  <2>8. CASE DstCancelled
    BY <2>8 DEF DstCancelled, DstLeaves
  <2>9. CASE DstKilled
    BY <2>9 DEF DstKilled, DstLeaves
  <2> QED
    BY <1>2, <2>1, <2>2, <2>3, <2>4, <2>5, <2>6, <2>7, <2>8, <2>9 DEF DstStep
<1>3. CASE PumpStep
  <2>1. CASE PumpForwards
    BY <2>1 DEF PumpForwards
  <2>2. CASE PumpDrains
    BY <2>2 DEF PumpDrains
  <2>3. CASE PumpEnds
    BY <2>3 DEF PumpEnds
  <2> QED
    BY <1>3, <2>1, <2>2, <2>3 DEF PumpStep
<1>4. CASE RunnerStep
  <2>1. CASE HearPump
    BY <2>1 DEF HearPump, Fail, GoOn, Others, Supervising
  <2>2. CASE HearSource
    BY <2>2 DEF HearSource, Fail, GoOn, Others, Supervising
  <2>3. CASE HearSourceGone
    BY <2>3 DEF HearSourceGone, Fail, Others, Supervising
  <2>4. CASE CommitPoint
    <3>1. finalizeDue' = ("finalize" \in Limits) \/ finalizeDue' = finalizeDue
      BY <2>4 DEF CommitPoint
    <3>2. ("finalize" \in Limits) \in BOOLEAN /\ finalizeDue \in BOOLEAN
      BY DEF TypeOK
    <3>3. finalizeDue' \in BOOLEAN
      BY <3>1, <3>2
    <3> QED
      BY <2>4, <3>3 DEF CommitPoint, Fail, Others, Supervising
  <2>5. CASE HearCommit
    BY <2>5 DEF HearCommit, Fail, Others, Supervising
  <2>6. CASE HearDestination
    BY <2>6 DEF HearDestination, Fail, GoOn, Others, Supervising
  <2>7. CASE HearDestinationGone
    BY <2>7 DEF HearDestinationGone, Fail, Others, Supervising
  <2>8. CASE Watchdog
    BY <2>8 DEF Watchdog, Fail, Others, Supervising
  <2>9. CASE Shutdown
    BY <2>9 DEF Shutdown, Fail, Others, Supervising
  <2>10. CASE Complete
    BY <2>10 DEF Complete, Others, Supervising
  <2>11. CASE AbortPlugins
    BY <2>11 DEF AbortPlugins, Others
  <2>12. CASE Collect
    BY <2>12 DEF Collect, Others
  <2> QED
    BY <1>4, <2>1, <2>2, <2>3, <2>4, <2>5, <2>6, <2>7, <2>8, <2>9, <2>10, <2>11, <2>12 DEF RunnerStep
<1>5. CASE CommitWrites
  <2>1. marker' \in BOOLEAN
    BY <1>5 DEF CommitWrites, TypeOK
  <2> QED
    BY <1>5, <2>1 DEF CommitWrites
<1>6. CASE Over \/ UNCHANGED vars
  BY <1>6 DEF Over, vars
<1> QED
  BY <1>1, <1>2, <1>3, <1>4, <1>5, <1>6 DEF Next

\* Every step of every actor keeps the invariant.
LEMMA PhaseInvNext == PhaseInv /\ [Next]_vars => PhaseInv'
<1> SUFFICES ASSUME PhaseInv, [Next]_vars
             PROVE  PhaseInv'
  OBVIOUS
<1>1. TypeOK'
  BY PhaseTypeNext DEF PhaseInv
<1> USE DEF TypeOK, Said, Causes, Aborting, srcVars, dstVars, pumpVars, hearing, dueVars, coreVars,
            PhaseInv, PumpFaithful, HeardWasSaid, FailureStops, CommitCovers, Whole
<1>2. CASE SrcStep
  <2>1. CASE SrcWrite
    BY <2>1, <1>1 DEF SrcWrite, SrcAlive
  <2>2. CASE SrcEnds
    BY <2>2, <1>1 DEF SrcEnds, SrcAlive
  <2>3. CASE SrcFinish
    BY <2>3, <1>1 DEF SrcFinish, SrcAlive
  <2>4. CASE SrcFails
    BY <2>4, <1>1 DEF SrcFails, SrcAlive
  <2>5. CASE SrcExit
    BY <2>5, <1>1 DEF SrcExit, SrcLeaves, SrcAlive
  <2>6. CASE SrcCrashes
    BY <2>6, <1>1 DEF SrcCrashes, SrcLeaves, SrcAlive
  <2>7. CASE SrcHangs
    BY <2>7, <1>1 DEF SrcHangs, SrcAlive
  <2>8. CASE SrcStopped
    BY <2>8, <1>1 DEF SrcStopped, SrcLeaves, SrcAlive
  <2> QED
    BY <1>2, <2>1, <2>2, <2>3, <2>4, <2>5, <2>6, <2>7, <2>8 DEF SrcStep
<1>3. CASE DstStep
  <2>1. CASE DstTake
    BY <2>1, <1>1 DEF DstTake, DstAlive
  <2>2. CASE DstSawEnd
    BY <2>2, <1>1 DEF DstSawEnd, DstAlive
  <2>3. CASE DstFinalize
    BY <2>3, <1>1 DEF DstFinalize, DstAlive
  <2>4. CASE DstFails
    BY <2>4, <1>1 DEF DstFails, DstAlive
  <2>5. CASE DstExit
    BY <2>5, <1>1 DEF DstExit, DstLeaves, DstAlive
  <2>6. CASE DstCrashes
    BY <2>6, <1>1 DEF DstCrashes, DstLeaves, DstAlive
  <2>7. CASE DstHangs
    BY <2>7, <1>1 DEF DstHangs, DstAlive
  <2>8. CASE DstCancelled
    BY <2>8, <1>1 DEF DstCancelled, DstLeaves, DstAlive
  <2>9. CASE DstKilled
    BY <2>9, <1>1 DEF DstKilled, DstLeaves, DstAlive
  <2> QED
    BY <1>3, <2>1, <2>2, <2>3, <2>4, <2>5, <2>6, <2>7, <2>8, <2>9 DEF DstStep
<1>4. CASE PumpStep
  <2>1. CASE PumpForwards
    BY <2>1, <1>1 DEF PumpForwards
  <2>2. CASE PumpDrains
    BY <2>2, <1>1 DEF PumpDrains
  <2>3. CASE PumpEnds
    BY <2>3, <1>1 DEF PumpEnds
  <2> QED
    BY <1>4, <2>1, <2>2, <2>3 DEF PumpStep
<1>5. CASE RunnerStep
  <2>1. CASE HearPump
    BY <2>1, <1>1 DEF HearPump, Fail, GoOn, Others, Supervising
  <2>2. CASE HearSource
    BY <2>2, <1>1 DEF HearSource, Fail, GoOn, Others, Supervising
  <2>3. CASE HearSourceGone
    BY <2>3, <1>1 DEF HearSourceGone, Fail, Others, Supervising
  <2>4. CASE CommitPoint
    BY <2>4, <1>1 DEF CommitPoint, Fail, Others, Supervising
  <2>5. CASE HearCommit
    BY <2>5, <1>1 DEF HearCommit, Fail, Others, Supervising
  <2>6. CASE HearDestination
    BY <2>6, <1>1 DEF HearDestination, Fail, GoOn, Others, Supervising
  <2>7. CASE HearDestinationGone
    BY <2>7, <1>1 DEF HearDestinationGone, Fail, Others, Supervising
  <2>8. CASE Watchdog
    BY <2>8, <1>1 DEF Watchdog, Fail, Others, Supervising
  <2>9. CASE Shutdown
    BY <2>9, <1>1 DEF Shutdown, Fail, Others, Supervising
  <2>10. CASE Complete
    BY <2>10, <1>1 DEF Complete, Others, Supervising
  <2>11. CASE AbortPlugins
    BY <2>11, <1>1 DEF AbortPlugins, Others
  <2>12. CASE Collect
    BY <2>12, <1>1 DEF Collect, Others
  <2> QED
    BY <1>5, <2>1, <2>2, <2>3, <2>4, <2>5, <2>6, <2>7, <2>8, <2>9, <2>10, <2>11, <2>12 DEF RunnerStep
<1>6. CASE CommitWrites
  BY <1>6, <1>1 DEF CommitWrites
<1>7. CASE Over \/ UNCHANGED vars
  BY <1>7, <1>1 DEF Over, vars
<1> QED
  BY <1>2, <1>3, <1>4, <1>5, <1>6, <1>7 DEF Next

\* The invariant behind the abort rules: whatever was committed is whole.
THEOREM PhaseInvariant == Spec => []PhaseInv
BY PhaseInvInit, PhaseInvNext, PTL DEF Spec

\* The data phase keeps its types.
THEOREM PhaseTypeOK == Spec => []TypeOK
<1>1. PhaseInv => TypeOK
  BY DEF PhaseInv
<1> QED
  BY <1>1, PhaseInvariant, PTL

\* Abort rule 1: the destination's input ends with the marker only behind the
\* whole of a source's data, and after the source reported success.
THEOREM PhaseCommitsOnlyWhole == Spec => []CommitsOnlyWhole
<1>1. PhaseInv => CommitsOnlyWhole
  BY DEF PhaseInv, CommitCovers, Whole, CommitsOnlyWhole
<1> QED
  BY <1>1, PhaseInvariant, PTL

\* A destination finalizes the whole of the data or nothing, also when the run
\* aborts around it.
THEOREM PhaseFinalizesOnlyWhole == Spec => []FinalizesOnlyWhole
<1>1. PhaseInv => FinalizesOnlyWhole
  BY DEF PhaseInv, CommitCovers, Whole, FinalizesOnlyWhole
<1> QED
  BY <1>1, PhaseInvariant, PTL

\* Success is reported only when the destination holds the whole of the data.
THEOREM PhaseSuccessIsReal == Spec => []SuccessIsReal
<1>1. PhaseInv => SuccessIsReal
  BY DEF PhaseInv, CommitCovers, FailureStops, HeardWasSaid, Whole, SuccessIsReal
<1> QED
  BY <1>1, PhaseInvariant, PTL

----------------------------------------------------------------------------

\* An initial state is a load that has not begun.
LEMMA LoadInitMaps == Init => Abstract!LoadInit
BY DEF Init, Abstract!LoadInit, Producer, Target

\* A step that leaves the source and the destination's state alone is none of
\* the load's.
LEMMA ElsewhereMaps ==
  UNCHANGED <<made, srcEnd, srcSaid, srcGone, dst>> => UNCHANGED Abstract!load
BY DEF Abstract!load, Producer, Target

\* The source's steps produce, complete or break the load.
LEMMA SourceMaps == PhaseInv /\ SrcStep => [Abstract!LoadNext]_(Abstract!load)
<1> SUFFICES ASSUME PhaseInv, SrcStep
             PROVE  [Abstract!LoadNext]_(Abstract!load)
  OBVIOUS
<1>1. CASE SrcWrite
  <2>1. Abstract!Produce
    BY <1>1 DEF SrcWrite, SrcAlive, Producer, Target, Abstract!Produce, dstVars
  <2> QED
    BY <2>1 DEF Abstract!LoadNext
<1>2. CASE SrcEnds
  BY <1>2 DEF SrcEnds, SrcAlive, Producer, Target, Abstract!load, dstVars
<1>3. CASE SrcFinish \/ SrcFails
  <2>1. Target' = Target /\ made' = made /\ Producer = "producing"
    BY <1>3 DEF SrcFinish, SrcFails, SrcAlive, Producer, Target, dstVars
  <2>2. Producer' \in {"producing", "complete", "broken"}
    BY DEF Producer
  <2> QED
    BY <2>1, <2>2 DEF Abstract!load, Abstract!LoadNext, Abstract!ProducerEnds
<1>4. CASE SrcExit \/ SrcCrashes \/ SrcStopped
  <2>1. Target' = Target /\ made' = made
    BY <1>4 DEF SrcExit, SrcCrashes, SrcStopped, SrcLeaves, Target, dstVars
  <2>2. Producer' \in {"complete", "broken"} /\ (Producer # "producing" => Producer' = Producer)
    BY <1>4 DEF SrcExit, SrcCrashes, SrcStopped, SrcAlive, SrcLeaves, Producer, PhaseInv, TypeOK
  <2>3. Producer \in {"producing", "complete", "broken"}
    BY DEF Producer
  <2> QED
    BY <2>1, <2>2, <2>3 DEF Abstract!load, Abstract!LoadNext, Abstract!ProducerEnds
<1>5. CASE SrcHangs
  BY <1>5, ElsewhereMaps DEF SrcHangs, dstVars
<1> QED
  BY <1>1, <1>2, <1>3, <1>4, <1>5 DEF SrcStep

\* The destination's steps decide the load: it holds the data only behind the
\* commit point.
LEMMA DestinationMaps == PhaseInv /\ DstStep => [Abstract!LoadNext]_(Abstract!load)
<1> SUFFICES ASSUME PhaseInv, DstStep
             PROVE  [Abstract!LoadNext]_(Abstract!load)
  OBVIOUS
<1>1. CASE DstTake \/ DstSawEnd
  BY <1>1 DEF DstTake, DstSawEnd, srcVars, Abstract!load, Producer, Target
<1>2. CASE DstFinalize \/ DstFails \/ DstCancelled
  <2>1. Producer' = Producer /\ made' = made /\ Target = "open"
    BY <1>2 DEF DstFinalize, DstFails, DstCancelled, DstLeaves, srcVars, Producer, Target
  <2>2. dst = "finalizing" => Producer = "complete"
    BY DEF PhaseInv, CommitCovers, Whole, Producer
  <2>3. Target' = "discarded" \/ (Target' = "holds" /\ dst = "finalizing")
    BY <1>2 DEF DstFinalize, DstFails, DstCancelled, Target
  <2> QED
    BY <2>1, <2>2, <2>3 DEF Abstract!LoadNext, Abstract!Hold, Abstract!Discard
<1>3. CASE DstExit \/ DstCrashes \/ DstHangs \/ DstKilled
  BY <1>3, ElsewhereMaps DEF DstExit, DstCrashes, DstHangs, DstKilled, DstLeaves, srcVars
<1> QED
  BY <1>1, <1>2, <1>3 DEF DstStep

\* Neither the pump nor the runner decides anything about the load itself.
LEMMA CoreMaps == PumpStep \/ CommitWrites \/ RunnerStep => UNCHANGED Abstract!load
<1>1. PumpStep => UNCHANGED <<srcVars, dstVars>>
  BY DEF PumpStep, PumpForwards, PumpDrains, PumpEnds
<1>2. CommitWrites => UNCHANGED <<srcVars, dstVars>>
  BY DEF CommitWrites
<1>3. RunnerStep => UNCHANGED <<srcVars, dstVars>>
  BY DEF RunnerStep, HearPump, HearSource, HearSourceGone, CommitPoint, HearCommit, HearDestination,
         HearDestinationGone, Watchdog, Shutdown, Complete, AbortPlugins, Collect, Others
<1> QED
  BY <1>1, <1>2, <1>3, ElsewhereMaps DEF srcVars, dstVars

\* The data phase implements the atomic load: whatever breaks, and whenever,
\* the target takes the whole of the data after the producer completed it, or
\* none of it.
THEOREM PhaseImplementsAtomicLoad == Spec => ImplementsAtomicLoad
<1>1. PhaseInv /\ [Next]_vars => [Abstract!LoadNext]_(Abstract!load)
  <2>1. UNCHANGED vars => UNCHANGED Abstract!load
    BY ElsewhereMaps DEF vars, srcVars, dstVars
  <2>2. Over => UNCHANGED vars
    BY DEF Over
  <2> QED
    BY <2>1, <2>2, SourceMaps, DestinationMaps, CoreMaps DEF Next
<1> QED
  BY <1>1, LoadInitMaps, PhaseInvariant, PTL DEF Spec, ImplementsAtomicLoad, Abstract!LoadSpec

----------------------------------------------------------------------------

\* What a breakdown leaves behind, and the failure that may be read from it.
Traces ==
  /\ srcEnd = "cut" => srcGone
  /\ pumpOver = "cut" => srcEnd = "cut"
  /\ output = "closed" => dstGone
  /\ commit = "broken" => dstGone
  /\ BlamesTheGuilty

\* At the start there is nothing to explain.
LEMMA TracesInit == Init => Traces
BY DEF Init, Traces, BlamesTheGuilty

\* Every failure the runner records is read from such a trace.
LEMMA TracesNext == PhaseInv /\ Traces /\ [Next]_vars => Traces'
<1> SUFFICES ASSUME PhaseInv, Traces, [Next]_vars
             PROVE  Traces'
  OBVIOUS
<1>1. CASE SrcStep
  BY <1>1 DEF SrcStep, SrcWrite, SrcEnds, SrcFinish, SrcFails, SrcExit, SrcCrashes, SrcHangs, SrcStopped,
       SrcLeaves, SrcAlive, Traces, BlamesTheGuilty, dstVars, pumpVars, coreVars
<1>2. CASE DstStep
  BY <1>2 DEF DstStep, DstTake, DstSawEnd, DstFinalize, DstFails, DstExit, DstCrashes, DstHangs, DstCancelled,
       DstKilled, DstLeaves, DstAlive, Traces, BlamesTheGuilty, srcVars, pumpVars, coreVars,
       PhaseInv, HeardWasSaid
<1>3. CASE PumpStep
  BY <1>3 DEF PumpStep, PumpForwards, PumpDrains, PumpEnds, Traces, BlamesTheGuilty, srcVars, dstVars,
       coreVars, PhaseInv, TypeOK
<1>4. CASE CommitWrites
  BY <1>4 DEF CommitWrites, Traces, BlamesTheGuilty, srcVars, dstVars, pumpVars
<1>5. CASE RunnerStep
  <2>1. CASE HearPump \/ HearSource \/ HearSourceGone
    BY <1>5, <2>1 DEF HearPump, HearSource, HearSourceGone, Fail, GoOn, Others, Traces, BlamesTheGuilty,
         srcVars, dstVars, pumpVars, PhaseInv, TypeOK, Said
  <2>2. CASE CommitPoint \/ HearCommit
    BY <1>5, <2>2 DEF CommitPoint, HearCommit, Fail, Others, Traces, BlamesTheGuilty, srcVars, dstVars, pumpVars
  <2>3. CASE HearDestination \/ HearDestinationGone
    <3>1. dstSaid = "success" => commit # "none"
      BY DEF PhaseInv, HeardWasSaid, CommitCovers
    <3> QED
      BY <2>3, <3>1 DEF HearDestination, HearDestinationGone, Fail, GoOn, Others, Traces, BlamesTheGuilty,
           srcVars, dstVars, pumpVars, PhaseInv, TypeOK, Said
  <2>4. CASE Watchdog \/ Shutdown \/ Complete
    BY <2>4 DEF Watchdog, Shutdown, Complete, Fail, Others, Traces, BlamesTheGuilty, srcVars, dstVars, pumpVars
  <2>5. CASE AbortPlugins \/ Collect
    BY <2>5 DEF AbortPlugins, Collect, Others, Traces, BlamesTheGuilty, srcVars, dstVars, pumpVars
  <2> QED
    BY <1>5, <2>1, <2>2, <2>3, <2>4, <2>5 DEF RunnerStep
<1>6. CASE Over \/ UNCHANGED vars
  BY <1>6 DEF Over, vars, Traces, BlamesTheGuilty, srcVars, dstVars, pumpVars, coreVars
<1> QED
  BY <1>1, <1>2, <1>3, <1>4, <1>5, <1>6 DEF Next

\* A run never lays the destination's breakdown on the source, nor the other
\* way round.
THEOREM PhaseBlamesTheGuilty == Spec => []BlamesTheGuilty
<1>1. Traces => BlamesTheGuilty
  BY DEF Traces
<1> QED
  BY <1>1, TracesInit, TracesNext, PhaseInvariant, PTL DEF Spec

----------------------------------------------------------------------------
(* Flow control *)

\* Grants reach the source late, and never grow on their way: what it acts on
\* is at most what the runner relayed, and that at most what the pump granted.
GrantsTravel ==
  /\ gate <= relayed /\ relayed <= granted
  /\ last.line = "credit" => last.upTo <= relayed
  /\ \A i \in 1..Len(wire) : wire[i].line = "credit" => wire[i].upTo <= relayed

\* The pump has one batch in hand, and grants a window ahead of what it handed on.
WindowAhead ==
  /\ pulled <= handed + 1
  /\ granted <= handed + Ceiling
  /\ fetched <= gate

\* The window is what the budget holds, or one.
WindowFits == Budget # 0 /\ largest # 0 => window = 1 \/ window * largest <= Budget

FlowInv == FlowTypeOK /\ GrantsTravel /\ WindowAhead /\ WindowFits

----------------------------------------------------------------------------
(* The operators *)

\* The largest window is at least one, and the first one within it.
LEMMA CeilingType == Ceiling \in Nat /\ 1 <= Ceiling /\ Start.upTo \in 1..Ceiling
  BY FlowAssumption DEF Ceiling, AtLeastOne, AtMost, Start

\* Every line the core writes is one.
LEMMA LineTypes ==
  Start \in Lines /\ Cancel \in Lines /\ Garbled \in Lines /\ \A n \in Nat : Credit(n) \in Lines
  BY CeilingType DEF Start, Cancel, Garbled, Credit, Lines

\* A resized window is a window.
LEMMA ResizedType == ASSUME NEW most \in Nat PROVE Resized(most) \in 1..Ceiling
<1>1. CASE Budget = 0 \/ most = 0
  BY <1>1, CeilingType DEF Resized
<1>2. CASE Budget # 0 /\ most # 0
  <2>1. Budget \div most \in Int
    BY <1>2, FlowAssumption
  <2> QED
    BY <1>2, <2>1, CeilingType DEF Resized, AtMost, AtLeastOne
<1> QED
  BY <1>1, <1>2

\* What a resized window holds fits in the budget, unless it is one batch.
LEMMA ResizedFits ==
  ASSUME NEW most \in Nat, Budget # 0, most # 0
  PROVE  Resized(most) = 1 \/ Resized(most) * most <= Budget
<1> DEFINE n == Budget \div most
<1>1. n \in Int /\ n * most <= Budget
  BY FlowAssumption
<1>2. Resized(most) = AtMost(AtLeastOne(n), Ceiling)
  BY DEF Resized
<1> HIDE DEF n
<1>3. Resized(most) = 1 \/ Resized(most) <= n
  BY <1>1, <1>2, CeilingType DEF AtMost, AtLeastOne
<1>4. ASSUME NEW w \in Nat, w <= n PROVE w * most <= n * most
  BY <1>1, <1>4
<1>5. Resized(most) \in Nat
  BY ResizedType
<1> QED
  BY <1>1, <1>3, <1>4, <1>5, FlowAssumption

\* What is behind the head of a line queue was in it.
LEMMA TailLines ==
  ASSUME wire \in Seq(Lines), wire # <<>>
  PROVE  /\ Tail(wire) \in Seq(Lines) /\ Head(wire) \in Lines /\ Head(wire) = wire[1] /\ 1 \in 1..Len(wire)
         /\ \A i \in 1..Len(Tail(wire)) : Tail(wire)[i] = wire[i + 1] /\ i + 1 \in 1..Len(wire)
  OBVIOUS

\* A written line is last in the queue, as it is or garbled.
LEMMA WriteLines ==
  ASSUME FlowTypeOK, NEW m \in Lines, Write(m)
  PROVE  /\ wire' \in Seq(Lines) /\ garbled' \in 0..Garbles
         /\ \A i \in 1..Len(wire') :
              \/ i \in 1..Len(wire) /\ wire'[i] = wire[i]
              \/ wire'[i] = m
              \/ wire'[i] = Garbled
<1>1. ASSUME NEW g \in {m, Garbled}, wire' = Append(wire, g)
      PROVE  /\ wire' \in Seq(Lines)
             /\ \A i \in 1..Len(wire') : (i \in 1..Len(wire) /\ wire'[i] = wire[i]) \/ wire'[i] = g
  <2>1. wire \in Seq(Lines) /\ g \in Lines
    BY LineTypes DEF FlowTypeOK
  <2> QED
    BY <1>1, <2>1
<1>2. garbled' \in 0..Garbles
  BY FlowAssumption DEF Write, FlowTypeOK
<1>3. wire' = Append(wire, m) \/ wire' = Append(wire, Garbled)
  BY DEF Write
<1> QED
  BY <1>1, <1>2, <1>3

----------------------------------------------------------------------------
(* The invariant *)

\* The first grant is the first window, known to both ends.
LEMMA FlowInvInit == FlowInit => FlowInv
<1> SUFFICES ASSUME FlowInit PROVE FlowInv
  OBVIOUS
<1>1. wire \in Seq(Lines) /\ Len(wire) = 0
  BY DEF FlowInit
<1>2. FlowTypeOK
  <2>1. Start.upTo \in Nat /\ Start.upTo \in 1..Ceiling /\ Start \in Lines
    BY CeilingType, LineTypes
  <2>2. 0 \in 0..Fetches /\ 0 \in 0..Garbles /\ 0 \in 0..PipeDepth /\ 0 \in 0..0 /\ 0 \in 0..1
    BY FlowAssumption
  <2> QED
    BY <1>1, <2>1, <2>2 DEF FlowInit, FlowTypeOK
<1>3. GrantsTravel
  BY <1>1, CeilingType DEF FlowInit, GrantsTravel, Start
<1>4. WindowAhead /\ WindowFits
  BY CeilingType DEF FlowInit, WindowAhead, WindowFits
<1> QED
  BY <1>2, <1>3, <1>4 DEF FlowInv

\* The source's steps.
LEMMA FlowInvSource == FlowInv /\ SourceStep => FlowInv'
<1> SUFFICES ASSUME FlowInv, SourceStep PROVE FlowInv'
  OBVIOUS
<1> USE DEF FlowInv
<1>f. CASE Fetch
  <2>1. FlowTypeOK'
    BY <1>f, FlowAssumption DEF Fetch, FlowTypeOK, lineVars, supplyVars, windowVars
  <2>2. GrantsTravel'
    BY <1>f DEF Fetch, GrantsTravel, lineVars, supplyVars, windowVars
  <2>3. WindowAhead' /\ WindowFits'
    BY <1>f DEF Fetch, FlowTypeOK, WindowAhead, WindowFits, supplyVars, windowVars
  <2> QED
    BY <2>1, <2>2, <2>3
<1>e. CASE Exhaust \/ WriteStream \/ Finish
  <2>1. FlowTypeOK'
    <3>1. CASE Exhaust \/ Finish
      BY <3>1 DEF Exhaust, Finish, FlowTypeOK, lineVars, supplyVars, windowVars
    <3>2. CASE WriteStream
      BY <3>2, FlowAssumption DEF WriteStream, FlowTypeOK, lineVars, supplyVars, windowVars
    <3> QED
      BY <1>e, <3>1, <3>2
  <2>2. GrantsTravel'
    BY <1>e DEF Exhaust, WriteStream, Finish, GrantsTravel, lineVars, supplyVars, windowVars
  <2>3. WindowAhead' /\ WindowFits'
    BY <1>e DEF Exhaust, WriteStream, Finish, WindowAhead, WindowFits, supplyVars, windowVars
  <2> QED
    BY <2>1, <2>2, <2>3
<1>h. CASE HearCredit \/ HearCancel \/ HearGarbled
  <2>1. Attend
    BY <1>h DEF HearCredit, HearCancel, HearGarbled
  <2>2. /\ Tail(wire) \in Seq(Lines) /\ Head(wire) \in Lines /\ Head(wire) = wire[1] /\ 1 \in 1..Len(wire)
        /\ \A i \in 1..Len(Tail(wire)) : Tail(wire)[i] = wire[i + 1] /\ i + 1 \in 1..Len(wire)
    BY <2>1, TailLines DEF Attend, FlowTypeOK
  <2>3. gate' = gate \/ (Head(wire).line = "credit" /\ gate' = Head(wire).upTo /\ gate' > gate)
    BY <1>h, <2>2 DEF HearCredit, HearCancel, HearGarbled
  <2>4. gate' \in Nat /\ gate' <= relayed /\ gate' >= gate
    BY <2>2, <2>3 DEF GrantsTravel, FlowTypeOK, Lines
  <2>5. source' \in {"fetching", "flushing", "done", "cancelled", "failed"} /\ streak' \in 0..1 /\ resends' \in Nat
    BY <1>h DEF HearCredit, HearCancel, HearGarbled, FlowTypeOK
  <2>6. FlowTypeOK'
    BY <2>1, <2>2, <2>4, <2>5 DEF Attend, FlowTypeOK, supplyVars, windowVars
  <2>7. GrantsTravel'
    BY <2>1, <2>2, <2>4 DEF Attend, GrantsTravel, supplyVars, windowVars
  <2>8. WindowAhead' /\ WindowFits'
    BY <2>1, <2>4 DEF Attend, FlowTypeOK, WindowAhead, WindowFits, supplyVars, windowVars
  <2> QED
    BY <2>6, <2>7, <2>8
<1> QED
  BY <1>f, <1>e, <1>h DEF SourceStep

\* The runner's: what it writes carries at most what it then has relayed.
LEMMA FlowInvRunner == FlowInv /\ (Relay \/ Resend \/ Abort) => FlowInv'
<1> SUFFICES ASSUME FlowInv, Relay \/ Resend \/ Abort PROVE FlowInv'
  OBVIOUS
<1> USE DEF FlowInv
<1>1. PICK m \in Lines :
        /\ Write(m)
        /\ m.line = "credit" => m.upTo <= relayed'
        /\ last' \in Lines /\ (last'.line = "credit" => last'.upTo <= relayed')
  <2>1. CASE Relay
    <3>1. Credit(granted) \in Lines /\ Credit(granted).upTo = granted
      BY LineTypes DEF FlowTypeOK, Credit
    <3> QED
      BY <2>1, <3>1 DEF Relay, FlowTypeOK
  <2>2. CASE Resend
    BY <2>2 DEF Resend, FlowTypeOK, GrantsTravel
  <2>3. CASE Abort
    <3>1. Cancel \in Lines /\ Cancel.line # "credit"
      BY LineTypes DEF Cancel
    <3> QED
      BY <2>3, <3>1 DEF Abort
  <2> QED
    BY <2>1, <2>2, <2>3
<1>2. relayed' \in Nat /\ relayed <= relayed' /\ relayed' <= granted
  BY DEF Relay, Resend, Abort, FlowTypeOK, GrantsTravel
<1>3. UNCHANGED <<sourceVars, supplyVars>> /\ resends' \in Nat /\ aborted' \in BOOLEAN
  <2>1. CASE Relay \/ Abort
    BY <2>1 DEF Relay, Abort, FlowTypeOK
  <2>2. CASE Resend
    BY <2>2 DEF Resend, FlowTypeOK
  <2> QED
    BY <2>1, <2>2
<1>4. /\ wire' \in Seq(Lines) /\ garbled' \in 0..Garbles
      /\ \A i \in 1..Len(wire') :
           (i \in 1..Len(wire) /\ wire'[i] = wire[i]) \/ wire'[i] = m \/ wire'[i] = Garbled
  BY <1>1, WriteLines
<1>5. FlowTypeOK'
  BY <1>1, <1>2, <1>3, <1>4 DEF FlowTypeOK, sourceVars, supplyVars, windowVars
<1>6. GrantsTravel'
  <2>1. gate' <= relayed' /\ relayed' <= granted'
    BY <1>2, <1>3 DEF GrantsTravel, FlowTypeOK, sourceVars, supplyVars, windowVars
  <2>2. ASSUME NEW i \in 1..Len(wire'), wire'[i].line = "credit" PROVE wire'[i].upTo <= relayed'
    <3>1. CASE i \in 1..Len(wire) /\ wire'[i] = wire[i]
      <4>1. wire[i].upTo \in Nat
        <5>1. wire \in Seq(Lines)
          BY DEF FlowTypeOK
        <5>2. wire[i] \in Lines
          BY <3>1, <5>1
        <5> QED
          BY <5>2 DEF Lines
      <4>2. wire[i].upTo <= relayed
        BY <2>2, <3>1 DEF GrantsTravel
      <4>3. relayed \in Nat
        BY DEF FlowTypeOK
      <4> QED
        BY <1>2, <3>1, <4>1, <4>2, <4>3
    <3>2. CASE wire'[i] = m
      BY <1>1, <2>2, <3>2
    <3>3. CASE wire'[i] = Garbled
      BY <2>2, <3>3 DEF Garbled
    <3> QED
      BY <1>4, <3>1, <3>2, <3>3
  <2> QED
    BY <1>1, <2>1, <2>2 DEF GrantsTravel
<1>7. WindowAhead' /\ WindowFits'
  BY <1>3 DEF WindowAhead, WindowFits, sourceVars, supplyVars, windowVars
<1> QED
  BY <1>5, <1>6, <1>7

\* The pump's: a grant follows the batch it is for.
LEMMA FlowInvPump == FlowInv /\ (PumpReads \/ PumpHandsOn \/ DestinationTakes) => FlowInv'
<1> SUFFICES ASSUME FlowInv, PumpReads \/ PumpHandsOn \/ DestinationTakes PROVE FlowInv'
  OBVIOUS
<1> USE DEF FlowInv
<1>1. CASE PumpReads
  <2>1. FlowTypeOK'
    BY <1>1 DEF PumpReads, FlowTypeOK, sourceVars, lineVars, windowVars
  <2>2. GrantsTravel'
    BY <1>1 DEF PumpReads, GrantsTravel, sourceVars, lineVars, windowVars
  <2>3. WindowAhead' /\ WindowFits'
    BY <1>1 DEF PumpReads, FlowTypeOK, WindowAhead, WindowFits, sourceVars, windowVars
  <2> QED
    BY <2>1, <2>2, <2>3
<1>2. CASE PumpHandsOn
  <2>1. PICK bytes \in Sizes : Forwarded(pulled, bytes)
    BY <1>2 DEF PumpHandsOn
  <2>2. handed' = handed + 1 /\ handed' = pulled /\ pulled' = pulled /\ handed \in Nat
    BY <1>2 DEF PumpHandsOn, FlowTypeOK, WindowAhead
  <2>3. largest' \in Nat
    BY <2>1, FlowAssumption DEF Forwarded, FlowTypeOK
  <2>4. window' \in 1..Ceiling /\ window' = Resized(largest')
    BY <2>1, <2>3, ResizedType DEF Forwarded
  <2>5. granted' \in Nat /\ granted <= granted' /\ granted' <= handed' + Ceiling
    <3>1. granted' = IF pulled + window' > granted THEN pulled + window' ELSE granted
      BY <2>1 DEF Forwarded
    <3> QED
      BY <2>2, <2>4, <3>1, CeilingType DEF FlowTypeOK, WindowAhead
  <2>6. queued' \in 0..PipeDepth
    BY <1>2, FlowAssumption DEF PumpHandsOn, FlowTypeOK
  <2>7. FlowTypeOK'
    BY <1>2, <2>2, <2>3, <2>4, <2>5, <2>6 DEF PumpHandsOn, FlowTypeOK, sourceVars, lineVars
  <2>8. GrantsTravel'
    BY <1>2, <2>5 DEF PumpHandsOn, GrantsTravel, FlowTypeOK, sourceVars, lineVars
  <2>9. WindowAhead'
    BY <1>2, <2>2, <2>5 DEF PumpHandsOn, WindowAhead, sourceVars
  <2>10. WindowFits'
    BY <2>3, <2>4, ResizedFits DEF WindowFits
  <2> QED
    BY <2>7, <2>8, <2>9, <2>10
<1>3. CASE DestinationTakes
  <2>1. FlowTypeOK'
    BY <1>3, FlowAssumption DEF DestinationTakes, FlowTypeOK, sourceVars, lineVars, windowVars
  <2>2. GrantsTravel' /\ WindowAhead' /\ WindowFits'
    BY <1>3 DEF DestinationTakes, GrantsTravel, WindowAhead, WindowFits, sourceVars, lineVars, windowVars
  <2> QED
    BY <2>1, <2>2
<1> QED
  BY <1>1, <1>2, <1>3

\* The invariant holds in every reachable state.
THEOREM FlowInvHolds == FlowSpec => []FlowInv
<1>1. FlowInv /\ UNCHANGED flowVars => FlowInv'
  BY DEF FlowInv, FlowTypeOK, GrantsTravel, WindowAhead, WindowFits, flowVars, sourceVars, lineVars, supplyVars, windowVars
<1>2. FlowInv /\ [FlowNext]_flowVars => FlowInv'
  BY <1>1, FlowInvSource, FlowInvRunner, FlowInvPump DEF FlowNext
<1> QED
  BY <1>2, FlowInvInit, PTL DEF FlowSpec

----------------------------------------------------------------------------

\* Type correctness of flow control.
THEOREM FlowTypeCorrect == FlowSpec => []FlowTypeOK
<1>1. FlowInv => FlowTypeOK
  BY DEF FlowInv
<1> QED
  BY <1>1, FlowInvHolds, PTL

\* The source never holds a batch past the core's present grant, whatever was
\* coalesced, repeated or garbled between them.
THEOREM FlowWithinGrant == FlowSpec => []WithinGrant
<1>1. FlowInv => WithinGrant
  BY DEF FlowInv, FlowTypeOK, GrantsTravel, WindowAhead, WithinGrant
<1> QED
  BY <1>1, FlowInvHolds, PTL

\* A destination that has caught up with the window has no more before it than
\* the budget holds, or one batch.
THEOREM FlowWithinBudget == FlowSpec => []WithinBudget
<1>1. FlowInv => WithinBudget
  <2> SUFFICES ASSUME FlowInv, Budget # 0, largest # 0, granted = handed + window
               PROVE  (fetched - handed) * largest <= Budget \/ fetched <= handed + 1
    BY DEF WithinBudget
  <2>1. fetched - handed \in Nat /\ window \in Nat /\ largest \in Nat /\ fetched - handed <= window
    BY CeilingType DEF FlowInv, FlowTypeOK, GrantsTravel, WindowAhead
  <2>2. window = 1 \/ window * largest <= Budget
    BY DEF FlowInv, WindowFits
  <2>3. CASE window = 1
    BY <2>1, <2>3 DEF FlowInv, FlowTypeOK
  <2>4. CASE window * largest <= Budget
    <3>1. ASSUME NEW n \in Nat, NEW w \in Nat, NEW b \in Nat, n <= w PROVE n * b <= w * b
      BY <3>1
    <3>2. (fetched - handed) * largest <= window * largest
      BY <2>1, <3>1
    <3>3. (fetched - handed) * largest \in Int /\ window * largest \in Int /\ Budget \in Int
      BY <2>1, FlowAssumption
    <3> QED
      BY <2>4, <3>2, <3>3
  <2> QED
    BY <2>2, <2>3, <2>4
<1> QED
  BY <1>1, FlowInvHolds, PTL

\* Source and pump work through a buffer of Ceiling batches: every step puts a
\* batch within the capacity, takes one, or leaves the buffer alone.
THEOREM FlowImplementsBoundedBuffer == FlowSpec => ImplementsBoundedBuffer
<1>1. FlowInit => Buffer!BufferInit
  BY DEF FlowInit, Buffer!BufferInit
<1>2. FlowInv /\ [FlowNext]_flowVars => [Buffer!Put \/ Buffer!Get]_Buffer!buffer
  <2> SUFFICES ASSUME FlowInv, [FlowNext]_flowVars
               PROVE  Buffer!Put \/ Buffer!Get \/ UNCHANGED Buffer!buffer
    OBVIOUS
  <2>1. CASE Fetch
    <3>1. fetched < handed + Ceiling
      BY <2>1, CeilingType DEF Fetch, FlowInv, FlowTypeOK, GrantsTravel, WindowAhead
    <3> QED
      BY <2>1, <3>1 DEF Fetch, Buffer!Put, supplyVars
  <2>2. CASE PumpHandsOn
    BY <2>2 DEF PumpHandsOn, FlowInv, FlowTypeOK, WindowAhead, sourceVars, Buffer!Get
  <2>3. CASE Exhaust \/ WriteStream \/ Finish \/ HearCredit \/ HearCancel \/ HearGarbled
    BY <2>3 DEF Exhaust, WriteStream, Finish, HearCredit, HearCancel, HearGarbled, Attend,
                supplyVars, Buffer!buffer
  <2>4. CASE Relay \/ Resend \/ Abort \/ PumpReads \/ DestinationTakes
    BY <2>4 DEF Relay, Resend, Abort, PumpReads, DestinationTakes, sourceVars, supplyVars, Buffer!buffer
  <2>5. CASE UNCHANGED flowVars
    BY <2>5 DEF flowVars, sourceVars, supplyVars, Buffer!buffer
  <2> QED
    BY <2>1, <2>2, <2>3, <2>4, <2>5 DEF FlowNext, SourceStep
<1> QED
  BY <1>1, <1>2, FlowInvHolds, PTL DEF FlowSpec, ImplementsBoundedBuffer, Buffer!BufferSpec
=============================================================================
