----------------------------- MODULE MCDataPlane -----------------------------
\* The two views of the way from the source to the destination, checked in one
\* run: the data phase, from its first batch to its end, and flow control, which
\* looks closer at the batches and the grants.  They share no variable; plane
\* says, once and for all, which of them moves.
EXTENDS DataPhase, FlowControl

VARIABLE plane

planeVars == <<vars, flowVars, plane>>

InPhase(A) == plane = "phase" /\ A /\ UNCHANGED <<flowVars, plane>>
InFlow(A) == plane = "flow" /\ A /\ UNCHANGED <<vars, plane>>

PlaneInit == Init /\ FlowInit /\ plane \in {"phase", "flow"}
PlaneNext == InPhase(Next) \/ InFlow(FlowNext)

\* Fairness of DataPhase and FlowFairness of FlowControl, each where it moves.
PlaneFairness ==
  /\ WF_planeVars(InPhase(SrcWrite)) /\ WF_planeVars(InPhase(SrcEnds))
  /\ WF_planeVars(InPhase(SrcFinish)) /\ WF_planeVars(InPhase(SrcExit))
  /\ WF_planeVars(InPhase(DstTake)) /\ WF_planeVars(InPhase(DstSawEnd))
  /\ WF_planeVars(InPhase(DstFinalize)) /\ WF_planeVars(InPhase(DstExit))
  /\ WF_planeVars(InPhase(PumpStep)) /\ WF_planeVars(InPhase(CommitWrites))
  /\ WF_planeVars(InPhase(HearPump)) /\ WF_planeVars(InPhase(HearSource))
  /\ WF_planeVars(InPhase(HearSourceGone)) /\ WF_planeVars(InPhase(CommitPoint))
  /\ WF_planeVars(InPhase(HearCommit)) /\ WF_planeVars(InPhase(HearDestination))
  /\ WF_planeVars(InPhase(HearDestinationGone)) /\ WF_planeVars(InPhase(Watchdog))
  /\ WF_planeVars(InPhase(Complete)) /\ WF_planeVars(InPhase(AbortPlugins))
  /\ WF_planeVars(InPhase(Collect)) /\ WF_planeVars(InPhase(SrcStopped))
  /\ WF_planeVars(InPhase(DstKilled))
  /\ WF_planeVars(InFlow(Fetch \/ Exhaust)) /\ WF_planeVars(InFlow(WriteStream))
  /\ WF_planeVars(InFlow(Finish)) /\ WF_planeVars(InFlow(HearCredit \/ HearCancel \/ HearGarbled))
  /\ WF_planeVars(InFlow(Relay)) /\ WF_planeVars(InFlow(Resend))
  /\ WF_planeVars(InFlow(PumpReads)) /\ WF_planeVars(InFlow(PumpHandsOn))
  /\ WF_planeVars(InFlow(DestinationTakes))

PlaneSpec == PlaneInit /\ [][PlaneNext]_planeVars /\ PlaneFairness

\* With every limit set the data phase ends, whatever hangs (DataPhase!RunEnds).
PhaseEnds == plane = "phase" => RunEnds

\* No source waits for a credit for ever (FlowControl!NeverStarves).
SourceNeverStarves == plane = "flow" => NeverStarves
=============================================================================
