--------------------------- MODULE DeliveryProofs ---------------------------
(***************************************************************************)
(* An incremental pipeline loses nothing over its attempts: whatever the   *)
(* persisted watermark claims is at the target, and what the resume record *)
(* counts is never replaced, for any numbers of blocks, files and attempts *)
(* and crashes, failures, signals and lost persists between any two steps. *)
(***************************************************************************)
EXTENDS Delivery, WellFoundedInduction, TLAPS

(* The sink stage: between two sink processes no file is lost, what is        *)
(* reported is at the target, and a stage ends well only when all is, for    *)
(* any numbers of files and restarts and whatever happens to the sink.       *)

\* The SDK's sink reports success behind the end of its input, never before.
HonestSink == "finishesEarly" \notin Faults

\* What is acknowledged is at the target.
AcksAreTrue == delivered \cup acks \subseteq landed

\* AllHandedOver, and also of a sink that is gone and not yet replaced.
HandedOver == Driving /\ ~halting => Pending \subseteq inSink \cup acks

\* The end of the input is seen behind the last announcement, and a sink's
\* success behind the end of its input: nothing is pending then.
EndsInOrder ==
  /\ inputClosed => ~eventsOpen /\ received = staged
  /\ HonestSink /\ Driving /\ farewell = "success" => ~InputOpen
  /\ HonestSink /\ sup = "done" => ~eventsOpen /\ delivered = 1..staged

SinkInv == SupTypeOK /\ AcksAreTrue /\ HandedOver /\ EndsInOrder

----------------------------------------------------------------------------
(* The operators *)

\* A bounded set of numbers has a largest.
LEMMA MaxIsLargest ==
  ASSUME NEW N \in Nat, NEW S \in SUBSET (0..N), S # {}
  PROVE  Max(S) \in S /\ \A n \in S : n <= Max(S)
<1> DEFINE D == {N - n : n \in S}
<1>1. D \subseteq Nat /\ D # {}
  <2>1. \A n \in S : N - n \in Nat
    OBVIOUS
  <2> QED
    BY <2>1
<1>2. PICK d \in D : \A e \in D : <<e, d>> \notin OpToRel(<, Nat)
  BY <1>1, NatLessThanWellFounded, WFMin, Zenon
<1>3. \A e \in D : ~(e < d)
  BY <1>1, <1>2, Zenon DEF OpToRel
<1>4. PICK m \in S : d = N - m
  OBVIOUS
<1>5. \A n \in S : n <= m
  <2> TAKE n \in S
  <2>1. N - n \in D
    OBVIOUS
  <2> HIDE DEF D
  <2>2. ~(N - n < d)
    BY <1>3, <2>1
  <2> QED
    BY <1>4, <2>2
<1> QED
  BY <1>5 DEF Max

\* The prefix is an unbroken run of files, from the first.
LEMMA PrefixIsRun ==
  ASSUME NEW ds
  PROVE  Prefix(ds) \in 0..MaxFiles /\ 1..Prefix(ds) \subseteq ds
<1> DEFINE S == {n \in 0..MaxFiles : \A i \in 1..n : i \in ds /\ i \notin Unranged}
<1>1. MaxFiles \in Nat /\ S \in SUBSET (0..MaxFiles) /\ 0 \in S
  BY SinkAssumption
<1>2. Prefix(ds) = Max(S)
  BY DEF Prefix
<1>3. Max(S) \in S
  <2> HIDE DEF S
  <2> QED
    BY <1>1, MaxIsLargest
<1> QED
  BY <1>1, <1>2, <1>3

\* Of files that were emitted it is no longer than those.
LEMMA PrefixEmitted ==
  ASSUME NEW n \in Nat, NEW ds \in SUBSET (1..n)
  PROVE  Prefix(ds) \in 0..n
<1>1. Prefix(ds) \in 0..MaxFiles /\ 1..Prefix(ds) \subseteq ds
  BY PrefixIsRun
<1>2. MaxFiles \in Nat
  BY SinkAssumption
<1> QED
  BY <1>1, <1>2

\* The end of an instance leaves the supervisor anywhere but driving or done.
LEMMA RecoverSteps ==
  ASSUME restarts \in 0..MaxRestarts, Recover
  PROVE  sup' \in {"spawning", "halted", "failed"} /\ restarts' \in 0..MaxRestarts
  BY SinkAssumption DEF Recover, End

\* What sending some files comes to.
LEMMA SendSteps ==
  ASSUME restarts \in 0..MaxRestarts, Driving, NEW is, Send(is)
  PROVE  /\ restarts' \in 0..MaxRestarts
         /\ \/ sup' = "driving" /\ inSink' = inSink \cup is /\ ~Gone
            \/ sup' \in {"spawning", "halted", "failed", "blocked"} /\ inSink' = inSink
  BY RecoverSteps DEF Send, Driving

----------------------------------------------------------------------------
(* The invariant *)

\* It holds before the first sink is started.
LEMMA SinkInvInit == SupInit => SinkInv
<1> SUFFICES ASSUME SupInit PROVE SinkInv
  OBVIOUS
<1>1. eventsOpen \in BOOLEAN /\ halt \in BOOLEAN /\ inputClosed \in BOOLEAN /\ halting \in BOOLEAN
      /\ pinged \in BOOLEAN /\ hung \in BOOLEAN
  BY Zenon DEF SupInit
<1>2. prefixTx \in Seq(Files)
  BY DEF SupInit
<1>3. SupTypeOK
  BY <1>1, <1>2, SinkAssumption DEF SupInit, SupTypeOK, Emitted, Over
<1> QED
  BY <1>3 DEF SupInit, SinkInv, AcksAreTrue, HandedOver, EndsInOrder, Driving

\* It holds for every sink that is started.
LEMMA SpawnOK == SinkInv /\ Spawn => SinkInv'
<1> SUFFICES ASSUME SinkInv, Spawn PROVE SinkInv'
  OBVIOUS
<1>1. /\ UNCHANGED <<staged, eventsOpen, halt, received, delivered, inputClosed, reported, prefixTx,
                     restarts, landed>>
      /\ acks' = {} /\ farewell' = "none"
      /\ \/ sup' = "driving" /\ inSink' = Pending
         \/ sup' = "failed" /\ inSink' = inSink
  BY DEF Spawn, inputVars, ledgerVars
<1>2. halting' \in BOOLEAN /\ pinged' \in BOOLEAN /\ hung' \in BOOLEAN
  BY Zenon DEF Spawn
<1>3. SupTypeOK' /\ AcksAreTrue'
  BY <1>1, <1>2 DEF SinkInv, SupTypeOK, AcksAreTrue, Pending, Emitted, Over
<1>4. HandedOver' /\ EndsInOrder'
  BY <1>1 DEF SinkInv, HandedOver, EndsInOrder, Driving, Pending, Emitted
<1> QED
  BY <1>3, <1>4 DEF SinkInv

\* A file is taken in and handed over in one turn.
LEMMA ReceiveOK == SinkInv /\ ReceiveObject => SinkInv'
<1> SUFFICES ASSUME SinkInv, ReceiveObject PROVE SinkInv'
  OBVIOUS
<1>1. /\ restarts \in 0..MaxRestarts /\ Driving /\ ~inputClosed
      /\ received \in Nat /\ staged \in 0..MaxFiles /\ received < staged /\ received' = received + 1
  BY SinkAssumption DEF SinkInv, SupTypeOK, EndsInOrder, ReceiveObject
<1>2. /\ restarts' \in 0..MaxRestarts
      /\ \/ sup' = "driving" /\ inSink' = inSink \cup {received + 1}
         \/ sup' = "driving" /\ inSink' = inSink /\ halting
         \/ sup' \in {"spawning", "halted", "failed", "blocked"} /\ inSink' = inSink
  BY <1>1, SendSteps DEF ReceiveObject, Driving
<1>3. UNCHANGED <<staged, eventsOpen, halt, delivered, inputClosed, reported, prefixTx, halting, pinged,
                  landed, acks, farewell, hung>>
  BY DEF ReceiveObject, inputVars
<1>4. SupTypeOK'
  <2>1. Emitted \subseteq Emitted' /\ received + 1 \in Emitted' /\ received' \in 0..staged
    BY <1>1 DEF Emitted
  <2>2. inSink' \subseteq Emitted' /\ reported \in 0..received' /\ sup' \in {"spawning", "driving", "blocked"} \cup Over
    BY <1>1, <1>2, <2>1 DEF SinkInv, SupTypeOK, Over
  <2> QED
    BY <1>1, <1>2, <1>3, <2>1, <2>2 DEF SinkInv, SupTypeOK
<1>5. AcksAreTrue'
  BY <1>3 DEF SinkInv, AcksAreTrue
<1>6. HandedOver'
  BY <1>1, <1>2, <1>3 DEF SinkInv, HandedOver, Driving, Pending, Emitted
<1>7. EndsInOrder'
  BY <1>1, <1>2, <1>3 DEF SinkInv, EndsInOrder, InputOpen, Driving
<1> QED
  BY <1>4, <1>5, <1>6, <1>7 DEF SinkInv

\* Every announcement was taken in when the input is closed.
LEMMA InputEndsOK == SinkInv /\ InputEnds => SinkInv'
  BY DEF InputEnds, SinkInv, SupTypeOK, AcksAreTrue, HandedOver, EndsInOrder, InputOpen, Driving, Pending,
     Emitted, Over, inputVars, driveVars, sinkVars

\* An acknowledged file is pending no more, and the prefix may grow.
LEMMA DeliveredOK == ASSUME NEW i \in Files PROVE SinkInv /\ ObjectDelivered(i) => SinkInv'
<1> SUFFICES ASSUME SinkInv, ObjectDelivered(i) PROVE SinkInv'
  OBVIOUS
<1>1. /\ i \in acks /\ acks' = acks \ {i} /\ delivered' = delivered \cup {i}
      /\ Driving /\ sup' \in {"driving", "halted"} /\ restarts' = restarts
      /\ UNCHANGED <<staged, eventsOpen, halt, received, inputClosed, halting, pinged, inSink, landed,
                     farewell, hung>>
  BY DEF ObjectDelivered, End, inputVars, Driving
<1>2. received \in Nat /\ delivered' \in SUBSET (1..received)
  BY <1>1, SinkAssumption DEF SinkInv, SupTypeOK, Emitted
<1>3. Prefix(delivered') \in 0..received
  BY <1>2, PrefixEmitted
<1>4. \/ UNCHANGED <<reported, prefixTx>>
      \/ /\ Prefix(delivered') > reported /\ reported' = Prefix(delivered')
         /\ prefixTx' = Append(prefixTx, Prefix(delivered'))
  BY DEF ObjectDelivered
<1>5. SupTypeOK'
  <2>1. reported \in 0..received /\ received \in 0..staged /\ staged \in 0..MaxFiles /\ prefixTx \in Seq(Files)
    BY DEF SinkInv, SupTypeOK
  <2>2. CASE Prefix(delivered') > reported /\ reported' = Prefix(delivered')
             /\ prefixTx' = Append(prefixTx, Prefix(delivered'))
    <3> DEFINE n == Prefix(delivered')
    <3>1. n \in Files
      BY <1>2, <1>3, <2>1, <2>2, SinkAssumption DEF Files
    <3>2. prefixTx' \in Seq(Files) /\ reported' \in 0..received
      <4> HIDE DEF n
      <4> QED
        BY <1>3, <2>1, <2>2, <3>1 DEF n
    <3> QED
      BY <1>1, <1>2, <3>2 DEF SinkInv, SupTypeOK, Emitted, Over
  <2>3. CASE UNCHANGED <<reported, prefixTx>>
    BY <1>1, <1>2, <2>3 DEF SinkInv, SupTypeOK, Emitted, Over
  <2> QED
    BY <1>4, <2>2, <2>3
<1>6. AcksAreTrue' /\ HandedOver'
  BY <1>1 DEF SinkInv, AcksAreTrue, HandedOver, Driving, Pending, Emitted
<1>7. EndsInOrder'
  BY <1>1 DEF SinkInv, EndsInOrder, InputOpen, Driving, Pending, Emitted
<1> QED
  BY <1>5, <1>6, <1>7 DEF SinkInv

\* A sink that says it succeeded had everything and acknowledged it.
LEMMA FinishedOK == SinkInv /\ Finished => SinkInv'
<1> SUFFICES ASSUME SinkInv, Finished PROVE SinkInv'
  OBVIOUS
<1>1. /\ restarts' \in 0..MaxRestarts /\ Driving
      /\ \/ sup' = "done" /\ farewell = "success"
         \/ sup' \in {"spawning", "halted", "failed"}
  BY RecoverSteps DEF Finished, End, SinkInv, SupTypeOK
<1>2. UNCHANGED <<staged, eventsOpen, halt, received, delivered, inputClosed, reported, prefixTx, halting,
                  pinged, inSink, landed, acks, farewell, hung>>
  BY DEF Finished, inputVars, ledgerVars, sinkVars
<1>3. SupTypeOK' /\ AcksAreTrue'
  BY <1>1, <1>2 DEF SinkInv, SupTypeOK, AcksAreTrue, Emitted, Over
<1>4. HandedOver'
  BY <1>1, <1>2 DEF HandedOver, Driving
<1>5. EndsInOrder'
  <2>1. ASSUME HonestSink, sup' = "done" PROVE ~eventsOpen /\ delivered = 1..staged
    <3>1. inputClosed /\ Pending = {}
      BY <1>1, <2>1 DEF SinkInv, EndsInOrder, InputOpen
    <3> QED
      BY <3>1 DEF SinkInv, EndsInOrder, SupTypeOK, Pending, Emitted
  <2> QED
    BY <1>1, <1>2, <2>1 DEF SinkInv, EndsInOrder, Driving, HonestSink
<1> QED
  BY <1>3, <1>4, <1>5 DEF SinkInv

\* Sent again, or recovered.
LEMMA ResendOK == SinkInv /\ ResendRequested => SinkInv'
<1> SUFFICES ASSUME SinkInv, ResendRequested PROVE SinkInv'
  OBVIOUS
<1>1. /\ restarts' \in 0..MaxRestarts /\ Driving
      /\ \/ sup' = "driving" /\ inSink' = inSink \cup Pending
         \/ sup' \in {"spawning", "halted", "failed", "blocked"} /\ inSink' = inSink
  BY SendSteps DEF ResendRequested, SinkInv, SupTypeOK
<1>2. UNCHANGED <<staged, eventsOpen, halt, received, delivered, inputClosed, reported, prefixTx, halting,
                  pinged, landed, acks, farewell, hung>>
  BY DEF ResendRequested, inputVars, ledgerVars
<1>3. SupTypeOK' /\ AcksAreTrue'
  BY <1>1, <1>2 DEF SinkInv, SupTypeOK, AcksAreTrue, Pending, Emitted, Over
<1>4. HandedOver' /\ EndsInOrder'
  BY <1>1, <1>2 DEF SinkInv, HandedOver, EndsInOrder, InputOpen, Driving, Pending, Emitted
<1> QED
  BY <1>3, <1>4 DEF SinkInv

\* An unanswered ping ends the instance.
LEMMA PingOK == SinkInv /\ PingTick => SinkInv'
<1> SUFFICES ASSUME SinkInv, PingTick PROVE SinkInv'
  OBVIOUS
<1>1. /\ restarts' \in 0..MaxRestarts /\ Driving /\ pinged' \in BOOLEAN
      /\ sup' \in {"driving", "spawning", "halted", "failed"}
  BY RecoverSteps DEF PingTick, SinkInv, SupTypeOK, Driving
<1>2. UNCHANGED <<staged, eventsOpen, halt, received, delivered, inputClosed, reported, prefixTx, halting,
                  inSink, landed, acks, farewell, hung>>
  BY DEF PingTick, inputVars, ledgerVars, sinkVars
<1>3. SupTypeOK' /\ AcksAreTrue'
  BY <1>1, <1>2 DEF SinkInv, SupTypeOK, AcksAreTrue, Emitted, Over
<1>4. HandedOver' /\ EndsInOrder'
  BY <1>1, <1>2 DEF SinkInv, HandedOver, EndsInOrder, InputOpen, Driving, Pending, Emitted
<1> QED
  BY <1>3, <1>4 DEF SinkInv

\* A halt hands over nothing more.
LEMMA HaltOK == SinkInv /\ (Halt \/ GraceEnds \/ Pong) => SinkInv'
<1> SUFFICES ASSUME SinkInv, Halt \/ GraceEnds \/ Pong PROVE SinkInv'
  OBVIOUS
<1>1. /\ restarts' = restarts /\ Driving /\ sup' \in {"driving", "halted"}
      /\ pinged' \in BOOLEAN /\ halting' \in BOOLEAN /\ (halting => halting')
      /\ UNCHANGED <<staged, eventsOpen, halt, received, delivered, inputClosed, reported, prefixTx,
                     inSink, landed, acks, farewell, hung>>
  BY DEF Halt, GraceEnds, Pong, End, Driving, SinkInv, SupTypeOK, inputVars, ledgerVars, sinkVars
<1>2. SupTypeOK' /\ AcksAreTrue'
  BY <1>1 DEF SinkInv, SupTypeOK, AcksAreTrue, Emitted, Over
<1>3. HandedOver' /\ EndsInOrder'
  BY <1>1 DEF SinkInv, HandedOver, EndsInOrder, InputOpen, Driving, Pending, Emitted
<1> QED
  BY <1>2, <1>3 DEF SinkInv

\* The sink acknowledges what it has put at the target, and reports its end
\* when it was told that nothing more comes.
LEMMA SinkWorksOK == SinkInv /\ (SinkWorks \/ SinkFails \/ SinkHangs) => SinkInv'
<1> SUFFICES ASSUME SinkInv, SinkWorks \/ SinkFails \/ SinkHangs PROVE SinkInv'
  OBVIOUS
<1>1. Driving /\ UNCHANGED <<staged, eventsOpen, halt, received, delivered, inputClosed, reported, prefixTx,
                             sup, restarts, halting, pinged>>
  BY DEF SinkWorks, SinkFinish, SinkFails, SinkHangs, Land, Ack, Alive, CoreUnchanged,
     inputVars, ledgerVars, driveVars
<1>2. /\ inSink' \subseteq inSink /\ landed \subseteq landed' /\ landed' \subseteq landed \cup inSink
      /\ acks' \subseteq acks \cup (inSink \cap landed) /\ inSink \cup acks \subseteq inSink' \cup acks'
  BY DEF SinkWorks, SinkFinish, SinkFails, SinkHangs, Land, Ack
<1>3. /\ hung' \in BOOLEAN /\ farewell' \in {"none", "success", "error", "died"}
      /\ HonestSink /\ farewell' = "success" => ~InputOpen
  BY DEF SinkWorks, SinkFinish, SinkFails, SinkHangs, Land, Ack, SinkInv, SupTypeOK, HonestSink, Alive, Gone,
     EndsInOrder
<1>4. SupTypeOK' /\ AcksAreTrue'
  BY <1>1, <1>2, <1>3 DEF SinkInv, SupTypeOK, AcksAreTrue, Emitted, Over
<1>5. HandedOver' /\ EndsInOrder'
  BY <1>1, <1>2, <1>3 DEF SinkInv, HandedOver, EndsInOrder, InputOpen, Driving, Pending, Emitted
<1> QED
  BY <1>4, <1>5 DEF SinkInv

\* The destination announces while its channel is open, and an abort is only seen.
LEMMA AroundOK == SinkInv /\ (Announce \/ EventsEnd \/ Abort) => SinkInv'
<1> SUFFICES ASSUME SinkInv, Announce \/ EventsEnd \/ Abort PROVE SinkInv'
  OBVIOUS
<1>1. UNCHANGED <<received, delivered, inputClosed, reported, prefixTx, sup, restarts, halting, pinged,
                  inSink, landed, acks, farewell, hung>>
  BY DEF Announce, EventsEnd, Abort, ledgerVars, driveVars, sinkVars
<1>2. /\ staged' \in 0..MaxFiles /\ staged <= staged' /\ (eventsOpen' => eventsOpen)
      /\ ~eventsOpen => staged' = staged
  <2>1. staged \in 0..MaxFiles /\ MaxFiles \in Nat
    BY SinkAssumption DEF SinkInv, SupTypeOK
  <2>2. CASE Announce
    BY <2>1, <2>2 DEF Announce
  <2>3. CASE EventsEnd \/ Abort
    BY <2>1, <2>3 DEF EventsEnd, Abort
  <2> QED
    BY <2>2, <2>3
<1>3. eventsOpen' \in BOOLEAN /\ halt' \in BOOLEAN
  BY Zenon DEF Announce, EventsEnd, Abort, SinkInv, SupTypeOK
<1>4. SupTypeOK' /\ AcksAreTrue'
  BY <1>1, <1>2, <1>3 DEF SinkInv, SupTypeOK, AcksAreTrue, Emitted, Over
<1>5. HandedOver' /\ EndsInOrder'
  BY <1>1, <1>2 DEF SinkInv, SupTypeOK, HandedOver, EndsInOrder, InputOpen, Driving, Pending, Emitted
<1> QED
  BY <1>4, <1>5 DEF SinkInv

\* Whatever the supervisor, the sink or those around them do keeps it.
LEMMA SinkInvStep == SinkInv /\ [SupNext]_supVars => SinkInv'
<1> SUFFICES ASSUME SinkInv, [SupNext]_supVars PROVE SinkInv'
  OBVIOUS
<1>1. CASE SupervisorStep
  BY <1>1, SpawnOK, ReceiveOK, InputEndsOK, FinishedOK, PingOK, HaltOK, DeliveredOK DEF SupervisorStep
<1>2. CASE SinkStep
  BY <1>2, SinkWorksOK, ResendOK, HaltOK DEF SinkStep
<1>3. CASE Announce \/ EventsEnd \/ Abort
  BY <1>3, AroundOK
<1>4. CASE UNCHANGED supVars
  BY <1>4 DEF SinkInv, SupTypeOK, AcksAreTrue, HandedOver, EndsInOrder, InputOpen, Driving, Pending, Emitted,
     supVars, inputVars, ledgerVars, driveVars, sinkVars
<1> QED
  BY <1>1, <1>2, <1>3, <1>4 DEF SupNext, SupStop

\* The invariant, for any numbers of files and restarts and all faults.
THEOREM SinkSafe == SupSpec => []SinkInv
  BY SinkInvInit, SinkInvStep, PTL DEF SupSpec

----------------------------------------------------------------------------
(* The theorems *)

\* The stage keeps its types, whatever happens to the sink.
THEOREM SinkTypeOK == SupSpec => []SupTypeOK
<1>1. SinkInv => SupTypeOK
  BY DEF SinkInv
<1> QED
  BY <1>1, SinkSafe, PTL

\* Nothing falls between two sink processes, however many are needed.
THEOREM SinkAllHandedOver == SupSpec => []AllHandedOver
<1>1. SinkInv => AllHandedOver
  BY DEF SinkInv, HandedOver, AllHandedOver
<1> QED
  BY <1>1, SinkSafe, PTL

\* A stage that ends well delivered everything the destination announced, for
\* sinks that do not report success before their input ends.
THEOREM SinkDoneMeansDelivered ==
  ASSUME HonestSink
  PROVE  SupSpec => []DoneMeansDelivered
<1>1. SinkInv => DoneMeansDelivered
  BY HonestSink DEF SinkInv, AcksAreTrue, EndsInOrder, DoneMeansDelivered
<1> QED
  BY <1>1, SinkSafe, PTL

\* What the state supervisor is told is at the target, whatever faults there are.
THEOREM SinkPrefixLanded == SupSpec => PrefixLanded
<1>1. SinkInv /\ SinkInv' /\ [SupNext]_supVars =>
        [prefixTx' # prefixTx => 1..reported' \subseteq landed /\ reported' > reported]_supVars
  <2> SUFFICES ASSUME SinkInv, SinkInv', SupNext, prefixTx' # prefixTx
               PROVE  1..reported' \subseteq landed /\ reported' > reported
    OBVIOUS
  <2>1. PICK i \in Files : ObjectDelivered(i)
    BY DEF SupNext, SupervisorStep, SinkStep, SinkWorks, SupStop, Spawn, ReceiveObject, InputEnds, Finished,
       PingTick, Halt, GraceEnds, SinkFinish, SinkFails, SinkHangs, Land, Ack, CoreUnchanged,
       ResendRequested, Pong, Announce, EventsEnd, Abort, supVars, ledgerVars
  <2>2. reported' = Prefix(delivered') /\ reported' > reported /\ delivered' \subseteq landed
    BY <2>1 DEF ObjectDelivered, SinkInv, AcksAreTrue
  <2>3. 1..Prefix(delivered') \subseteq delivered'
    BY PrefixIsRun
  <2> QED
    BY <2>2, <2>3
<1> QED
  BY <1>1, SinkSafe, SinkInvStep, PTL DEF SupSpec, PrefixLanded

----------------------------------------------------------------------------
(* The attempts *)

\* What the promise rests on: the destination announces ranges, the sink is the
\* SDK's, and one that outlives its core is done before the next attempt reads.
Ranged == Unranged = {}
Orderly == Ranged /\ HonestSink /\ "lateOrphan" \notin CoreFaults

Types ==
  /\ attempt \in 1..MaxAttempts /\ base \in Nat
  /\ first \in Nat \ {0} /\ first - 1 <= MaxFiles * (attempt - 1)
  /\ read \in Nat /\ committed \in Nat /\ seen \in Nat
  /\ checkpoints \subseteq 1..read
  /\ doc \in [cursor : Nat, next : Nat] /\ over \in {"no", "redoing", "mixed"}
  /\ target = [o \in Objects |-> target[o]]

\* A file that was announced stays what it was, and is what a commit counts.
Announced ==
  /\ staged > 0 => read > 0
  /\ \A i \in 1..staged : i * FileBlocks <= read \/ ~srcOpen
  /\ committed <= LastOf(staged)

\* The state supervisor has heard, or will, of the whole prefix.
Told ==
  /\ reported = Prefix(delivered)
  /\ Drained = reported /\ seen <= reported
  /\ \A k \in 1..Len(prefixTx) : prefixTx[k] <= reported

\* What this attempt landed is there, under its name.
Placed == \A i \in landed : target[Name(i)] = Content(i)

\* What the attempts before it are relied on for is in files it does not name.
Behind == 1..base \subseteq UNION {target[o] : o \in 1 .. first - 1}

\* The document counts files that are delivered, and no row behind them, unless
\* an attempt that started over is replacing those it counts.
Recorded == over = "no" =>
  /\ doc.next # 0 =>
       /\ doc.cursor > 0 /\ first <= doc.next /\ doc.next - first <= reported
       /\ doc.cursor <= base + LastOf(doc.next - first)
  /\ doc.next = 0 => doc.cursor = 0 \/ (Succeeded /\ doc.cursor <= base + LastOf(reported))

\* A sink left behind replaces nothing that is relied on.
Harmless == \A upload \in orphan : read = 0 /\ upload[1] \in Nat /\ first <= upload[1]

DeliveryInv ==
  /\ SinkInv /\ Types /\ Announced /\ Told /\ Placed /\ Behind /\ Recorded /\ Harmless

\* Nothing is relied on once a source continued from a token that it had started
\* over from: the record is of a mix of files then.
DeliveryOrMixed == over = "mixed" \/ DeliveryInv

----------------------------------------------------------------------------
(* The operators *)

\* More files hold no fewer blocks.
LEMMA TimesMono ==
  ASSUME NEW i \in Nat, NEW j \in Nat, NEW n \in Nat, i <= j
  PROVE  i * n \in Nat /\ i * n <= j * n
<1>1. (j - i) * n >= 0 /\ (j - i) * n = j * n - i * n
  OBVIOUS
<1> QED
  BY <1>1

\* The last batch of the first i files.
LEMMA LastOfIs ==
  ASSUME read \in Nat, NEW i \in Nat
  PROVE  LastOf(i) = IF i * FileBlocks <= read THEN i * FileBlocks ELSE read
<1> DEFINE n == i * FileBlocks
<1>1. n \in Nat
  BY DeliveryAssumption
<1>2. LastOf(i) = Min({n, read})
  BY DEF LastOf
<1> HIDE DEF n
<1>3. Min({n, read}) = IF n <= read THEN n ELSE read
  BY <1>1 DEF Min
<1> QED
  BY <1>2, <1>3 DEF n

\* It is a batch that was read, and more files end no earlier.
LEMMA LastOfMono ==
  ASSUME read \in Nat, NEW i \in Nat, NEW j \in Nat, i <= j
  PROVE  LastOf(i) \in Nat /\ LastOf(i) <= LastOf(j) /\ LastOf(i) <= read
<1>1. i * FileBlocks \in Nat /\ i * FileBlocks <= j * FileBlocks
  BY TimesMono, DeliveryAssumption
<1>2. j * FileBlocks \in Nat
  BY DeliveryAssumption
<1> QED
  BY <1>1, <1>2, LastOfIs

\* No checkpoint beyond the frontier is safe.
LEMMA SafeIsBehind ==
  ASSUME NEW N \in Nat, NEW cs \in SUBSET (1..N), NEW frontier \in Nat
  PROVE  Safe(cs, frontier) \in Nat /\ Safe(cs, frontier) <= frontier
<1> DEFINE S == {0} \cup {c \in cs : c <= frontier}
<1>1. S \in SUBSET (0..N) /\ 0 \in S /\ \A c \in S : c <= frontier
  <2>1. \A c \in cs : c \in 0..N
    OBVIOUS
  <2>2. 0 \in 0..N /\ 0 <= frontier
    OBVIOUS
  <2>3. \A c \in S : c \in 0..N /\ c <= frontier
    BY <2>1, <2>2
  <2> QED
    BY <2>3
<1> HIDE DEF S
<1>2. Max(S) \in S
  BY <1>1, MaxIsLargest
<1> QED
  BY <1>1, <1>2 DEF Safe, S

\* The prefix of more files is no shorter.
LEMMA PrefixMono ==
  ASSUME NEW ds, NEW es, ds \subseteq es
  PROVE  Prefix(ds) <= Prefix(es)
<1> DEFINE S(fs) == {n \in 0..MaxFiles : \A i \in 1..n : i \in fs /\ i \notin Unranged}
<1>1. MaxFiles \in Nat /\ S(ds) \subseteq S(es) /\ S(es) \in SUBSET (0..MaxFiles) /\ 0 \in S(ds)
  BY SinkAssumption
<1>2. Prefix(ds) = Max(S(ds)) /\ Prefix(es) = Max(S(es))
  BY DEF Prefix
<1> HIDE DEF S
<1>3. Max(S(ds)) \in S(ds) /\ \A n \in S(es) : n <= Max(S(es))
  BY <1>1, MaxIsLargest
<1> QED
  BY <1>1, <1>2, <1>3

\* Of all there is, where every file has a range, the prefix is all.
LEMMA PrefixOfAll ==
  ASSUME Ranged, NEW n \in 0..MaxFiles
  PROVE  Prefix(1..n) = n
<1> DEFINE S == {m \in 0..MaxFiles : \A i \in 1..m : i \in 1..n /\ i \notin Unranged}
<1>1. MaxFiles \in Nat /\ S \in SUBSET (0..MaxFiles) /\ n \in S
  BY SinkAssumption DEF Ranged
<1>2. Prefix(1..n) = Max(S)
  BY DEF Prefix
<1> HIDE DEF S
<1>3. n <= Max(S)
  BY <1>1, MaxIsLargest
<1>4. Prefix(1..n) \in 0..n
  BY PrefixEmitted, SinkAssumption
<1> QED
  BY <1>2, <1>3, <1>4

\* There is an object for every file an attempt may name.
LEMMA ObjectsHold ==
  ASSUME Types
  PROVE  1 .. first - 1 + MaxFiles \subseteq Objects
<1>1. attempt \in Nat /\ MaxAttempts \in Nat /\ MaxFiles \in Nat /\ attempt <= MaxAttempts /\ attempt - 1 \in Nat
  BY SinkAssumption, DeliveryAssumption DEF Types
<1>2. attempt * MaxFiles <= MaxAttempts * MaxFiles
  BY <1>1, TimesMono
<1>3. MaxFiles * (attempt - 1) + MaxFiles = attempt * MaxFiles /\ MaxAttempts * MaxFiles = MaxFiles * MaxAttempts
  BY <1>1
<1>4. first - 1 + MaxFiles <= MaxFiles * MaxAttempts
  <2> DEFINE p == MaxFiles * (attempt - 1)
             q == attempt * MaxFiles
             r == MaxFiles * MaxAttempts
  <2>1. p \in Int /\ q \in Int /\ r \in Int /\ p + MaxFiles = q /\ q <= r
    BY <1>1, <1>2, <1>3
  <2>2. first \in Nat /\ first - 1 <= p
    BY DEF Types
  <2> HIDE DEF p, q, r
  <2>3. first - 1 + MaxFiles <= r
    BY <1>1, <2>1, <2>2
  <2> QED
    BY <2>3 DEF r
<1>5. MaxFiles * MaxAttempts \in Int
  BY <1>1
<1> DEFINE r == MaxFiles * MaxAttempts
<1>6. Objects = 1..r /\ r \in Int /\ first - 1 + MaxFiles <= r /\ first - 1 + MaxFiles \in Int
  BY <1>1, <1>4, <1>5 DEF Objects, Types
<1> HIDE DEF r
<1> QED
  BY <1>6

\* What is delivered reaches, with what was relied on, as far as the files do.
LEMMA Reaches ==
  ASSUME DeliveryInv, NEW k \in Nat, k <= reported
  PROVE  1 .. base + LastOf(k) \subseteq UNION {target[o] : o \in 1 .. first - 1 + k}
<1>1. /\ base \in Nat /\ first \in Nat \ {0} /\ read \in Nat /\ FileBlocks \in Nat \ {0} /\ reported \in Nat
      /\ LastOf(k) \in Nat
  <2>1. base \in Nat /\ first \in Nat \ {0} /\ read \in Nat
    BY DEF DeliveryInv, Types
  <2>2. reported \in Nat
    BY SinkAssumption DEF DeliveryInv, SinkInv, SupTypeOK
  <2>3. LastOf(k) \in Nat
    BY <2>1, LastOfMono
  <2> QED
    BY <2>1, <2>2, <2>3, DeliveryAssumption
<1> SUFFICES ASSUME NEW b \in 1 .. base + LastOf(k)
             PROVE  \E o \in 1 .. first - 1 + k : b \in target[o]
  OBVIOUS
<1>2. CASE b <= base
  <2>1. b \in 1..base
    BY <1>1, <1>2
  <2>2. PICK o \in 1 .. first - 1 : b \in target[o]
    BY <2>1 DEF DeliveryInv, Behind
  <2> QED
    BY <1>1, <2>2
<1>3. CASE b > base
  <2> DEFINE x == b - base
             D == {i \in Nat : x <= i * FileBlocks}
  <2>1. x \in Nat /\ 1 <= x /\ x <= LastOf(k) /\ b = base + x
    BY <1>1, <1>3
  <2>2. x <= k * FileBlocks /\ x <= read
    <3>1. k * FileBlocks \in Nat
      BY <1>1
    <3> QED
      BY <1>1, <2>1, <3>1, LastOfIs
  <2> HIDE DEF x
  <2>3. k \in D /\ D \subseteq Nat
    BY <2>2
  <2>4. PICK i \in D : \A j \in D : <<j, i>> \notin OpToRel(<, Nat)
    BY <2>3, NatLessThanWellFounded, WFMin, Zenon
  <2>5. \A j \in D : ~(j < i)
    BY <2>3, <2>4, Zenon DEF OpToRel
  <2>6. i \in Nat /\ i <= k /\ x <= i * FileBlocks
    <3>1. i \in Nat /\ x <= i * FileBlocks
      BY <2>4
    <3>2. ~(k < i)
      BY <2>3, <2>5
    <3> QED
      BY <3>1, <3>2
  <2>7. i # 0
    <3>1. 0 * FileBlocks = 0
      BY <1>1
    <3> QED
      BY <2>1, <2>6, <3>1
  <2>8. i - 1 \in Nat /\ ~(x <= (i - 1) * FileBlocks)
    <3>1. i - 1 \in Nat /\ i - 1 < i
      BY <2>6, <2>7
    <3>2. i - 1 \notin D
      BY <2>5, <3>1
    <3> QED
      BY <3>1, <3>2
  <2>9. LastOf(i - 1) < x /\ x <= LastOf(i) /\ LastOf(i) \in Nat /\ LastOf(i - 1) \in Nat
    <3>1. (i - 1) * FileBlocks \in Nat /\ i * FileBlocks \in Nat
      BY <1>1, <2>6, <2>8
    <3> QED
      BY <1>1, <2>1, <2>2, <2>6, <2>8, <3>1, LastOfIs
  <2>10. b \in Content(i)
    BY <1>1, <2>1, <2>9 DEF Content
  <2>11. i \in landed
    <3>1. 1..reported \subseteq delivered
      BY PrefixIsRun DEF DeliveryInv, Told
    <3> QED
      BY <1>1, <2>6, <2>7, <3>1 DEF DeliveryInv, SinkInv, AcksAreTrue
  <2>12. target[Name(i)] = Content(i)
    BY <2>11 DEF DeliveryInv, Placed
  <2>13. Name(i) \in 1 .. first - 1 + k
    BY <1>1, <2>6, <2>7 DEF Name
  <2> QED
    BY <2>10, <2>12, <2>13
<1> QED
  BY <1>1, <1>2, <1>3

\* What the document claims is there, in files that the next attempt does not name.
LEMMA DocumentHolds ==
  ASSUME DeliveryInv
  PROVE  /\ NoGap
         /\ over = "no" /\ ~Succeeded =>
              1..doc.cursor \subseteq UNION {target[o] : o \in 1 .. FirstObject(TRUE) - 1}
<1> SUFFICES ASSUME over = "no"
             PROVE  /\ NoGap
                    /\ ~Succeeded => 1..doc.cursor \subseteq UNION {target[o] : o \in 1 .. FirstObject(TRUE) - 1}
  BY DEF NoGap
<1>1. /\ base \in Nat /\ first \in Nat \ {0} /\ read \in Nat /\ doc.cursor \in Nat /\ doc.next \in Nat
      /\ reported \in Nat /\ reported <= MaxFiles /\ MaxFiles \in Nat
  BY SinkAssumption DEF DeliveryInv, Types, SinkInv, SupTypeOK
<1>2. 1 .. first - 1 + MaxFiles \subseteq Objects
  BY ObjectsHold DEF DeliveryInv
<1>3. ASSUME NEW k \in Nat, k <= reported, doc.cursor <= base + LastOf(k)
      PROVE  /\ 1..doc.cursor \subseteq UNION {target[o] : o \in 1 .. first - 1 + k}
             /\ NoGap
  <2>1. LastOf(k) \in Nat
    BY <1>1, LastOfMono
  <2>2. 1..doc.cursor \subseteq UNION {target[o] : o \in 1 .. first - 1 + k}
    BY <1>1, <1>3, <2>1, Reaches
  <2>3. 1 .. first - 1 + k \subseteq Objects
    BY <1>1, <1>2, <1>3
  <2> QED
    BY <2>2, <2>3 DEF NoGap, AtTarget
<1>4. CASE doc.next # 0
  <2> DEFINE k == doc.next - first
  <2>1. k \in Nat /\ k <= reported /\ doc.cursor <= base + LastOf(k) /\ first - 1 + k = FirstObject(TRUE) - 1
    BY <1>1, <1>4 DEF DeliveryInv, Recorded, FirstObject
  <2> HIDE DEF k
  <2> QED
    BY <1>3, <2>1
<1>5. CASE doc.next = 0 /\ doc.cursor = 0
  BY <1>5 DEF NoGap
<1>6. CASE doc.next = 0 /\ Succeeded /\ doc.cursor <= base + LastOf(reported)
  BY <1>1, <1>3, <1>6
<1> QED
  BY <1>4, <1>5, <1>6 DEF DeliveryInv, Recorded

----------------------------------------------------------------------------
(* The invariant *)

\* The steps of the sink stage and of those around it are SinkSupervisor's.
LEMMA SinkKeepsAlone ==
  ASSUME SinkInv,
         SinkStage \/ StageFile \/ DstDies \/ Finalize \/ DataPhaseFails \/ PluginsGone
         \/ (\E i \in Files : Upload(i)) \/ UNCHANGED supVars
  PROVE  SinkInv'
<1>1. CASE PluginsGone
  <2>1. /\ UNCHANGED <<staged, halt, received, delivered, inputClosed, reported, prefixTx, sup, restarts,
                       halting, pinged, inSink, landed, acks, farewell, hung>>
        /\ eventsOpen' = FALSE
    BY <1>1 DEF PluginsGone, ledgerVars, driveVars, sinkVars
  <2>2. eventsOpen' \in BOOLEAN
    BY <2>1, Zenon
  <2> QED
    BY <2>1, <2>2 DEF SinkInv, SupTypeOK, AcksAreTrue, HandedOver, EndsInOrder, InputOpen, Driving,
       Pending, Emitted
<1>2. CASE ~PluginsGone
  <2>1. [SupNext]_supVars
    BY <1>2 DEF SinkStage, StageFile, DstDies, Finalize, DataPhaseFails, Upload, SupNext, SinkStep, SinkWorks
  <2> QED
    BY <2>1, SinkInvStep
<1> QED
  BY <1>1, <1>2

\* The same, of a state that satisfies the invariant of the attempts.
LEMMA SinkKeeps ==
  ASSUME DeliveryInv,
         SinkStage \/ StageFile \/ DstDies \/ Finalize \/ DataPhaseFails \/ PluginsGone
         \/ (\E i \in Files : Upload(i)) \/ UNCHANGED supVars
  PROVE  SinkInv'
  BY SinkKeepsAlone DEF DeliveryInv

\* A step that reads, commits, records, delivers and places nothing keeps it.
LEMMA FrameKeeps ==
  ASSUME DeliveryInv, SinkInv',
         UNCHANGED <<attempt, base, first, read, committed, checkpoints, seen, doc, over, target, orphan,
                     reported, prefixTx, delivered, landed, staged>>,
         srcOpen' => srcOpen, Succeeded => Succeeded'
  PROVE  DeliveryInv'
<1>1. \A i : LastOf(i)' = LastOf(i) /\ Content(i)' = Content(i) /\ Name(i)' = Name(i)
  BY DEF LastOf, Content, Name
<1>2. Types'
  BY DEF DeliveryInv, Types
<1>3. Announced'
  BY <1>1 DEF DeliveryInv, Announced
<1>4. Told'
  BY DEF DeliveryInv, Told, Drained
<1>5. Placed'
  BY <1>1 DEF DeliveryInv, Placed
<1>6. Behind' /\ Harmless'
  BY DEF DeliveryInv, Behind, Harmless
<1>7. Recorded'
  BY <1>1 DEF DeliveryInv, Recorded
<1> QED
  BY <1>2, <1>3, <1>4, <1>5, <1>6, <1>7 DEF DeliveryInv

\* A batch more moves the end of no file that was announced.
LEMMA ReadBatchOK ==
  ASSUME Orderly, DeliveryInv, ReadBatch
  PROVE  DeliveryInv'
<1>1. /\ read' = read + 1 /\ srcOpen /\ orphan = {}
      /\ UNCHANGED <<attempt, base, first, committed, checkpoints, seen, doc, over, target, orphan,
                     reported, prefixTx, delivered, landed, staged, srcOpen, sup, outcome, tracking>>
      /\ UNCHANGED supVars
  BY DEF ReadBatch, Orderly, attemptVars, docVars, stateVars, worldVars, supVars, inputVars, ledgerVars, driveVars, sinkVars
<1>2. /\ read \in Nat /\ read' \in Nat /\ staged \in Nat /\ received \in 0..staged /\ reported \in 0..received
      /\ landed \subseteq 1..received /\ FileBlocks \in Nat \ {0}
  <2>1. read \in Nat
    BY DEF DeliveryInv, Types
  <2>2. staged \in 0..MaxFiles /\ received \in 0..staged /\ reported \in 0..received /\ landed \subseteq 1..received
    BY DEF DeliveryInv, SinkInv, SupTypeOK, Emitted
  <2> QED
    BY <1>1, <2>1, <2>2, SinkAssumption, DeliveryAssumption
<1>3. ASSUME NEW i \in 0..staged PROVE LastOf(i)' = LastOf(i)
  <2> DEFINE n == i * FileBlocks
  <2>1. i \in Nat /\ n \in Nat /\ n <= read
    <3>1. CASE i = 0
      BY <1>2, <3>1
    <3>2. CASE i # 0
      BY <1>1, <1>2, <3>2 DEF DeliveryInv, Announced
    <3> QED
      BY <3>1, <3>2
  <2>2. LastOf(i) = Min({n, read}) /\ LastOf(i)' = Min({n, read'})
    BY DEF LastOf
  <2> HIDE DEF n
  <2>3. Min({n, read}) = n /\ Min({n, read'}) = n
    BY <1>1, <1>2, <2>1 DEF Min
  <2> QED
    BY <2>2, <2>3
<1>4. SinkInv'
  BY <1>1, SinkKeeps
<1>5. Types'
  <2>1. checkpoints' \subseteq 1..read'
    BY <1>1, <1>2 DEF DeliveryInv, Types
  <2> QED
    BY <1>1, <1>2, <2>1 DEF DeliveryInv, Types
<1>6. Announced'
  <2>1. LastOf(staged)' = LastOf(staged)
    BY <1>1, <1>2, <1>3
  <2>2. \A i \in 1..staged' : i * FileBlocks <= read' \/ ~srcOpen'
    <3> TAKE i \in 1..staged'
    <3> DEFINE n == i * FileBlocks
    <3>1. n \in Nat /\ n <= read
      BY <1>1, <1>2 DEF DeliveryInv, Announced
    <3> HIDE DEF n
    <3>2. n <= read'
      BY <1>1, <1>2, <3>1
    <3> QED
      BY <3>2 DEF n
  <2>3. (staged > 0 => read > 0)' /\ (committed <= LastOf(staged))'
    BY <1>1, <1>2, <2>1 DEF DeliveryInv, Announced
  <2> QED
    BY <2>2, <2>3 DEF Announced
<1>7. Told'
  BY <1>1 DEF DeliveryInv, Told, Drained
<1>8. Placed'
  <2> SUFFICES ASSUME NEW i \in landed PROVE target[Name(i)] = Content(i)'
    BY <1>1 DEF Placed, Name
  <2>1. i \in 0..staged /\ i - 1 \in 0..staged
    BY <1>2
  <2>2. LastOf(i)' = LastOf(i) /\ LastOf(i - 1)' = LastOf(i - 1)
    BY <1>3, <2>1
  <2>3. Content(i)' = Content(i)
    BY <1>1, <2>2 DEF Content
  <2> QED
    BY <2>3 DEF DeliveryInv, Placed
<1>9. Behind' /\ Harmless'
  BY <1>1 DEF DeliveryInv, Behind, Harmless
<1>10. Recorded'
  <2>1. reported \in 0..staged /\ LastOf(reported)' = LastOf(reported)
    BY <1>1, <1>2, <1>3
  <2>2. ASSUME over = "no", doc.next # 0 PROVE LastOf(doc.next - first)' = LastOf(doc.next - first)
    <3>1. doc.next - first \in 0..staged
      BY <1>2, <2>2 DEF DeliveryInv, Types, Recorded
    <3> QED
      BY <1>1, <1>3, <3>1
  <2> QED
    BY <1>1, <2>1, <2>2 DEF DeliveryInv, Recorded, Succeeded
<1> QED
  BY <1>4, <1>5, <1>6, <1>7, <1>8, <1>9, <1>10 DEF DeliveryInv

\* A file that is announced is full, or the last.
LEMMA StageFileOK ==
  ASSUME DeliveryInv, StageFile
  PROVE  DeliveryInv'
<1>1. /\ staged' = staged + 1 /\ LastOf(staged) < read
      /\ (staged + 1) * FileBlocks <= read \/ ~srcOpen
      /\ UNCHANGED <<attempt, base, first, read, committed, checkpoints, seen, doc, over, target, orphan,
                     reported, prefixTx, delivered, landed, srcOpen, sup, outcome, tracking>>
  BY DEF StageFile, Announce, attemptVars, docVars, planeVars, stateVars, worldVars, ledgerVars, driveVars, sinkVars
<1>2. read \in Nat /\ staged \in Nat /\ committed \in Nat
  BY SinkAssumption DEF DeliveryInv, Types, SinkInv, SupTypeOK
<1>3. \A i : LastOf(i)' = LastOf(i) /\ Content(i)' = Content(i) /\ Name(i)' = Name(i)
  BY <1>1 DEF LastOf, Content, Name
<1>4. SinkInv'
  BY SinkKeeps
<1>5. Types' /\ Behind' /\ Harmless'
  BY <1>1 DEF DeliveryInv, Types, Behind, Harmless
<1>6. Announced'
  <2>1. LastOf(staged) \in Nat /\ LastOf(staged + 1) \in Nat /\ LastOf(staged) <= LastOf(staged + 1)
    BY <1>2, LastOfMono
  <2>2. read > 0 /\ committed <= LastOf(staged + 1)
    BY <1>1, <1>2, <2>1 DEF DeliveryInv, Announced
  <2>3. ASSUME NEW i \in 1 .. staged + 1 PROVE i * FileBlocks <= read \/ ~srcOpen
    <3>1. CASE i = staged + 1
      BY <1>1, <3>1
    <3>2. CASE i # staged + 1
      <4>1. i \in 1..staged
        BY <1>2, <3>2
      <4> QED
        BY <4>1 DEF DeliveryInv, Announced
    <3> QED
      BY <3>1, <3>2
  <2>4. LastOf(staged)' = LastOf(staged + 1)
    BY <1>1 DEF LastOf
  <2> QED
    BY <1>1, <2>2, <2>3, <2>4 DEF Announced
<1>7. Told'
  BY <1>1 DEF DeliveryInv, Told, Drained
<1>8. Placed'
  BY <1>1, <1>3 DEF DeliveryInv, Placed
<1>9. Recorded'
  BY <1>1, <1>3 DEF DeliveryInv, Recorded, Succeeded
<1> QED
  BY <1>4, <1>5, <1>6, <1>7, <1>8, <1>9 DEF DeliveryInv

\* Only what is in announced files is committed.
LEMMA CommitOK ==
  ASSUME DeliveryInv, Commit \/ Finalize
  PROVE  DeliveryInv'
<1>1. /\ committed' = LastOf(staged)
      /\ UNCHANGED <<attempt, base, first, read, checkpoints, seen, doc, over, target, orphan, staged,
                     reported, prefixTx, delivered, landed, srcOpen, sup, outcome, tracking>>
  BY DEF Commit, Finalize, EventsEnd, attemptVars, docVars, stateVars, worldVars, supVars, inputVars, ledgerVars,
     driveVars, sinkVars
<1>2. read \in Nat /\ staged \in Nat
  BY SinkAssumption DEF DeliveryInv, Types, SinkInv, SupTypeOK
<1>3. LastOf(staged) \in Nat
  BY <1>2, LastOfMono
<1>4. \A i : LastOf(i)' = LastOf(i) /\ Content(i)' = Content(i) /\ Name(i)' = Name(i)
  BY <1>1 DEF LastOf, Content, Name
<1>5. SinkInv'
  BY SinkKeeps DEF Commit
<1>6. Types' /\ Behind' /\ Harmless'
  BY <1>1, <1>3 DEF DeliveryInv, Types, Behind, Harmless
<1>7. Announced'
  BY <1>1, <1>3, <1>4 DEF DeliveryInv, Announced
<1>8. Told' /\ Placed'
  BY <1>1, <1>4 DEF DeliveryInv, Told, Drained, Placed
<1>9. Recorded'
  BY <1>1, <1>4 DEF DeliveryInv, Recorded, Succeeded
<1> QED
  BY <1>5, <1>6, <1>7, <1>8, <1>9 DEF DeliveryInv

\* An acknowledgement makes the prefix longer, or leaves it, and the state
\* supervisor will hear of a longer one.
LEMMA AcknowledgedOK ==
  ASSUME DeliveryInv, SinkStage, NEW i \in Files, ObjectDelivered(i)
  PROVE  DeliveryInv'
<1>1. /\ UNCHANGED <<attempt, base, first, read, committed, checkpoints, seen, doc, over, target, orphan, staged,
                     landed, srcOpen>>
      /\ delivered' = delivered \cup {i} /\ sup = "driving"
      /\ \/ Prefix(delivered') > reported /\ reported' = Prefix(delivered')
            /\ prefixTx' = Append(prefixTx, Prefix(delivered'))
         \/ ~(Prefix(delivered') > reported) /\ UNCHANGED <<reported, prefixTx>>
  BY DEF SinkStage, ObjectDelivered, Driving, attemptVars, docVars, planeVars, stateVars, worldVars, inputVars
<1>2. /\ reported \in Nat /\ seen \in Nat /\ seen <= reported /\ reported = Prefix(delivered) /\ Drained = reported
      /\ prefixTx \in Seq(Files) /\ \A k \in 1..Len(prefixTx) : prefixTx[k] <= reported
  BY SinkAssumption DEF DeliveryInv, Types, Told, SinkInv, SupTypeOK
<1>3. Prefix(delivered') \in 0..MaxFiles /\ Prefix(delivered) <= Prefix(delivered')
  <2>1. Prefix(delivered') \in 0..MaxFiles
    BY PrefixIsRun
  <2>2. delivered \subseteq delivered'
    BY <1>1
  <2> QED
    BY <2>1, <2>2, PrefixMono
<1>4. SinkInv'
  BY SinkKeeps
<1>5. \A k : LastOf(k)' = LastOf(k) /\ Content(k)' = Content(k) /\ Name(k)' = Name(k)
  BY <1>1 DEF LastOf, Content, Name
<1>6. Types' /\ Behind' /\ Harmless'
  BY <1>1 DEF DeliveryInv, Types, Behind, Harmless
<1>7. Announced' /\ Placed'
  BY <1>1, <1>5 DEF DeliveryInv, Announced, Placed
<1>8. Told' /\ reported <= reported'
  <2>1. CASE UNCHANGED <<reported, prefixTx>> /\ ~(Prefix(delivered') > reported)
    <3>1. reported' = Prefix(delivered')
      BY <1>2, <1>3, <2>1, SinkAssumption
    <3>2. Drained' = reported'
      BY <1>1, <1>2, <2>1 DEF Drained
    <3>3. \A k \in 1..Len(prefixTx') : prefixTx'[k] <= reported'
      BY <1>2, <2>1
    <3>4. seen' <= reported' /\ reported <= reported'
      BY <1>1, <1>2, <2>1
    <3> QED
      BY <3>1, <3>2, <3>3, <3>4 DEF Told
  <2>2. CASE Prefix(delivered') > reported /\ reported' = Prefix(delivered')
             /\ prefixTx' = Append(prefixTx, Prefix(delivered'))
    <3> DEFINE n == Prefix(delivered')
    <3>1. n \in Nat /\ n > reported /\ reported' = n /\ prefixTx' = Append(prefixTx, n)
      BY <1>3, <2>2, SinkAssumption
    <3> HIDE DEF n
    <3>2. prefixTx' # <<>> /\ Len(prefixTx') = Len(prefixTx) + 1 /\ prefixTx'[Len(prefixTx')] = n
      BY <1>2, <3>1
    <3>3. \A k \in 1..Len(prefixTx') : prefixTx'[k] <= n
      <4> TAKE k \in 1..Len(prefixTx')
      <4>1. CASE k = Len(prefixTx')
        BY <3>1, <3>2, <4>1
      <4>2. CASE k # Len(prefixTx')
        <5>1. k \in 1..Len(prefixTx) /\ prefixTx'[k] = prefixTx[k] /\ prefixTx[k] \in Files
          BY <1>2, <3>1, <3>2, <4>2
        <5>2. prefixTx[k] \in Nat /\ prefixTx[k] <= reported
          BY <1>2, <5>1, SinkAssumption DEF Files
        <5> QED
          BY <1>2, <3>1, <5>1, <5>2
      <4> QED
        BY <4>1, <4>2
    <3>4. Drained' = reported' /\ reported' = Prefix(delivered')
      BY <2>2, <3>1, <3>2 DEF Drained
    <3>5. seen' <= reported' /\ reported <= reported'
      BY <1>1, <1>2, <3>1
    <3> QED
      BY <3>1, <3>3, <3>4, <3>5 DEF Told
  <2> QED
    BY <1>1, <2>1, <2>2
<1>9. Recorded'
  <2>1. reported' \in Nat
    BY <1>4, SinkAssumption DEF SinkInv, SupTypeOK
  <2>2. doc.next \in Nat /\ first \in Nat /\ ~Succeeded
    BY <1>1 DEF DeliveryInv, Types, Succeeded
  <2> QED
    BY <1>1, <1>2, <1>5, <1>8, <2>1, <2>2 DEF DeliveryInv, Recorded
<1> QED
  BY <1>4, <1>6, <1>7, <1>8, <1>9 DEF DeliveryInv

\* What a throttled persist writes counts delivered files and no row behind them.
LEMMA PersistRecords ==
  ASSUME Types, reported \in Nat, NEW cs \in SUBSET (1..read), NEW objects \in Nat, objects <= reported,
         PersistDue(cs, objects), tracking = "on", Recorded,
         UNCHANGED <<base, first, read>>, reported' = reported
  PROVE  Recorded' /\ doc' \in [cursor : Nat, next : Nat] /\ over' \in {"no", "redoing", "mixed"}
<1>0. over' \in {"no", "redoing", "mixed"}
  BY DEF PersistDue, Rewrites, Types, docVars
<1>1. /\ base \in Nat /\ first \in Nat \ {0} /\ read \in Nat /\ LastOf(objects) \in Nat
      /\ doc \in [cursor : Nat, next : Nat] /\ ~Succeeded
  BY LastOfMono DEF Types, Succeeded
<1>2. Safe(cs, LastOf(objects)) \in Nat /\ Safe(cs, LastOf(objects)) <= LastOf(objects)
  BY <1>1, SafeIsBehind
<1>3. \A k : LastOf(k)' = LastOf(k)
  BY DEF LastOf
<1>4. CASE UNCHANGED docVars
  <2>1. doc' = doc /\ over' = over
    BY <1>4 DEF docVars
  <2>2. LastOf(doc.next - first)' = LastOf(doc.next - first)
    BY <1>3, <2>1
  <2>3. Recorded'
    BY <1>1, <2>1, <2>2 DEF Recorded
  <2> QED
    BY <1>0, <1>1, <2>1, <2>3
<1>5. CASE ~UNCHANGED docVars
  <2> DEFINE batch == Safe(cs, LastOf(objects))
  <2>1. doc' = Record(batch, objects) /\ batch > 0
    BY <1>5 DEF PersistDue
  <2> HIDE DEF batch
  <2>2. doc' = [cursor |-> base + batch, next |-> first + objects]
    BY <2>1 DEF Record
  <2>3. batch \in Nat /\ batch <= LastOf(objects)
    BY <1>2 DEF batch
  <2>4. doc'.next = first + objects /\ doc'.cursor = base + batch /\ doc'.next - first = objects
        /\ doc'.next # 0
    BY <1>1, <2>2, <2>3
  <2>5. /\ doc'.cursor > 0 /\ first' <= doc'.next /\ doc'.next - first' <= reported'
        /\ doc'.cursor <= base' + LastOf(objects)
    BY <1>1, <2>1, <2>3, <2>4
  <2>6. LastOf(doc.next - first)' = LastOf(objects)
    BY <1>3, <2>4
  <2>7. Recorded'
    BY <2>4, <2>5, <2>6 DEF Recorded
  <2>8. base + batch \in Nat /\ first + objects \in Nat
    BY <1>1, <2>3
  <2> QED
    BY <1>0, <2>2, <2>7, <2>8
<1> QED
  BY <1>0, <1>4, <1>5

\* A checkpoint or a prefix arrives, and a persist may be due.
LEMMA ArrivalOK ==
  ASSUME DeliveryInv, PrefixArrives \/ (\E c \in 1..Blocks : CheckpointArrives(c))
  PROVE  DeliveryInv'
<1>1. /\ UNCHANGED <<attempt, base, first, read, committed, target, orphan, staged, delivered, landed, srcOpen,
                     reported, eventsOpen, halt, received, inputClosed, sup, restarts, halting, pinged,
                     inSink, acks, farewell, hung>>
      /\ tracking = "on"
  BY DEF PrefixArrives, CheckpointArrives, Looping, attemptVars, docVars, planeVars, worldVars, supVars, inputVars,
     ledgerVars, driveVars, sinkVars
<1>2. /\ reported \in Nat /\ seen \in Nat /\ seen <= reported /\ Drained = reported
      /\ prefixTx \in Seq(Files) /\ \A k \in 1..Len(prefixTx) : prefixTx[k] <= reported
  BY SinkAssumption DEF DeliveryInv, Types, Told, SinkInv, SupTypeOK
<1>3. /\ checkpoints' \subseteq 1..read /\ seen' \in Nat /\ seen' <= reported /\ prefixTx' \in Seq(Files)
      /\ PersistDue(checkpoints', seen') /\ Told'
  <2>1. CASE PrefixArrives
    <3>1. prefixTx # <<>> /\ seen' = Head(prefixTx) /\ prefixTx' = Tail(prefixTx) /\ checkpoints' = checkpoints
          /\ PersistDue(checkpoints, seen')
      BY <2>1 DEF PrefixArrives
    <3>2. Len(prefixTx) \in Nat \ {0} /\ seen' = prefixTx[1] /\ seen' \in Files
      BY <1>2, <3>1
    <3>3. seen' \in Nat /\ seen' <= reported
      BY <1>2, <3>2, SinkAssumption DEF Files
    <3>4. /\ prefixTx' \in Seq(Files) /\ Len(prefixTx') = Len(prefixTx) - 1
          /\ \A k \in 1 .. Len(prefixTx) - 1 : prefixTx'[k] = prefixTx[k + 1]
      BY <1>2, <3>1
    <3>5. Drained' = reported
      <4>1. prefixTx[Len(prefixTx)] = reported
        BY <1>2, <3>1 DEF Drained
      <4>2. CASE prefixTx' = <<>>
        <5>1. Len(prefixTx') = 0
          BY <4>2
        <5>2. Len(prefixTx) = 1
          BY <3>2, <3>4, <5>1
        <5> QED
          BY <3>2, <4>1, <4>2, <5>2 DEF Drained
      <4>3. CASE prefixTx' # <<>>
        <5>1. Len(prefixTx') \in 1 .. Len(prefixTx) - 1
          BY <3>2, <3>4, <4>3
        <5>2. prefixTx'[Len(prefixTx')] = reported
          BY <3>2, <3>4, <4>1, <5>1
        <5> QED
          BY <4>3, <5>2 DEF Drained
      <4> QED
        BY <4>2, <4>3
    <3>6. \A k \in 1..Len(prefixTx') : prefixTx'[k] <= reported
      BY <1>2, <3>2, <3>4
    <3> QED
      BY <1>1, <3>1, <3>3, <3>4, <3>5, <3>6 DEF DeliveryInv, Types, Told
  <2>2. CASE \E c \in 1..Blocks : CheckpointArrives(c)
    <3>1. /\ checkpoints' \subseteq 1..read /\ PersistDue(checkpoints', seen)
          /\ UNCHANGED <<seen, prefixTx>>
      BY <2>2 DEF CheckpointArrives, DeliveryInv, Types, supVars, ledgerVars
    <3> QED
      BY <1>1, <1>2, <3>1 DEF DeliveryInv, Told, Drained
  <2> QED
    BY <2>1, <2>2
<1>4. SinkInv'
  BY <1>1, <1>3 DEF DeliveryInv, SinkInv, SupTypeOK, AcksAreTrue, HandedOver, EndsInOrder, InputOpen, Driving,
     Pending, Emitted
<1>5. Recorded' /\ doc' \in [cursor : Nat, next : Nat] /\ over' \in {"no", "redoing", "mixed"}
  BY <1>1, <1>2, <1>3, PersistRecords DEF DeliveryInv
<1>6. \A k : LastOf(k)' = LastOf(k) /\ Content(k)' = Content(k) /\ Name(k)' = Name(k)
  BY <1>1 DEF LastOf, Content, Name
<1>7. Types'
  BY <1>1, <1>3, <1>5 DEF DeliveryInv, Types
<1>8. Announced' /\ Placed' /\ Behind' /\ Harmless'
  BY <1>1, <1>6 DEF DeliveryInv, Announced, Placed, Behind, Harmless
<1> QED
  BY <1>3, <1>4, <1>5, <1>7, <1>8 DEF DeliveryInv

\* When the sink stage is done, everything committed is in delivered files.
LEMMA FinalFlushOK ==
  ASSUME Orderly, DeliveryInv, FinalFlush
  PROVE  DeliveryInv'
<1>1. /\ UNCHANGED <<attempt, base, first, read, committed, checkpoints, seen, target, orphan, staged, delivered,
                     landed, srcOpen, reported, prefixTx, sup, outcome>>
      /\ UNCHANGED supVars /\ tracking = "on"
  BY DEF FinalFlush, attemptVars, docVars, planeVars, worldVars, supVars, inputVars, ledgerVars, driveVars, sinkVars
<1>2. /\ base \in Nat /\ first \in Nat \ {0} /\ read \in Nat /\ committed \in Nat /\ checkpoints \in SUBSET (1..read)
      /\ doc \in [cursor : Nat, next : Nat] /\ ~Succeeded
  BY <1>1 DEF DeliveryInv, Types, Succeeded
<1>3. reported \in Nat /\ staged \in 0..MaxFiles /\ staged \in Nat /\ Drained = reported
  BY SinkAssumption DEF DeliveryInv, Told, SinkInv, SupTypeOK
<1>4. LastOf(reported) \in Nat
  BY <1>2, <1>3, LastOfMono
<1>5. ASSUME sup = "done" PROVE committed <= LastOf(Drained)
  <2>1. delivered = 1..staged
    BY <1>5 DEF Orderly, DeliveryInv, SinkInv, EndsInOrder
  <2>2. Prefix(1..staged) = staged
    BY <1>3, PrefixOfAll DEF Orderly
  <2>3. Drained = staged
    BY <1>3, <2>1, <2>2 DEF DeliveryInv, Told
  <2> QED
    BY <2>3 DEF DeliveryInv, Announced
<1> DEFINE frontier == IF sup = "done" THEN committed ELSE LastOf(Drained)
           batch == Safe(checkpoints, frontier)
           succeeded == sup = "done" /\ outcome = "ok"
<1>6. frontier \in Nat /\ frontier <= LastOf(reported)
  BY <1>2, <1>3, <1>4, <1>5
<1>7. batch \in Nat /\ batch <= LastOf(reported)
  <2> HIDE DEF frontier
  <2>1. batch \in Nat /\ batch <= frontier
    BY <1>2, <1>6, SafeIsBehind
  <2> HIDE DEF batch
  <2> QED
    BY <1>4, <1>6, <2>1
<1>8. \/ doc' = doc /\ over' = over /\ ~(succeeded /\ doc.next # 0 /\ tracking' = "done")
      \/ succeeded /\ tracking' = "done" /\ batch > 0 /\ doc' = [cursor |-> base + batch, next |-> 0]
      \/ ~succeeded /\ batch > 0 /\ doc' = Record(batch, Drained)
      \/ /\ succeeded /\ tracking' = "done" /\ batch = 0 /\ doc' = [doc EXCEPT !.next = 0] /\ doc.next # 0
         /\ over' = over
  <2> DEFINE document == IF succeeded THEN [cursor |-> base + batch, next |-> 0] ELSE Record(batch, Drained)
             clears == succeeded /\ doc.next # 0
             writes == Advances(batch) \/ clears
  <2>1. \/ writes /\ batch > 0 /\ doc' = document /\ tracking' = "done"
        \/ writes /\ batch = 0 /\ doc' = [doc EXCEPT !.next = 0] /\ over' = over /\ tracking' = "done"
        \/ ~writes /\ doc' = doc /\ over' = over
        \/ tracking' = "failed" /\ doc' = doc /\ over' = over
    BY DEF FinalFlush, docVars
  <2>2. Advances(batch) => batch > 0
    BY DEF Advances
  <2> HIDE DEF batch, frontier
  <2> QED
    BY <1>7, <2>1, <2>2
<1>9. \A k : LastOf(k)' = LastOf(k) /\ Content(k)' = Content(k) /\ Name(k)' = Name(k)
  BY <1>1 DEF LastOf, Content, Name
<1>10. succeeded /\ tracking' = "done" => Succeeded'
  BY <1>1 DEF Succeeded
<1> HIDE DEF succeeded, batch, frontier
<1>15. over' \in {"no", "redoing", "mixed"}
  BY DEF FinalFlush, Rewrites, docVars, DeliveryInv, Types
<1>11. Recorded' /\ doc' \in [cursor : Nat, next : Nat]
  <2>1. CASE doc' = doc /\ over' = over
    <3>1. over = "no" /\ doc.next = 0 => doc.cursor = 0
      BY <1>2 DEF DeliveryInv, Recorded
    <3> QED
      BY <1>1, <1>2, <1>9, <2>1, <3>1 DEF DeliveryInv, Recorded
  <2>2. CASE succeeded /\ tracking' = "done" /\ batch > 0 /\ doc' = [cursor |-> base + batch, next |-> 0]
    <3>1. doc'.cursor = base + batch /\ doc'.next = 0 /\ doc' \in [cursor : Nat, next : Nat]
      BY <1>2, <1>7, <2>2
    <3>2. Succeeded'
      BY <1>10, <2>2
    <3> QED
      BY <1>1, <1>2, <1>4, <1>7, <1>9, <3>1, <3>2 DEF Recorded
  <2>3. CASE batch > 0 /\ doc' = Record(batch, Drained)
    <3>1. doc' = [cursor |-> base + batch, next |-> first + reported]
      BY <1>3, <2>3 DEF Record
    <3>2. doc'.cursor = base + batch /\ doc'.next = first + reported /\ doc' \in [cursor : Nat, next : Nat]
      BY <1>2, <1>3, <1>7, <3>1
    <3>3. doc'.next - first = reported /\ doc'.next # 0 /\ doc'.cursor > 0 /\ first <= doc'.next
      BY <1>2, <1>3, <1>7, <2>3, <3>2
    <3> QED
      BY <1>1, <1>2, <1>3, <1>4, <1>7, <1>9, <3>2, <3>3 DEF Recorded
  <2>4. CASE succeeded /\ tracking' = "done" /\ doc' = [doc EXCEPT !.next = 0] /\ doc.next # 0 /\ over' = over
    <3>1. doc'.cursor = doc.cursor /\ doc'.next = 0 /\ doc' \in [cursor : Nat, next : Nat]
      BY <1>2, <2>4
    <3>2. Succeeded'
      BY <1>10, <2>4
    <3>3. over = "no" => doc.cursor <= base + LastOf(reported)
      <4> SUFFICES ASSUME over = "no" PROVE doc.cursor <= base + LastOf(reported)
        OBVIOUS
      <4> DEFINE k == doc.next - first
      <4>1. k \in Nat /\ k <= reported /\ doc.cursor <= base + LastOf(k)
        BY <1>2, <2>4 DEF DeliveryInv, Recorded
      <4> HIDE DEF k
      <4>2. LastOf(k) \in Nat /\ LastOf(k) <= LastOf(reported)
        BY <1>2, <1>3, <4>1, LastOfMono
      <4> QED
        BY <1>2, <1>4, <4>1, <4>2
    <3> QED
      BY <1>1, <1>9, <2>4, <3>1, <3>2, <3>3 DEF Recorded
  <2> QED
    BY <1>8, <2>1, <2>2, <2>3, <2>4
<1>12. SinkInv'
  BY <1>1, SinkKeeps
<1>13. Types'
  BY <1>1, <1>11, <1>15 DEF DeliveryInv, Types
<1>14. Announced' /\ Told' /\ Placed' /\ Behind' /\ Harmless'
  BY <1>1, <1>9 DEF DeliveryInv, Announced, Told, Drained, Placed, Behind, Harmless
<1> QED
  BY <1>11, <1>12, <1>13, <1>14 DEF DeliveryInv

\* A file lands behind everything that is relied on.
LEMMA UploadOK ==
  ASSUME DeliveryInv, NEW i \in Files, Upload(i)
  PROVE  DeliveryInv' /\ (over = "no" => \A o \in Objects : o < doc.next => target'[o] = target[o])
<1>1. /\ UNCHANGED <<attempt, base, first, read, committed, checkpoints, seen, doc, over, orphan, staged, delivered,
                     srcOpen, reported, prefixTx, sup, outcome, tracking>>
      /\ target' = [target EXCEPT ![Name(i)] = Content(i)]
      /\ landed' = landed \cup {i} /\ i \notin landed
  BY DEF Upload, Land, CoreUnchanged, attemptVars, docVars, planeVars, stateVars, supVars, inputVars, ledgerVars, driveVars
<1>2. /\ first \in Nat \ {0} /\ i \in 1..MaxFiles /\ MaxFiles \in Nat /\ reported \in Nat /\ doc.next \in Nat
      /\ target = [o \in Objects |-> target[o]]
  <2>1. reported \in 0..received /\ received \in 0..staged /\ staged \in 0..MaxFiles
    BY DEF DeliveryInv, SinkInv, SupTypeOK
  <2> QED
    BY <2>1, SinkAssumption DEF DeliveryInv, Types, Files
<1>3. 1 .. first - 1 + MaxFiles \subseteq Objects
  BY ObjectsHold DEF DeliveryInv
<1>4. Name(i) \in Objects /\ Name(i) = first + i - 1
  BY <1>2, <1>3 DEF Name
<1>5. /\ target'[Name(i)] = Content(i)
      /\ \A o \in Objects : o # Name(i) => target'[o] = target[o]
      /\ target' = [o \in Objects |-> target'[o]]
  <2>1. target'[Name(i)] = Content(i)
    BY <1>1, <1>2, <1>4
  <2>2. \A o \in Objects : o # Name(i) => target'[o] = target[o]
    BY <1>1, <1>2
  <2> QED
    BY <1>1, <1>2, <2>1, <2>2
<1>6. \A k : LastOf(k)' = LastOf(k) /\ Content(k)' = Content(k) /\ Name(k)' = Name(k)
  BY <1>1 DEF LastOf, Content, Name
<1>7. SinkInv'
  BY SinkKeeps
<1>8. Types' /\ Announced' /\ Told' /\ Recorded' /\ Harmless'
  BY <1>1, <1>5, <1>6 DEF DeliveryInv, Types, Announced, Told, Drained, Recorded, Harmless, Succeeded
<1>9. landed \subseteq 1..MaxFiles /\ 1..reported \subseteq landed
  <2>1. landed \subseteq 1..received /\ received \in 0..staged /\ staged \in 0..MaxFiles /\ delivered \subseteq landed
    BY DEF DeliveryInv, SinkInv, SupTypeOK, Emitted, AcksAreTrue
  <2>2. 1..reported \subseteq delivered
    BY PrefixIsRun DEF DeliveryInv, Told
  <2> QED
    BY <1>2, <2>1, <2>2
<1>10. Placed'
  <2> SUFFICES ASSUME NEW j \in landed, j # i PROVE target'[Name(j)] = Content(j)
    BY <1>1, <1>5, <1>6 DEF Placed
  <2>1. Name(j) = first + j - 1 /\ j \in 1..MaxFiles
    BY <1>9 DEF Name
  <2>2. Name(j) \in Objects /\ Name(j) # Name(i)
    BY <1>2, <1>3, <1>4, <2>1
  <2> QED
    BY <1>5, <2>2 DEF DeliveryInv, Placed
<1>11. Behind'
  <2> SUFFICES ASSUME NEW b \in 1..base PROVE \E o \in 1 .. first - 1 : b \in target'[o]
    BY <1>1 DEF Behind
  <2>1. PICK o \in 1 .. first - 1 : b \in target[o]
    BY DEF DeliveryInv, Behind
  <2>2. o \in Objects /\ o # Name(i)
    BY <1>2, <1>3, <1>4
  <2> QED
    BY <1>5, <2>1, <2>2
<1>12. ASSUME over = "no", NEW o \in Objects, o < doc.next PROVE target'[o] = target[o]
  <2>1. o \in Nat \ {0}
    <3>1. MaxFiles \in Nat /\ MaxAttempts \in Nat /\ MaxFiles * MaxAttempts \in Nat
      BY SinkAssumption, DeliveryAssumption
    <3> QED
      BY <3>1 DEF Objects
  <2>2. i > reported
    BY <1>1, <1>2, <1>9
  <2>3. doc.next - first <= reported
    BY <1>2, <1>12, <2>1 DEF DeliveryInv, Recorded
  <2> QED
    BY <1>2, <1>4, <1>5, <1>12, <2>1, <2>2, <2>3
<1> QED
  BY <1>7, <1>8, <1>10, <1>11, <1>12 DEF DeliveryInv

\* A sink left behind writes before the next attempt does.
LEMMA OrphanOK ==
  ASSUME DeliveryInv, OrphanUploads
  PROVE  DeliveryInv' /\ (over = "no" => \A o \in Objects : o < doc.next => target'[o] = target[o])
<1>1. PICK upload \in orphan : /\ target' = [target EXCEPT ![upload[1]] = upload[2]]
                              /\ orphan' = orphan \ {upload}
  BY DEF OrphanUploads
<1>2. /\ UNCHANGED <<attempt, base, first, read, committed, checkpoints, seen, doc, over, staged, delivered, landed,
                     srcOpen, reported, prefixTx, sup, outcome, tracking>>
      /\ UNCHANGED supVars
  BY DEF OrphanUploads, attemptVars, docVars, planeVars, stateVars, supVars, inputVars, ledgerVars, driveVars, sinkVars
<1>3. /\ read = 0 /\ first <= upload[1] /\ first \in Nat \ {0} /\ doc.next \in Nat
      /\ target = [o \in Objects |-> target[o]]
  BY DEF DeliveryInv, Types, Harmless
<1>4. staged = 0 /\ landed = {} /\ reported = 0
  <2>1. reported \in 0..received /\ received \in 0..staged /\ staged \in 0..MaxFiles /\ landed \subseteq 1..received
    BY DEF DeliveryInv, SinkInv, SupTypeOK, Emitted
  <2>2. ~(staged > 0)
    BY <1>3 DEF DeliveryInv, Announced
  <2> QED
    BY <2>1, <2>2, SinkAssumption
<1>5. /\ \A o \in Objects : o < first => target'[o] = target[o]
      /\ target' = [o \in Objects |-> target'[o]]
  <2>1. \A o \in Objects : o # upload[1] => target'[o] = target[o]
    BY <1>1, <1>3
  <2>2. \A o \in Objects : o < first => o # upload[1]
    <3> SUFFICES ASSUME NEW o \in Objects, o < first, o = upload[1] PROVE FALSE
      OBVIOUS
    <3>1. o \in Int
      BY DEF Objects
    <3> QED
      BY <1>3, <3>1
  <2> QED
    BY <1>1, <1>3, <2>1, <2>2
<1>6. \A k : LastOf(k)' = LastOf(k) /\ Content(k)' = Content(k) /\ Name(k)' = Name(k)
  BY <1>2 DEF LastOf, Content, Name
<1>7. SinkInv'
  BY <1>2, SinkKeeps
<1>8. Types' /\ Announced' /\ Told' /\ Recorded' /\ Harmless' /\ Placed'
  BY <1>1, <1>2, <1>4, <1>5, <1>6 DEF DeliveryInv, Types, Announced, Told, Drained, Recorded, Harmless, Succeeded, Placed
<1>9. 1 .. first - 1 + MaxFiles \subseteq Objects /\ MaxFiles \in Nat
  BY ObjectsHold, SinkAssumption DEF DeliveryInv
<1>10. Behind'
  <2> SUFFICES ASSUME NEW b \in 1..base PROVE \E o \in 1 .. first - 1 : b \in target'[o]
    BY <1>2 DEF Behind
  <2>1. PICK o \in 1 .. first - 1 : b \in target[o]
    BY DEF DeliveryInv, Behind
  <2>2. o \in Objects /\ o < first
    BY <1>3, <1>9
  <2> QED
    BY <1>5, <2>1, <2>2
<1>11. ASSUME over = "no", NEW o \in Objects, o < doc.next PROVE target'[o] = target[o]
  <2>1. o \in Nat \ {0}
    <3>1. MaxFiles \in Nat /\ MaxAttempts \in Nat /\ MaxFiles * MaxAttempts \in Nat
      BY SinkAssumption, DeliveryAssumption
    <3> QED
      BY <3>1 DEF Objects
  <2>2. doc.next - first <= 0
    BY <1>3, <1>4, <1>11, <2>1 DEF DeliveryInv, Recorded
  <2> QED
    BY <1>3, <1>5, <1>11, <2>1, <2>2
<1> QED
  BY <1>7, <1>8, <1>10, <1>11 DEF DeliveryInv

\* The next attempt relies on what the document counts, and names its files, as
\* a sink left behind by this one names its own, behind those.
LEMMA BeginOK ==
  ASSUME DeliveryInv, Retry \/ Crash, over' # "mixed"
  PROVE  DeliveryInv'
<1>0. PICK resumed \in BOOLEAN :
        /\ base' = IF resumed THEN doc.cursor ELSE 0
        /\ first' = FirstObject(resumed)
        /\ over' = Redone(resumed)
  BY DEF Retry, Crash, Begin, Resumes
<1>14. \/ resumed /\ over = "no" /\ over' = "no" /\ base' = doc.cursor /\ first' = FirstObject(TRUE)
       \/ over' = "redoing" /\ base' = 0 /\ first' = 1
  <2>1. CASE resumed
    BY <1>0, <2>1 DEF Redone, DeliveryInv, Types
  <2>2. CASE ~resumed
    BY <1>0, <2>2 DEF Redone, DeliveryInv, Types, FirstObject
  <2> QED
    BY <2>1, <2>2
<1>1. /\ ~Succeeded /\ attempt < MaxAttempts
      /\ attempt' = attempt + 1
      /\ UNCHANGED <<target, doc>>
      /\ staged' = 0 /\ reported' = 0 /\ received' = 0 /\ delivered' = {} /\ prefixTx' = <<>> /\ landed' = {}
      /\ read' = 0 /\ committed' = 0 /\ checkpoints' = {} /\ seen' = 0
  BY DEF Retry, Crash, Begin, FreshState
<1>2. orphan' \subseteq orphan \cup {<<Name(i), Content(i)>> : i \in inSink \ landed}
  BY DEF Retry, Crash
<1>3. /\ base \in Nat /\ first \in Nat \ {0} /\ read \in Nat /\ attempt \in 1..MaxAttempts
      /\ doc \in [cursor : Nat, next : Nat] /\ doc.next \in Nat /\ doc.cursor \in Nat
      /\ first - 1 <= MaxFiles * (attempt - 1)
      /\ MaxFiles \in Nat /\ MaxAttempts \in Nat
  BY SinkAssumption, DeliveryAssumption DEF DeliveryInv, Types
<1>4. reported \in Nat /\ reported <= MaxFiles
  <2>1. reported \in 0..received /\ received \in 0..staged /\ staged \in 0..MaxFiles
    BY DEF DeliveryInv, SinkInv, SupTypeOK
  <2> QED
    BY <1>3, <2>1
<1>5. /\ first' \in Nat \ {0}
      /\ first' = 1 \/ (first' <= first + reported)
      /\ over' = "no" /\ doc.next # 0 => first' = doc.next
  <2>1. CASE over' = "redoing" /\ base' = 0 /\ first' = 1
    BY <2>1
  <2>2. CASE over = "no" /\ over' = "no" /\ first' = FirstObject(TRUE)
    <3>1. doc.next # 0 => doc.cursor > 0 /\ doc.next - first <= reported
      BY <2>2 DEF DeliveryInv, Recorded
    <3>2. first' = IF doc.next # 0 /\ doc.cursor > 0 THEN doc.next ELSE 1
      BY <2>2 DEF FirstObject
    <3>3. doc.next # 0 => doc.next <= first + reported
      BY <1>3, <1>4, <3>1
    <3> QED
      BY <1>3, <3>1, <3>2, <3>3
  <2> QED
    BY <1>14, <2>1, <2>2
<1>6. SinkInv'
  <2>1. SupInit'
    BY DEF Retry, Crash, Begin, SupInit
  <2>2. SupInit' => SinkInv'
    BY SinkInvInit, PTL
  <2> QED
    BY <2>1, <2>2
<1>7. Types'
  <2> DEFINE p == MaxFiles * (attempt - 1)
             q == MaxFiles * ((attempt + 1) - 1)
  <2>1. p \in Nat /\ q \in Nat /\ q = p + MaxFiles
    BY <1>3
  <2> HIDE DEF p, q
  <2>2. first' <= q + 1
    <3>1. first - 1 <= p
      BY <1>3 DEF p
    <3>2. CASE first' = 1
      BY <2>1, <3>2
    <3>3. CASE first' <= first + reported
      <4>1. first \in Int /\ first' \in Int /\ MaxFiles \in Int /\ reported \in Int /\ reported <= MaxFiles
        BY <1>3, <1>4, <1>5
      <4>2. first' <= first + MaxFiles
        BY <3>3, <4>1
      <4>3. first + MaxFiles <= p + 1 + MaxFiles
        BY <2>1, <3>1, <4>1
      <4>4. q \in Int /\ p \in Int /\ p + 1 + MaxFiles = q + 1
        BY <2>1, <4>1
      <4> QED
        BY <4>1, <4>2, <4>3, <4>4
    <3> QED
      BY <1>5, <3>2, <3>3
  <2>3. first' - 1 <= q
    BY <1>5, <2>1, <2>2
  <2>4. first' - 1 <= MaxFiles * (attempt' - 1)
    BY <1>1, <2>3 DEF q
  <2>5. target' = [o \in Objects |-> target'[o]]
    BY <1>1 DEF DeliveryInv, Types
  <2>6. attempt' \in 1..MaxAttempts
    BY <1>1, <1>3
  <2>7. base' \in Nat /\ over' \in {"no", "redoing", "mixed"} /\ doc' \in [cursor : Nat, next : Nat]
    <3>1. doc' = doc
      BY <1>1
    <3>2. base' = doc.cursor \/ base' = 0
      BY <1>14
    <3>3. over' = "no" \/ over' = "redoing"
      BY <1>14
    <3> QED
      BY <1>3, <3>1, <3>2, <3>3
  <2> QED
    BY <1>1, <1>5, <2>4, <2>5, <2>6, <2>7 DEF Types
<1>8. LastOf(0)' = 0
  <2>1. 0 * FileBlocks = 0
    BY DeliveryAssumption
  <2>2. LastOf(0)' = Min({0, 0})
    BY <1>1, <2>1 DEF LastOf
  <2>3. Min({0, 0}) = 0
    BY DEF Min
  <2> QED
    BY <2>2, <2>3
<1>9. Announced' /\ Placed'
  BY <1>1, <1>8 DEF Announced, Placed
<1>10. Told'
  <2>1. Prefix(delivered') = 0
    <3>1. {} \in SUBSET (1..0)
      OBVIOUS
    <3>2. Prefix({}) \in 0..0
      BY <3>1, PrefixEmitted
    <3> QED
      BY <1>1, <3>2
  <2>2. Drained' = 0
    BY <1>1 DEF Drained
  <2>3. \A k \in 1..Len(prefixTx') : prefixTx'[k] <= reported'
    BY <1>1
  <2> QED
    BY <1>1, <2>1, <2>2, <2>3 DEF Told
<1>11. Behind'
  <2>1. CASE base' = 0
    BY <2>1 DEF Behind
  <2>2. CASE over = "no" /\ base' = doc.cursor /\ first' = FirstObject(TRUE)
    BY <1>1, <2>2, DocumentHolds DEF Behind
  <2> QED
    BY <1>14, <2>1, <2>2
<1>12. Recorded'
  <2> SUFFICES ASSUME over' = "no" PROVE Recorded'
    BY DEF Recorded
  <2>0. over = "no" /\ base' = doc.cursor
    BY <1>14
  <2>1. doc.next # 0 => doc.cursor > 0
    BY <2>0 DEF DeliveryInv, Recorded
  <2>2. doc.next = 0 => doc.cursor = 0
    BY <1>1, <2>0 DEF DeliveryInv, Recorded
  <2>3. doc.next # 0 => first' <= doc.next /\ doc.next - first' = 0
    BY <1>3, <1>5
  <2> QED
    BY <1>1, <1>3, <1>8, <2>0, <2>1, <2>2, <2>3 DEF Recorded
<1>13. Harmless'
  <2> SUFFICES ASSUME NEW upload \in orphan' PROVE upload[1] \in Nat /\ first' <= upload[1]
    BY <1>1 DEF Harmless
  <2>1. CASE upload \in orphan
    <3>1. read = 0 /\ upload[1] \in Nat /\ first <= upload[1]
      BY <2>1 DEF DeliveryInv, Harmless
    <3>2. reported = 0
      <4>1. reported \in 0..received /\ received \in 0..staged /\ staged \in 0..MaxFiles
        BY DEF DeliveryInv, SinkInv, SupTypeOK
      <4>2. ~(staged > 0)
        BY <3>1 DEF DeliveryInv, Announced
      <4> QED
        BY <1>3, <4>1, <4>2
    <3>3. first \in Nat \ {0} /\ first' \in Nat \ {0} /\ (first' = 1 \/ first' <= first)
      BY <1>3, <1>5, <3>2
    <3> QED
      BY <3>1, <3>3
  <2>2. CASE upload \notin orphan
    <3>1. PICK i \in inSink \ landed : upload = <<Name(i), Content(i)>>
      BY <1>2, <2>2
    <3>2. i \in Nat \ {0} /\ i > reported
      <4>1. inSink \subseteq 1..received /\ delivered \subseteq landed /\ received \in 0..staged /\ staged \in 0..MaxFiles
        BY DEF DeliveryInv, SinkInv, SupTypeOK, Emitted, AcksAreTrue
      <4>2. 1..reported \subseteq delivered
        BY PrefixIsRun DEF DeliveryInv, Told
      <4>3. i \in Nat \ {0}
        BY <1>3, <4>1
      <4> QED
        BY <1>4, <4>1, <4>2, <4>3
    <3>3. upload[1] = first + i - 1
      BY <3>1 DEF Name
    <3>4. first \in Nat \ {0} /\ first' \in Nat \ {0} /\ (first' = 1 \/ first' <= first + reported)
      BY <1>3, <1>5
    <3> QED
      BY <1>4, <3>2, <3>3, <3>4
  <2> QED
    BY <2>1, <2>2
<1> QED
  BY <1>6, <1>7, <1>9, <1>10, <1>11, <1>12, <1>13 DEF DeliveryInv

\* It holds when the first attempt begins.
LEMMA DeliveryInvInit == Init => DeliveryInv
<1> SUFFICES ASSUME Init PROVE DeliveryInv
  OBVIOUS
<1>1. SinkInv
  BY SinkInvInit DEF Init
<1>2. /\ staged = 0 /\ reported = 0 /\ delivered = {} /\ prefixTx = <<>> /\ landed = {}
      /\ attempt = 1 /\ base = 0 /\ first = 1 /\ read = 0 /\ committed = 0 /\ checkpoints = {} /\ seen = 0
      /\ doc = [cursor |-> 0, next |-> 0] /\ over = "no" /\ orphan = {} /\ target = [o \in Objects |-> {}]
  BY DEF Init, SupInit
<1>3. Types
  <2>1. MaxFiles * (1 - 1) = 0 /\ 1 \in 1..MaxAttempts
    BY SinkAssumption, DeliveryAssumption
  <2> QED
    BY <1>2, <2>1 DEF Types
<1>4. LastOf(0) \in Nat
  BY <1>2, LastOfMono
<1>5. Announced /\ Placed /\ Behind /\ Recorded /\ Harmless
  BY <1>2, <1>4 DEF Announced, Placed, Behind, Recorded, Harmless
<1>6. Told
  <2>1. {} \in SUBSET (1..0)
    OBVIOUS
  <2>2. Prefix({}) \in 0..0
    BY <2>1, PrefixEmitted
  <2>3. Drained = 0
    BY <1>2 DEF Drained
  <2> QED
    BY <1>2, <2>2, <2>3 DEF Told
<1> QED
  BY <1>1, <1>3, <1>5, <1>6 DEF DeliveryInv

\* What the rest of the sink stage and the run does is framed.
LEMMA SinkStageOK ==
  ASSUME DeliveryInv, SinkStage
  PROVE  DeliveryInv'
<1>1. CASE \E i \in Files : ObjectDelivered(i)
  BY <1>1, AcknowledgedOK
<1>2. CASE ~\E i \in Files : ObjectDelivered(i)
  <2>1. /\ UNCHANGED <<attempt, base, first, read, committed, checkpoints, seen, doc, over, target, orphan,
                       srcOpen, outcome, tracking>>
        /\ UNCHANGED <<reported, prefixTx, delivered, landed, staged>>
        /\ sup \in {"spawning", "driving"}
    BY <1>2 DEF SinkStage, attemptVars, docVars, planeVars, stateVars, worldVars, SupervisorStep, Spawn, ReceiveObject,
       InputEnds, Finished, PingTick, Halt, GraceEnds, SinkFinish, SinkFails, SinkHangs, ResendRequested, Pong,
       Ack, Alive, Driving, CoreUnchanged, inputVars, ledgerVars, driveVars, sinkVars
  <2>2. SinkInv' /\ ~Succeeded
    BY <2>1, SinkKeeps DEF Succeeded
  <2> QED
    BY <2>1, <2>2, FrameKeeps
<1> QED
  BY <1>1, <1>2

\* Around the data: a channel closes, the data phase ends, a signal, a source that grows.
LEMMA FramedOK ==
  ASSUME DeliveryInv,
         SourceEnds \/ DataPhaseEnds \/ DataPhaseFails \/ PluginsGone \/ DstDies \/ Signal \/ Grow
         \/ Stop \/ UNCHANGED vars
  PROVE  DeliveryInv'
<1>1. /\ UNCHANGED <<attempt, base, first, read, committed, checkpoints, seen, doc, over, target, orphan, tracking, sup>>
      /\ UNCHANGED <<reported, prefixTx, delivered, landed, staged>>
      /\ srcOpen' => srcOpen
      /\ outcome = "ok" => outcome' = "ok"
  BY DEF SourceEnds, DataPhaseEnds, DataPhaseFails, PluginsGone, DstDies, Signal, Grow, Stop, EventsEnd, Abort,
     vars, attemptVars, docVars, planeVars, stateVars, worldVars, supVars, inputVars, ledgerVars, driveVars, sinkVars
<1>2. Succeeded => Succeeded'
  BY <1>1 DEF Succeeded
<1>3. SinkInv'
  BY SinkKeeps DEF SourceEnds, DataPhaseEnds, Signal, Grow, Stop, vars
<1> QED
  BY <1>1, <1>2, <1>3, FrameKeeps

\* Whatever happens keeps the invariant and every file the record counts.
LEMMA DeliveryStep ==
  ASSUME Orderly, DeliveryInv, [Next]_vars, over' # "mixed"
  PROVE  DeliveryInv' /\ (over = "no" => \A o \in Objects : o < doc.next => target'[o] = target[o])
<1>1. CASE \E i \in Files : Upload(i)
  BY <1>1, UploadOK
<1>2. CASE OrphanUploads
  BY <1>2, OrphanOK
<1>3. CASE ~(\E i \in Files : Upload(i)) /\ ~OrphanUploads
  <2>1. target' = target
    BY <1>3 DEF Next, CoreStep, ReadBatch, SourceEnds, StageFile, Commit, Finalize, DataPhaseEnds, DataPhaseFails,
       PluginsGone, PrefixArrives, FinalFlush, CheckpointArrives, SinkStage, DstDies, Signal, Grow, Retry, Crash,
       Begin, Stop, vars, worldVars
  <2>2. DeliveryInv'
    BY <1>3, ReadBatchOK, StageFileOK, CommitOK, ArrivalOK, FinalFlushOK, BeginOK, SinkStageOK, FramedOK
       DEF Next, CoreStep
  <2> QED
    BY <2>1, <2>2
<1> QED
  BY <1>1, <1>2, <1>3

\* A record of a mix stays one.
LEMMA MixedStays ==
  ASSUME over = "mixed", [Next]_vars
  PROVE  over' = "mixed"
<1>1. CASE Retry \/ Crash
  BY <1>1 DEF Retry, Crash, Begin, Redone
<1>2. CASE FinalFlush \/ PrefixArrives \/ (\E c \in 1..Blocks : CheckpointArrives(c))
  BY <1>2 DEF FinalFlush, PrefixArrives, CheckpointArrives, PersistDue, Rewrites, docVars
<1>3. CASE ~(Retry \/ Crash \/ FinalFlush \/ PrefixArrives \/ (\E c \in 1..Blocks : CheckpointArrives(c)))
  BY <1>3 DEF Next, CoreStep, ReadBatch, SourceEnds, StageFile, Commit, Finalize, DataPhaseEnds, DataPhaseFails,
     PluginsGone, Upload, SinkStage, DstDies, Signal, Grow, OrphanUploads, Stop, vars, docVars
<1> QED
  BY <1>1, <1>2, <1>3

\* A record that counts what is there is not a mix a step later.
LEMMA NoMixAtOnce ==
  ASSUME over = "no", [Next]_vars
  PROVE  over' # "mixed"
<1>1. CASE Retry \/ Crash
  BY <1>1 DEF Retry, Crash, Begin, Resumes, Redone
<1>2. CASE FinalFlush \/ PrefixArrives \/ (\E c \in 1..Blocks : CheckpointArrives(c))
  BY <1>2 DEF FinalFlush, PrefixArrives, CheckpointArrives, PersistDue, Rewrites, docVars
<1>3. CASE ~(Retry \/ Crash \/ FinalFlush \/ PrefixArrives \/ (\E c \in 1..Blocks : CheckpointArrives(c)))
  BY <1>3 DEF Next, CoreStep, ReadBatch, SourceEnds, StageFile, Commit, Finalize, DataPhaseEnds, DataPhaseFails,
     PluginsGone, Upload, SinkStage, DstDies, Signal, Grow, OrphanUploads, Stop, vars, docVars
<1> QED
  BY <1>1, <1>2, <1>3

----------------------------------------------------------------------------
(* The theorems *)

\* The invariant, for any numbers of blocks, files, restarts and attempts.
THEOREM DeliverySafe ==
  ASSUME Orderly
  PROVE  Spec => []DeliveryOrMixed
<1>1. DeliveryOrMixed /\ [Next]_vars => DeliveryOrMixed'
  BY Orderly, DeliveryStep, MixedStays DEF DeliveryOrMixed
<1>2. Init => DeliveryOrMixed
  BY DeliveryInvInit DEF DeliveryOrMixed
<1> QED
  BY <1>1, <1>2, PTL DEF Spec

\* Nothing at or below the persisted watermark is ever missing at the target,
\* but while a source that started over replaces what the document counts.
THEOREM DeliveryNoGap ==
  ASSUME Orderly
  PROVE  Spec => []NoGap
<1>1. DeliveryOrMixed => NoGap
  BY DocumentHolds DEF DeliveryOrMixed, NoGap
<1> QED
  BY <1>1, Orderly, DeliverySafe, PTL

\* A file the resume record counts as delivered is never replaced, but by an
\* attempt whose source started over.
THEOREM DeliveryRecordedFilesKept ==
  ASSUME Orderly
  PROVE  Spec => RecordedFilesKept
<1>1. DeliveryOrMixed /\ [Next]_vars =>
        [over = "no" => \A o \in Objects : o < doc.next => target'[o] = target[o]]_vars
  <2> SUFFICES ASSUME DeliveryInv, over = "no", [Next]_vars
               PROVE  \A o \in Objects : o < doc.next => target'[o] = target[o]
    BY DEF DeliveryOrMixed
  <2>1. over' # "mixed"
    BY NoMixAtOnce
  <2> QED
    BY <2>1, Orderly, DeliveryStep
<1> QED
  BY <1>1, Orderly, DeliverySafe, PTL DEF Spec, RecordedFilesKept

----------------------------------------------------------------------------
(* A run that ends well *)

\* A destination that finished had staged all that was read, and nothing more is.
Ended == (outcome = "ok" => finalized) /\ (finalized => LastOf(staged) = read)

\* The data phase ends well behind that.
LEMMA EndedStep == Ended /\ [Next]_vars => Ended'
<1> SUFFICES ASSUME Ended, [Next]_vars PROVE Ended'
  OBVIOUS
<1>1. CASE ReadBatch \/ StageFile
  <2>1. outcome = "running" /\ ~finalized /\ UNCHANGED <<outcome, finalized>>
    BY <1>1 DEF ReadBatch, StageFile, Running, planeVars
  <2> QED
    BY <2>1 DEF Ended
<1>2. CASE Finalize
  BY <1>2 DEF Finalize, EventsEnd, Running, Ended, LastOf
<1>3. CASE DataPhaseEnds \/ DataPhaseFails
  BY <1>3 DEF DataPhaseEnds, DataPhaseFails, Abort, Ended, LastOf, supVars, inputVars
<1>4. CASE Retry \/ Crash
  <2>1. outcome' = "running" /\ finalized' = FALSE
    BY <1>4 DEF Retry, Crash, Begin
  <2> QED
    BY <2>1 DEF Ended
<1>5. CASE SinkStage
  <2>1. UNCHANGED <<outcome, finalized, read, staged>>
    BY <1>5 DEF SinkStage, planeVars, SupervisorStep, Spawn, ReceiveObject, InputEnds, ObjectDelivered,
       Finished, PingTick, Halt, GraceEnds, SinkFinish, SinkFails, SinkHangs, ResendRequested, Pong, Ack,
       CoreUnchanged, inputVars
  <2> QED
    BY <2>1 DEF Ended, LastOf
<1>6. CASE ~(ReadBatch \/ StageFile \/ Finalize \/ DataPhaseEnds \/ DataPhaseFails \/ Retry \/ Crash \/ SinkStage)
  <2>1. UNCHANGED <<outcome, finalized, read, staged>>
    BY <1>6 DEF Next, CoreStep, SourceEnds, Commit, PluginsGone, PrefixArrives, FinalFlush, CheckpointArrives,
       Upload, Land, CoreUnchanged, DstDies, EventsEnd, Signal, Grow, OrphanUploads, Stop, vars, planeVars,
       supVars, inputVars
  <2> QED
    BY <2>1 DEF Ended, LastOf
<1> QED
  BY <1>1, <1>2, <1>3, <1>4, <1>5, <1>6

\* A run that ends well left everything its source held at the target, with
\* what the attempts before it delivered.
THEOREM DeliverySuccessDeliversAll ==
  ASSUME Orderly
  PROVE  Spec => []SuccessDeliversAll
<1>1. Init => Ended
  BY DEF Init, Ended
<1>2. DeliveryOrMixed /\ Ended => SuccessDeliversAll
  <2> SUFFICES ASSUME DeliveryInv, Ended, Succeeded PROVE 1 .. base + read \subseteq AtTarget
    BY DEF SuccessDeliversAll, DeliveryOrMixed
  <2>1. staged \in 0..MaxFiles /\ MaxFiles \in Nat /\ first \in Nat \ {0}
    BY SinkAssumption DEF DeliveryInv, Types, SinkInv, SupTypeOK
  <2>2. delivered = 1..staged /\ LastOf(staged) = read
    BY Orderly DEF Orderly, Succeeded, Ended, DeliveryInv, SinkInv, EndsInOrder
  <2>3. reported = staged
    BY <2>1, <2>2, Orderly, PrefixOfAll DEF Orderly, DeliveryInv, Told
  <2>4. 1 .. base + read \subseteq UNION {target[o] : o \in 1 .. first - 1 + staged}
    BY <2>1, <2>2, <2>3, Reaches
  <2>5. 1 .. first - 1 + staged \subseteq Objects
    <3>1. 1 .. first - 1 + MaxFiles \subseteq Objects
      BY ObjectsHold DEF DeliveryInv
    <3> QED
      BY <2>1, <3>1
  <2> QED
    BY <2>4, <2>5 DEF AtTarget
<1> QED
  BY <1>1, <1>2, EndedStep, Orderly, DeliverySafe, PTL DEF Spec

----------------------------------------------------------------------------
(* The watermark *)

\* While the state is tracked the document is at the last persist, which was a
\* checkpoint; the last flush comes behind the sink stage and the data phase.
Tracked ==
  /\ persistedAt \in checkpoints \cup {0}
  /\ over = "no" /\ tracking = "on" => doc.cursor = base + persistedAt
  /\ tracking = "done" => sup \in Over /\ outcome # "running"
  /\ outcome = "ok" => finalized
  /\ finalized => committed = read

\* Of the checkpoints up to the frontier the last is safe.
LEMMA SafeIsLast ==
  ASSUME NEW N \in Nat, NEW cs \in SUBSET (1..N), NEW frontier \in Nat
  PROVE  /\ Safe(cs, frontier) \in cs \cup {0}
         /\ \A c \in cs \cup {0} : c <= frontier => c <= Safe(cs, frontier)
<1> DEFINE S == {0} \cup {c \in cs : c <= frontier}
<1>1. S \in SUBSET (0..N) /\ 0 \in S
  <2>1. \A c \in S : c \in 0..N
    OBVIOUS
  <2> QED
    BY <2>1
<1>2. Max(S) \in S /\ \A c \in S : c <= Max(S)
  <2> HIDE DEF S
  <2> QED
    BY <1>1, MaxIsLargest
<1>3. Safe(cs, frontier) = Max(S)
  BY DEF Safe
<1> QED
  BY <1>2, <1>3

\* A throttled persist is at a later checkpoint than the one before.
LEMMA PersistTracked ==
  ASSUME Types, Tracked, NEW cs \in SUBSET (1..read), checkpoints \subseteq cs, NEW objects \in Nat,
         PersistDue(cs, objects), tracking = "on"
  PROVE  /\ persistedAt' \in cs \cup {0} /\ (over = "no" => doc'.cursor >= doc.cursor)
         /\ over' = "no" /\ tracking' = "on" => doc'.cursor = base + persistedAt'
         /\ tracking' \in {"on", "failed"}
<1> DEFINE batch == Safe(cs, LastOf(objects))
<1>1. base \in Nat /\ read \in Nat /\ checkpoints \subseteq 1..read /\ doc \in [cursor : Nat, next : Nat]
  BY DEF Types
<1>2. persistedAt \in Nat /\ persistedAt \in cs \cup {0} /\ (over = "no" => doc.cursor = base + persistedAt)
      /\ Interval \in Nat /\ doc.cursor \in Nat
  BY <1>1, DeliveryAssumption DEF Tracked
<1>3. LastOf(objects) \in Nat
  BY <1>1, LastOfMono
<1>4. batch \in cs \cup {0} /\ batch \in Nat
  <2>1. batch \in cs \cup {0}
    BY <1>1, <1>3, SafeIsLast
  <2> HIDE DEF batch
  <2> QED
    BY <1>1, <2>1
<1>5. \/ UNCHANGED <<docVars, persistedAt>> /\ tracking' \in {"on", "failed"}
      \/ /\ batch >= persistedAt + Interval /\ doc' = Record(batch, objects) /\ persistedAt' = batch
         /\ tracking' = "on"
  BY DEF PersistDue
<1> HIDE DEF batch
<1>6. CASE UNCHANGED <<docVars, persistedAt>> /\ tracking' \in {"on", "failed"}
  BY <1>2, <1>6 DEF docVars
<1>7. CASE batch >= persistedAt + Interval /\ doc' = Record(batch, objects) /\ persistedAt' = batch /\ tracking' = "on"
  <2>1. doc'.cursor = base + batch
    BY <1>7 DEF Record
  <2> QED
    BY <1>1, <1>2, <1>4, <1>7, <2>1
<1> QED
  BY <1>5, <1>6, <1>7

\* The last flush does not go back either, and accounts for what was delivered.
LEMMA FlushTracked ==
  ASSUME DeliveryInv, Tracked, FinalFlush
  PROVE  Tracked' /\ (over = "no" => doc'.cursor >= doc.cursor) /\ StoppedSinkCounts'
<1>1. /\ UNCHANGED <<base, read, committed, checkpoints, delivered, sup, outcome, persistedAt, finalized>>
      /\ tracking = "on" /\ tracking' \in {"done", "failed"} /\ sup \in Over /\ outcome # "running"
  BY DEF FinalFlush, attemptVars, docVars, planeVars, supVars, ledgerVars, driveVars
<1>2. /\ base \in Nat /\ read \in Nat /\ committed \in Nat /\ checkpoints \in SUBSET (1..read)
      /\ doc \in [cursor : Nat, next : Nat] /\ doc.cursor \in Nat
  BY DEF DeliveryInv, Types
<1>3. /\ persistedAt \in Nat /\ persistedAt <= read /\ persistedAt \in checkpoints \cup {0}
      /\ over = "no" => doc.cursor = base + persistedAt
  BY <1>1, <1>2 DEF Tracked
<1>4. Drained = Prefix(delivered) /\ Drained \in Nat /\ LastOf(Drained) \in Nat
  <2>1. Drained = Prefix(delivered) /\ Prefix(delivered) \in 0..MaxFiles
    BY PrefixIsRun DEF DeliveryInv, Told
  <2>2. Drained \in Nat
    BY <2>1, SinkAssumption
  <2> QED
    BY <1>2, <2>1, <2>2, LastOfMono
<1> DEFINE frontier == IF sup = "done" THEN committed ELSE LastOf(Drained)
           batch == Safe(checkpoints, frontier)
           succeeded == sup = "done" /\ outcome = "ok"
<1>5. frontier \in Nat
  BY <1>2, <1>4
<1>6. /\ batch \in Nat
      /\ \A c \in checkpoints \cup {0} : c <= frontier => c <= batch
  <2> HIDE DEF frontier
  <2>1. batch \in checkpoints \cup {0}
    BY <1>2, <1>5, SafeIsLast
  <2>2. \A c \in checkpoints \cup {0} : c <= frontier => c <= batch
    BY <1>2, <1>5, SafeIsLast
  <2> HIDE DEF batch
  <2> QED
    BY <1>2, <2>1, <2>2
<1>7. succeeded => persistedAt <= batch
  <2>1. succeeded => frontier = read
    BY DEF Tracked
  <2> HIDE DEF batch, frontier, succeeded
  <2> QED
    BY <1>3, <1>6, <2>1
<1>8. \/ doc' = doc /\ over' = over /\ (tracking' = "done" => ~Advances(batch))
      \/ batch > 0 /\ doc'.cursor = base + batch /\ (succeeded \/ Advances(batch))
      \/ batch = 0 /\ doc'.cursor = doc.cursor /\ over' = over
  <2> DEFINE document == IF succeeded THEN [cursor |-> base + batch, next |-> 0] ELSE Record(batch, Drained)
             clears == succeeded /\ doc.next # 0
             writes == Advances(batch) \/ clears
  <2>1. \/ writes /\ batch > 0 /\ doc' = document
        \/ writes /\ batch = 0 /\ doc' = [doc EXCEPT !.next = 0] /\ over' = over
        \/ ~writes /\ doc' = doc /\ over' = over
        \/ tracking' = "failed" /\ doc' = doc /\ over' = over
    BY DEF FinalFlush, docVars
  <2>2. document.cursor = base + batch
    BY DEF Record
  <2>3. [doc EXCEPT !.next = 0].cursor = doc.cursor
    BY <1>2
  <2> HIDE DEF batch, frontier, document
  <2>4. CASE writes /\ batch > 0 /\ doc' = document
    <3>1. succeeded \/ Advances(batch)
      BY <2>4
    <3> QED
      BY <2>2, <2>4, <3>1
  <2>5. CASE writes /\ batch = 0 /\ doc' = [doc EXCEPT !.next = 0] /\ over' = over
    BY <2>3, <2>5
  <2>6. CASE ~writes /\ doc' = doc /\ over' = over
    BY <2>6
  <2>7. CASE tracking' = "failed" /\ doc' = doc /\ over' = over
    BY <2>7
  <2> QED
    BY <2>1, <2>4, <2>5, <2>6, <2>7
<1>9. Advances(batch) <=> batch > 0 /\ batch > persistedAt
  BY DEF Advances
<1>10. /\ over = "no" => doc'.cursor >= doc.cursor
       /\ over' = "no" /\ tracking' = "done" => doc'.cursor >= base + batch
  <2> HIDE DEF batch, succeeded
  <2>1. CASE doc' = doc /\ over' = over /\ (tracking' = "done" => ~Advances(batch))
    BY <1>2, <1>3, <1>6, <1>9, <2>1
  <2>2. CASE batch > 0 /\ doc'.cursor = base + batch /\ (succeeded \/ Advances(batch))
    BY <1>2, <1>3, <1>6, <1>7, <1>9, <2>2
  <2>3. CASE batch = 0 /\ doc'.cursor = doc.cursor /\ over' = over
    BY <1>2, <1>3, <2>3
  <2> QED
    BY <1>8, <2>1, <2>2, <2>3
<1>11. Tracked'
  BY <1>1 DEF Tracked
<1>12. StoppedSinkCounts'
  <2> SUFFICES ASSUME over' = "no", tracking' = "done", sup \in {"halted", "failed"}
               PROVE  doc'.cursor >= base + Safe(checkpoints, LastOf(Prefix(delivered)))
    BY <1>1 DEF StoppedSinkCounts, LastOf
  <2>1. batch = Safe(checkpoints, LastOf(Prefix(delivered)))
    BY <1>4
  <2> HIDE DEF batch
  <2> QED
    BY <1>10, <2>1
<1> QED
  BY <1>10, <1>11, <1>12

\* No other step moves the watermark.
LEMMA TrackedStep ==
  ASSUME DeliveryInv, DeliveryInv', Tracked, StoppedSinkCounts, [Next]_vars
  PROVE  Tracked' /\ (over = "no" => doc'.cursor >= doc.cursor) /\ StoppedSinkCounts'
<1>1. doc.cursor \in Nat
  BY DEF DeliveryInv, Types
<1>2. CASE FinalFlush
  BY <1>2, FlushTracked
<1>3. CASE PrefixArrives \/ (\E c \in 1..Blocks : CheckpointArrives(c))
  <2>1. /\ UNCHANGED <<base, read, committed, finalized, outcome, sup>>
        /\ PersistDue(checkpoints', seen') /\ checkpoints \subseteq checkpoints' /\ tracking = "on"
    BY <1>3 DEF PrefixArrives, CheckpointArrives, Looping, attemptVars, docVars, planeVars, supVars, driveVars
  <2>2. checkpoints' \in SUBSET (1..read) /\ seen' \in Nat
    BY <2>1 DEF DeliveryInv, Types
  <2>3. /\ persistedAt' \in checkpoints' \cup {0} /\ (over = "no" => doc'.cursor >= doc.cursor)
        /\ over' = "no" /\ tracking' = "on" => doc'.cursor = base + persistedAt'
        /\ tracking' \in {"on", "failed"}
    BY <2>1, <2>2, PersistTracked DEF DeliveryInv
  <2> QED
    BY <2>1, <2>3 DEF Tracked, StoppedSinkCounts
<1>4. CASE Retry \/ Crash
  <2>1. /\ persistedAt' = 0 /\ tracking' = "on" /\ doc' = doc
        /\ outcome' = "running" /\ finalized' = FALSE
        /\ over' = "no" => base' = doc.cursor
    BY <1>4 DEF Retry, Crash, Begin, FreshState, Resumes, Redone, DeliveryInv, Types
  <2> QED
    BY <1>1, <2>1 DEF Tracked, StoppedSinkCounts
<1>5. CASE ReadBatch \/ Commit \/ Finalize \/ DataPhaseEnds \/ DataPhaseFails
  <2>1. /\ UNCHANGED <<base, doc, over, checkpoints, persistedAt, tracking, sup>> /\ outcome = "running" /\ tracking # "done"
    BY <1>5 DEF ReadBatch, Commit, Finalize, EventsEnd, DataPhaseEnds, DataPhaseFails, Abort, Running, Tracked,
       attemptVars, docVars, stateVars, supVars, driveVars
  <2>2. (outcome' = "ok" => finalized') /\ (finalized' => committed' = read')
    BY <1>5 DEF ReadBatch, Commit, Finalize, DataPhaseEnds, DataPhaseFails, Running, Tracked
  <2> QED
    BY <1>1, <2>1, <2>2 DEF Tracked, StoppedSinkCounts
<1>6. CASE SinkStage
  <2>1. UNCHANGED <<base, read, committed, finalized, outcome, doc, over, checkpoints, persistedAt, tracking>>
    BY <1>6 DEF SinkStage, attemptVars, docVars, planeVars, stateVars
  <2>2. tracking # "done"
    BY <1>6 DEF SinkStage, SupervisorStep, Spawn, ReceiveObject, InputEnds, ObjectDelivered, Finished, PingTick,
       Halt, GraceEnds, SinkFinish, SinkFails, SinkHangs, ResendRequested, Pong, Ack, Alive, Driving, Tracked, Over
  <2> QED
    BY <1>1, <2>1, <2>2 DEF Tracked, StoppedSinkCounts
<1>7. CASE ~(\/ FinalFlush \/ PrefixArrives \/ (\E c \in 1..Blocks : CheckpointArrives(c)) \/ Retry \/ Crash
             \/ ReadBatch \/ Commit \/ Finalize \/ DataPhaseEnds \/ DataPhaseFails \/ SinkStage)
  <2>1. /\ UNCHANGED <<base, read, committed, finalized, outcome, doc, over, checkpoints, persistedAt, tracking>>
        /\ UNCHANGED <<sup, delivered>>
    BY <1>7 DEF Next, CoreStep, SourceEnds, StageFile, Announce, PluginsGone, Upload, Land, CoreUnchanged, DstDies,
       EventsEnd, Signal, Grow, OrphanUploads, Stop, vars, attemptVars, docVars, planeVars, stateVars, supVars,
       ledgerVars, driveVars
  <2>2. LastOf(Prefix(delivered))' = LastOf(Prefix(delivered))
    BY <2>1 DEF LastOf
  <2> QED
    BY <1>1, <2>1, <2>2 DEF Tracked, StoppedSinkCounts
<1> QED
  BY <1>2, <1>3, <1>4, <1>5, <1>6, <1>7

\* Unless the record is of a mix.
TrackedOrMixed == over = "mixed" \/ (Tracked /\ StoppedSinkCounts)

\* The watermark is tracked from the first attempt on.
LEMMA TrackedInit == Init => TrackedOrMixed
  BY DEF Init, Tracked, StoppedSinkCounts, TrackedOrMixed

\* It stays so, and goes forward.
LEMMA TrackedAlways ==
  ASSUME DeliveryOrMixed, DeliveryOrMixed', TrackedOrMixed, [Next]_vars
  PROVE  TrackedOrMixed' /\ (over = "no" => doc'.cursor >= doc.cursor)
<1>1. CASE over = "mixed"
  BY <1>1, MixedStays DEF TrackedOrMixed
<1>2. CASE over' = "mixed"
  BY <1>2, NoMixAtOnce DEF TrackedOrMixed
<1>3. CASE over # "mixed" /\ over' # "mixed"
  BY <1>3, TrackedStep DEF TrackedOrMixed, DeliveryOrMixed
<1> QED
  BY <1>1, <1>2, <1>3

\* Over all its attempts the pipeline never moves its watermark back, unless
\* its source starts over.
THEOREM DeliveryCursorForward ==
  ASSUME Orderly
  PROVE  Spec => CursorForward
<1>1. DeliveryOrMixed /\ DeliveryOrMixed' /\ TrackedOrMixed /\ [Next]_vars =>
        TrackedOrMixed' /\ [over = "no" => doc'.cursor >= doc.cursor]_vars
  BY TrackedAlways
<1> QED
  BY <1>1, TrackedInit, Orderly, DeliverySafe, PTL DEF Spec, CursorForward

\* When a run ends, the document accounts for what the sink acknowledged
\* before it was stopped.
THEOREM DeliveryStoppedSinkCounts ==
  ASSUME Orderly
  PROVE  Spec => []StoppedSinkCounts
<1>1. DeliveryOrMixed /\ DeliveryOrMixed' /\ TrackedOrMixed /\ [Next]_vars => TrackedOrMixed'
  BY TrackedAlways
<1>2. TrackedOrMixed => StoppedSinkCounts
  BY DEF TrackedOrMixed, StoppedSinkCounts
<1> QED
  BY <1>1, <1>2, TrackedInit, Orderly, DeliverySafe, PTL DEF Spec

----------------------------------------------------------------------------
(* The types *)

\* The document is a position of the source and a number of files there may be.
DocumentTypes ==
  /\ doc \in [cursor : Nat, next : Nat]
  /\ doc.cursor \in 0..atSource
  /\ doc.next <= MaxFiles * (attempt - 1) + 1 + MaxFiles

\* The prefixes on their way and the one that was heard are of files there
\* are, and no attempt numbers its files beyond its share of the objects.
Numbered ==
  /\ seen <= reported /\ \A k \in 1..Len(prefixTx) : prefixTx[k] <= reported
  /\ first <= MaxFiles * (attempt - 1) + 1
  /\ DocumentTypes

DeliveryTypes == SinkInv /\ TypeOK /\ Numbered

\* The numbers the types are about.
LEMMA TypeNumbers ==
  ASSUME DeliveryTypes
  PROVE  /\ Blocks \in Nat /\ MaxFiles \in Nat /\ MaxAttempts \in Nat /\ attempt \in 1..MaxAttempts
         /\ base \in Nat /\ read \in Nat /\ atSource \in 1..Blocks /\ base + read <= atSource
         /\ first \in Nat \ {0} /\ committed \in 0..read /\ checkpoints \subseteq 1..read
         /\ reported \in 0..MaxFiles /\ reported <= staged /\ staged \in 0..MaxFiles /\ seen \in 0..reported
         /\ Drained \in 0..reported
<1>1. Blocks \in Nat /\ MaxFiles \in Nat /\ MaxAttempts \in Nat
  BY SinkAssumption, DeliveryAssumption
<1>2. /\ attempt \in 1..MaxAttempts /\ base \in 0..Blocks /\ atSource \in 1..Blocks
      /\ read \in 0 .. atSource - base /\ first \in Nat \ {0} /\ committed \in 0..read
      /\ checkpoints \subseteq 1..read /\ seen \in 0..staged /\ seen <= reported
      /\ staged \in 0..MaxFiles /\ received \in 0..staged /\ reported \in 0..received
      /\ prefixTx \in Seq(Files) /\ \A k \in 1..Len(prefixTx) : prefixTx[k] <= reported
  BY DEF DeliveryTypes, TypeOK, SupTypeOK, Numbered
<1>3. base \in Nat /\ read \in Nat /\ base + read <= atSource
  BY <1>1, <1>2
<1>4. reported \in 0..MaxFiles /\ reported <= staged /\ seen \in 0..reported
  BY <1>1, <1>2
<1>5. Drained \in 0..reported
  <2>1. CASE prefixTx = <<>>
    BY <1>4, <2>1 DEF Drained
  <2>2. CASE prefixTx # <<>>
    <3>1. Len(prefixTx) \in 1..Len(prefixTx) /\ prefixTx[Len(prefixTx)] \in Files
      BY <1>2, <2>2
    <3> QED
      BY <1>1, <1>2, <1>4, <2>2, <3>1 DEF Drained, Files
  <2> QED
    BY <2>1, <2>2
<1> QED
  BY <1>1, <1>2, <1>3, <1>4, <1>5

\* A share of the objects is within all of them.
LEMMA ShareHolds ==
  ASSUME DeliveryTypes
  PROVE  /\ MaxFiles * (attempt - 1) \in Nat /\ MaxFiles * MaxAttempts \in Nat
         /\ MaxFiles * (attempt - 1) + MaxFiles <= MaxFiles * MaxAttempts
         /\ MaxFiles * ((attempt + 1) - 1) = MaxFiles * (attempt - 1) + MaxFiles
<1>1. MaxFiles \in Nat /\ attempt \in Nat /\ attempt - 1 \in Nat /\ MaxAttempts \in Nat /\ attempt <= MaxAttempts
  BY TypeNumbers
<1>2. attempt * MaxFiles <= MaxAttempts * MaxFiles
  BY <1>1, TimesMono
<1>3. /\ MaxFiles * (attempt - 1) + MaxFiles = attempt * MaxFiles
      /\ MaxAttempts * MaxFiles = MaxFiles * MaxAttempts
      /\ MaxFiles * ((attempt + 1) - 1) = attempt * MaxFiles
  BY <1>1
<1>4. MaxFiles * (attempt - 1) \in Nat /\ MaxFiles * MaxAttempts \in Nat
  BY <1>1
<1> QED
  BY <1>2, <1>3, <1>4

\* What a file holds is of the source, whatever its number.
LEMMA ContentTypes ==
  ASSUME DeliveryTypes, NEW i \in Nat \ {0}
  PROVE  Content(i) \in SUBSET (1..Blocks)
<1>1. base \in Nat /\ read \in Nat /\ base + read <= Blocks /\ Blocks \in Nat
  BY TypeNumbers
<1>2. LastOf(i - 1) \in Nat /\ LastOf(i) \in Nat /\ LastOf(i) <= read
  BY <1>1, LastOfMono
<1> QED
  BY <1>1, <1>2 DEF Content

\* Every file of an attempt has a name at the target.
LEMMA NameTypes ==
  ASSUME DeliveryTypes, NEW i \in Files
  PROVE  Name(i) \in Objects
<1> DEFINE p == MaxFiles * (attempt - 1)
           r == MaxFiles * MaxAttempts
<1>1. p \in Nat /\ r \in Nat /\ p + MaxFiles <= r /\ first \in Nat \ {0} /\ first <= p + 1 /\ MaxFiles \in Nat
  BY ShareHolds, TypeNumbers DEF DeliveryTypes, Numbered
<1>2. Objects = 1..r
  BY DEF Objects
<1> HIDE DEF p, r
<1> QED
  BY <1>1, <1>2 DEF Name, Files

\* A record of a batch that was read and of files there are has its type.
LEMMA RecordTypes ==
  ASSUME DeliveryTypes, NEW batch \in Nat, batch <= read, NEW n \in 0..reported
  PROVE  /\ Record(batch, n) \in [cursor : Nat, next : Nat]
         /\ Record(batch, n).cursor \in 0..atSource
         /\ Record(batch, n).next <= MaxFiles * (attempt - 1) + 1 + MaxFiles
<1> DEFINE p == MaxFiles * (attempt - 1)
<1>1. /\ p \in Nat /\ first \in Nat /\ first <= p + 1 /\ MaxFiles \in Nat /\ reported \in 0..MaxFiles
      /\ base \in Nat /\ read \in Nat /\ base + read <= atSource /\ atSource \in Nat
  BY ShareHolds, TypeNumbers DEF DeliveryTypes, Numbered
<1>2. Record(batch, n) = [cursor |-> base + batch, next |-> first + n]
  BY DEF Record
<1> HIDE DEF p
<1>3. base + batch \in 0..atSource /\ first + n \in Nat /\ first + n <= p + 1 + MaxFiles
  BY <1>1
<1> QED
  BY <1>2, <1>3 DEF p

\* A checkpoint behind the frontier was read.
LEMMA SafeWasRead ==
  ASSUME DeliveryTypes, NEW cs \in SUBSET (1..read), NEW frontier \in Nat, frontier <= read
  PROVE  Safe(cs, frontier) \in Nat /\ Safe(cs, frontier) <= read
<1>1. read \in Nat
  BY TypeNumbers
<1>2. Safe(cs, frontier) \in Nat /\ Safe(cs, frontier) <= frontier
  BY <1>1, SafeIsBehind
<1> QED
  BY <1>1, <1>2

\* The document's types are those of the state document in every attempt.
LEMMA DocumentFits ==
  ASSUME DeliveryTypes, DocumentTypes', attempt' = attempt, atSource' \in 1..Blocks
  PROVE  doc'.cursor \in 0..Blocks /\ doc'.next \in 0 .. MaxFiles * MaxAttempts + 1
<1> DEFINE p == MaxFiles * (attempt - 1)
           r == MaxFiles * MaxAttempts
<1>1. /\ p \in Nat /\ r \in Nat /\ p + MaxFiles <= r /\ MaxFiles \in Nat
      /\ doc'.next \in Nat /\ doc'.next <= p + 1 + MaxFiles /\ doc'.cursor \in 0..atSource'
      /\ atSource' \in 1..Blocks /\ Blocks \in Nat
  BY ShareHolds, TypeNumbers DEF DocumentTypes
<1> HIDE DEF p, r
<1> QED
  BY <1>1 DEF r

\* The sink stage's steps, and those of the destination at its input.
LEMMA StageTypes ==
  ASSUME DeliveryTypes, SinkStage \/ StageFile \/ DstDies
  PROVE  DeliveryTypes'
<1>1. SinkInv'
  BY SinkKeepsAlone DEF DeliveryTypes
<1>2. UNCHANGED <<attemptVars, docVars, planeVars, stateVars, worldVars>>
  BY DEF SinkStage, StageFile, DstDies
<1>3. /\ reported' >= reported /\ \A k \in 1..Len(prefixTx') : prefixTx'[k] <= reported'
      /\ staged' >= staged
  <2>1. reported \in Nat /\ staged \in Nat /\ prefixTx \in Seq(Files) /\ \A k \in 1..Len(prefixTx) : prefixTx[k] <= reported
    BY TypeNumbers DEF DeliveryTypes, Numbered, SinkInv, SupTypeOK
  <2>2. CASE \E i \in Files : ObjectDelivered(i)
    <3>1. staged' = staged /\ delivered' = delivered' /\
          IF Prefix(delivered') > reported
          THEN reported' = Prefix(delivered') /\ prefixTx' = Append(prefixTx, Prefix(delivered'))
          ELSE UNCHANGED <<reported, prefixTx>>
      BY <2>2 DEF ObjectDelivered, inputVars
    <3>2. Prefix(delivered') \in Nat
      BY PrefixIsRun, SinkAssumption
    <3> HIDE DEF Prefix
    <3>3. CASE Prefix(delivered') > reported
      <4> DEFINE n == Prefix(delivered')
      <4>1. n \in Nat /\ n > reported /\ reported' = n /\ prefixTx' = Append(prefixTx, n)
        BY <3>1, <3>2, <3>3
      <4> HIDE DEF n
      <4>2. \A k \in 1..Len(prefixTx') : prefixTx'[k] <= n
        <5> TAKE k \in 1..Len(prefixTx')
        <5>1. prefixTx \in Seq(Nat)
          BY <2>1, SinkAssumption DEF Files
        <5>2. k \in 1..Len(prefixTx) \/ k = Len(prefixTx) + 1
          BY <4>1, <5>1
        <5>3. CASE k \in 1..Len(prefixTx)
          <6>1. prefixTx'[k] = prefixTx[k] /\ prefixTx[k] <= reported /\ prefixTx[k] \in Nat
            BY <2>1, <4>1, <5>1, <5>3
          <6> QED
            BY <2>1, <4>1, <6>1
        <5>4. CASE k = Len(prefixTx) + 1
          BY <4>1, <5>1, <5>4
        <5> QED
          BY <5>2, <5>3, <5>4
      <4> QED
        BY <2>1, <3>1, <4>1, <4>2
    <3> QED
      BY <2>1, <3>1, <3>3
  <2>3. CASE ~\E i \in Files : ObjectDelivered(i)
    <3>1. UNCHANGED <<reported, prefixTx>> /\ (staged' = staged \/ staged' = staged + 1)
      BY <2>3 DEF SinkStage, StageFile, DstDies, Announce, EventsEnd, SupervisorStep, Spawn, ReceiveObject,
         InputEnds, Finished, PingTick, Halt, GraceEnds, SinkFinish, SinkFails, SinkHangs, ResendRequested, Pong,
         Ack, Alive, Driving, CoreUnchanged, inputVars, ledgerVars, driveVars, sinkVars
    <3> QED
      BY <2>1, <3>1
  <2> QED
    BY <2>2, <2>3
<1>4. reported' \in Nat /\ staged' \in Nat /\ SupTypeOK'
  BY <1>1, SinkAssumption DEF SinkInv, SupTypeOK
<1>5. seen' \in 0..staged' /\ seen' <= reported'
  BY <1>2, <1>3, <1>4, TypeNumbers DEF stateVars
<1> QED
  BY <1>1, <1>2, <1>3, <1>4, <1>5
     DEF DeliveryTypes, TypeOK, Numbered, DocumentTypes, attemptVars, docVars, planeVars, stateVars, worldVars, Objects

\* The data plane: what was read is of the source, what is committed was read.
LEMMA PlaneTypes ==
  ASSUME DeliveryTypes,
         ReadBatch \/ SourceEnds \/ Commit \/ Finalize \/ DataPhaseEnds \/ DataPhaseFails \/ PluginsGone
         \/ Signal \/ Grow \/ Stop \/ UNCHANGED vars
  PROVE  DeliveryTypes'
<1>1. UNCHANGED <<attempt, base, first, checkpoints, seen, persistedAt, tracking, doc, over, target, orphan,
                  staged, reported, prefixTx>>
  BY DEF ReadBatch, SourceEnds, Commit, Finalize, DataPhaseEnds, DataPhaseFails, PluginsGone, Signal, Grow,
     Stop, EventsEnd, Abort, vars, attemptVars, docVars, planeVars, stateVars, worldVars, supVars, inputVars, ledgerVars
<1>2. SinkInv'
  BY SinkKeepsAlone DEF DeliveryTypes, ReadBatch, SourceEnds, Commit, DataPhaseEnds, Signal, Grow, Stop, vars
<1>3. /\ srcOpen' \in BOOLEAN /\ finalized' \in BOOLEAN /\ signalled' \in BOOLEAN
      /\ outcome' \in {"running", "ok", "failed"}
  BY DEF DeliveryTypes, TypeOK, ReadBatch, SourceEnds, Commit, Finalize, DataPhaseEnds, DataPhaseFails,
     PluginsGone, Signal, Grow, Stop, vars, attemptVars, docVars, planeVars, stateVars, worldVars
<1>4. \/ read' = read + 1 /\ base + read < atSource /\ UNCHANGED <<committed, atSource>>
      \/ committed' \in {LastOf(staged), read} /\ UNCHANGED <<read, atSource>>
      \/ atSource < Blocks /\ atSource' = atSource + 1 /\ UNCHANGED <<read, committed>>
      \/ UNCHANGED <<read, committed, atSource>>
  BY DEF ReadBatch, SourceEnds, Commit, Finalize, DataPhaseEnds, DataPhaseFails, PluginsGone, Signal, Grow,
     Stop, vars, attemptVars, docVars, planeVars, stateVars, worldVars
<1>5. LastOf(staged) \in 0..read
  BY TypeNumbers, LastOfMono
<1>6. /\ atSource' \in 1..Blocks /\ read' \in 0 .. atSource' - base /\ committed' \in 0..read'
      /\ read' >= read /\ atSource' >= atSource
  BY <1>4, <1>5, TypeNumbers
<1>7. checkpoints \subseteq 1..read' /\ persistedAt \in 0..read'
  BY <1>6, TypeNumbers DEF DeliveryTypes, TypeOK
<1>8. DocumentTypes'
  BY <1>1, <1>6, TypeNumbers DEF DeliveryTypes, Numbered, DocumentTypes
<1> QED
  BY <1>1, <1>2, <1>3, <1>6, <1>7, <1>8 DEF DeliveryTypes, TypeOK, SinkInv, Numbered, Objects

\* Whoever uploads, puts blocks of the source into an object of the target.
LEMMA UploadTypes ==
  ASSUME DeliveryTypes, OrphanUploads \/ \E i \in Files : Upload(i)
  PROVE  DeliveryTypes'
<1>1. /\ UNCHANGED <<attempt, base, first, checkpoints, seen, persistedAt, tracking, doc, over, planeVars, atSource,
                     signalled, staged, reported, prefixTx>>
      /\ orphan' \subseteq orphan
  BY DEF OrphanUploads, Upload, Land, CoreUnchanged, attemptVars, docVars, stateVars, supVars, inputVars, ledgerVars
<1>2. SinkInv'
  <2>1. CASE OrphanUploads
    BY <2>1, SinkKeepsAlone DEF OrphanUploads, DeliveryTypes
  <2>2. CASE \E i \in Files : Upload(i)
    BY <2>2, SinkKeepsAlone DEF DeliveryTypes
  <2> QED
    BY <2>1, <2>2
<1>3. target' \in [Objects -> SUBSET (1..Blocks)]
  <2>1. target \in [Objects -> SUBSET (1..Blocks)] /\ orphan \subseteq Objects \X SUBSET (1..Blocks)
    BY DEF DeliveryTypes, TypeOK
  <2>2. CASE OrphanUploads
    <3>1. PICK upload \in orphan : target' = [target EXCEPT ![upload[1]] = upload[2]]
      BY <2>2 DEF OrphanUploads
    <3>2. upload[2] \in SUBSET (1..Blocks)
      BY <2>1
    <3> QED
      BY <2>1, <3>1, <3>2
  <2>3. CASE \E i \in Files : Upload(i)
    <3>1. PICK i \in Files : target' = [target EXCEPT ![Name(i)] = Content(i)]
      BY <2>3 DEF Upload
    <3>2. Content(i) \in SUBSET (1..Blocks)
      BY ContentTypes, SinkAssumption DEF Files
    <3> QED
      BY <2>1, <3>1, <3>2
  <2> QED
    BY <2>2, <2>3
<1> QED
  BY <1>1, <1>2, <1>3 DEF DeliveryTypes, TypeOK, SinkInv, Numbered, DocumentTypes, planeVars, Objects

\* What a turn of the state supervisor's loop writes is a record of its files.
LEMMA ArrivalTypes ==
  ASSUME DeliveryTypes, PrefixArrives \/ \E c \in 1..Blocks : CheckpointArrives(c)
  PROVE  DeliveryTypes'
<1>1. /\ UNCHANGED <<attempt, base, first, planeVars, worldVars, staged, delivered, landed,
                     reported, eventsOpen, halt, received, inputClosed, sup, restarts, halting, pinged,
                     inSink, acks, farewell, hung>>
      /\ tracking = "on"
  BY DEF PrefixArrives, CheckpointArrives, Looping, attemptVars, docVars, supVars, inputVars,
     ledgerVars, driveVars, sinkVars
<1>2. /\ prefixTx \in Seq(Files) /\ \A k \in 1..Len(prefixTx) : prefixTx[k] <= reported
      /\ persistedAt \in 0..read
  BY DEF DeliveryTypes, TypeOK, Numbered, SinkInv, SupTypeOK
<1>3. /\ checkpoints' \subseteq 1..read /\ seen' \in 0..reported /\ prefixTx' \in Seq(Files)
      /\ PersistDue(checkpoints', seen') /\ \A k \in 1..Len(prefixTx') : prefixTx'[k] <= reported
  <2>1. CASE PrefixArrives
    <3>1. prefixTx # <<>> /\ seen' = Head(prefixTx) /\ prefixTx' = Tail(prefixTx) /\ checkpoints' = checkpoints
          /\ PersistDue(checkpoints, seen')
      BY <2>1 DEF PrefixArrives
    <3>2. Len(prefixTx) \in Nat \ {0} /\ seen' = prefixTx[1] /\ seen' \in Files
      BY <1>2, <3>1
    <3>3. seen' \in 0..reported
      <4>1. prefixTx[1] <= reported /\ prefixTx[1] \in Nat
        BY <1>2, <3>2, SinkAssumption DEF Files
      <4> QED
        BY <3>2, <4>1, TypeNumbers
    <3>4. /\ prefixTx' \in Seq(Files) /\ Len(prefixTx') = Len(prefixTx) - 1
          /\ \A k \in 1 .. Len(prefixTx) - 1 : prefixTx'[k] = prefixTx[k + 1]
      BY <1>2, <3>1
    <3>5. \A k \in 1..Len(prefixTx') : prefixTx'[k] <= reported
      BY <1>2, <3>2, <3>4
    <3> QED
      BY <3>1, <3>3, <3>4, <3>5, TypeNumbers
  <2>2. CASE \E c \in 1..Blocks : CheckpointArrives(c)
    <3>1. checkpoints' \subseteq 1..read /\ PersistDue(checkpoints', seen) /\ UNCHANGED <<seen, prefixTx>>
      BY <2>2, TypeNumbers DEF CheckpointArrives, supVars, ledgerVars
    <3> QED
      BY <1>2, <3>1, TypeNumbers
  <2> QED
    BY <2>1, <2>2
<1>4. SinkInv'
  BY <1>1, <1>3 DEF DeliveryTypes, SinkInv, SupTypeOK, AcksAreTrue, HandedOver, EndsInOrder, InputOpen, Driving,
     Pending, Emitted
<1>5. persistedAt' \in 0..read /\ tracking' \in {"on", "done", "failed"} /\ DocumentTypes'
  <2> DEFINE batch == Safe(checkpoints', LastOf(seen'))
  <2>1. seen' \in Nat /\ read \in Nat
    BY <1>3, TypeNumbers
  <2>2. LastOf(seen') \in Nat /\ LastOf(seen') <= read
    BY <2>1, LastOfMono
  <2>3. batch \in Nat /\ batch <= read
    BY <1>3, <2>2, SafeWasRead
  <2>4. \/ doc' = Record(batch, seen') /\ persistedAt' = batch /\ tracking' = tracking
        \/ tracking' = "failed" /\ UNCHANGED <<doc, persistedAt>>
        \/ UNCHANGED <<doc, persistedAt, tracking>>
    BY <1>3 DEF PersistDue, docVars
  <2> HIDE DEF batch
  <2>5. CASE doc' = Record(batch, seen') /\ persistedAt' = batch /\ tracking' = tracking
    BY <1>1, <1>3, <2>1, <2>3, <2>5, RecordTypes DEF DocumentTypes, worldVars
  <2>6. CASE UNCHANGED <<doc, persistedAt>> /\ tracking' \in {tracking, "failed"}
    BY <1>1, <1>2, <2>6 DEF DeliveryTypes, Numbered, DocumentTypes, worldVars
  <2> QED
    BY <2>4, <2>5, <2>6
<1>6. doc'.cursor \in 0..Blocks /\ doc'.next \in 0 .. MaxFiles * MaxAttempts + 1
  BY <1>1, <1>5, TypeNumbers, DocumentFits DEF worldVars
<1>7. seen' \in 0..staged' /\ seen' <= reported'
  BY <1>1, <1>3, TypeNumbers
<1>8. over' \in {"no", "redoing", "mixed"}
  BY <1>3 DEF PersistDue, Rewrites, docVars, DeliveryTypes, TypeOK
<1> QED
  BY <1>1, <1>3, <1>4, <1>5, <1>6, <1>7, <1>8
     DEF DeliveryTypes, TypeOK, SinkInv, Numbered, planeVars, worldVars, Objects

\* The last flush writes a record of the files that are delivered, or clears it.
LEMMA FlushTypes ==
  ASSUME DeliveryTypes, FinalFlush
  PROVE  DeliveryTypes'
<1>1. UNCHANGED <<supVars, attempt, base, first, planeVars, checkpoints, seen, persistedAt, worldVars,
                  staged, reported, prefixTx>>
  BY DEF FinalFlush, attemptVars, docVars, supVars, inputVars, ledgerVars
<1>2. SinkInv'
  BY <1>1, SinkKeepsAlone DEF DeliveryTypes
<1>3. tracking' \in {"done", "failed"} /\ DocumentTypes'
  <2> DEFINE allDelivered == sup = "done"
             batch == Safe(checkpoints, IF allDelivered THEN committed ELSE LastOf(Drained))
  <2>1. batch \in Nat /\ batch <= read
    <3>1. committed \in Nat /\ committed <= read /\ Drained \in Nat /\ read \in Nat /\ checkpoints \subseteq 1..read
      BY TypeNumbers
    <3>2. LastOf(Drained) \in Nat /\ LastOf(Drained) <= read
      BY <3>1, LastOfMono
    <3>3. (IF allDelivered THEN committed ELSE LastOf(Drained)) \in Nat
          /\ (IF allDelivered THEN committed ELSE LastOf(Drained)) <= read
      BY <3>1, <3>2
    <3> QED
      BY <3>1, <3>3, SafeWasRead
  <2>2. /\ tracking' \in {"done", "failed"}
        /\ \/ doc' = doc
           \/ doc' = [doc EXCEPT !.next = 0]
           \/ doc' = [cursor |-> base + batch, next |-> 0]
           \/ doc' = Record(batch, Drained)
    BY DEF FinalFlush, docVars
  <2> HIDE DEF batch
  <2> DEFINE limit == MaxFiles * (attempt - 1) + 1 + MaxFiles
  <2>3. UNCHANGED <<atSource, attempt>>
    BY <1>1 DEF worldVars
  <2>4. doc \in [cursor : Nat, next : Nat] /\ doc.cursor \in 0..atSource /\ doc.next <= limit
    BY DEF DeliveryTypes, Numbered, DocumentTypes
  <2>5. 0 <= limit /\ base \in Nat /\ base + batch \in 0..atSource
    <3>1. MaxFiles * (attempt - 1) \in Nat /\ MaxFiles \in Nat
      BY ShareHolds, TypeNumbers
    <3>2. base \in Nat /\ base + batch \in 0..atSource
      BY <2>1, TypeNumbers
    <3> QED
      BY <3>1, <3>2
  <2>6. Record(batch, Drained) \in [cursor : Nat, next : Nat] /\ Record(batch, Drained).cursor \in 0..atSource
        /\ Record(batch, Drained).next <= limit
    BY <2>1, TypeNumbers, RecordTypes
  <2> HIDE DEF limit
  <2>7. doc' \in [cursor : Nat, next : Nat] /\ doc'.cursor \in 0..atSource /\ doc'.next <= limit
    BY <2>1, <2>2, <2>4, <2>5, <2>6
  <2>8. limit' = limit
    BY <2>3 DEF limit
  <2> QED
    BY <2>2, <2>3, <2>7, <2>8, Zenon DEF DocumentTypes, limit
<1>4. doc'.cursor \in 0..Blocks /\ doc'.next \in 0 .. MaxFiles * MaxAttempts + 1
  BY <1>1, <1>3, TypeNumbers, DocumentFits DEF worldVars
<1>5. over' \in {"no", "redoing", "mixed"}
  BY DEF FinalFlush, Rewrites, docVars, DeliveryTypes, TypeOK
<1> QED
  BY <1>1, <1>2, <1>3, <1>4, <1>5
     DEF DeliveryTypes, TypeOK, SinkInv, Numbered, planeVars, worldVars, Objects

\* The next attempt starts from the document, and has a share of its own.
LEMMA BeginTypes ==
  ASSUME DeliveryTypes, Retry \/ Crash
  PROVE  DeliveryTypes'
<1>0. /\ base' \in {doc.cursor, 0} /\ first' \in {FirstObject(TRUE), 1}
      /\ over' \in {"no", "redoing", "mixed"}
  BY DEF Retry, Crash, Begin, Resumes, FirstObject, Redone, DeliveryTypes, TypeOK
<1>1. /\ attempt < MaxAttempts /\ attempt' = attempt + 1
      /\ read' = 0 /\ srcOpen' = TRUE /\ committed' = 0 /\ finalized' = FALSE /\ outcome' = "running"
      /\ checkpoints' = {} /\ seen' = 0 /\ persistedAt' = 0 /\ tracking' = "on" /\ signalled' = FALSE
      /\ staged' = 0 /\ reported' = 0 /\ prefixTx' = <<>>
      /\ UNCHANGED <<atSource, target, doc>>
  BY DEF Retry, Crash, Begin, FreshState
<1>2. SinkInv'
  <2>1. SupInit'
    BY DEF Retry, Crash, Begin, SupInit
  <2>2. SupInit' => SinkInv'
    BY SinkInvInit, PTL
  <2> QED
    BY <2>1, <2>2
<1>3. orphan' \subseteq Objects \X SUBSET (1..Blocks)
  <2>1. orphan \subseteq Objects \X SUBSET (1..Blocks)
    BY DEF DeliveryTypes, TypeOK
  <2>2. \A i \in inSink \ landed : Name(i) \in Objects /\ Content(i) \in SUBSET (1..Blocks)
    <3>1. inSink \subseteq Files /\ \A i \in Files : i \in Nat \ {0}
      BY SinkAssumption DEF DeliveryTypes, SinkInv, SupTypeOK, Emitted, Files
    <3> QED
      BY <3>1, NameTypes, ContentTypes
  <2>3. orphan' \subseteq orphan \cup {<<Name(i), Content(i)>> : i \in inSink \ landed}
    BY DEF Retry, Crash
  <2> QED
    BY <2>1, <2>2, <2>3
<1>4. base' \in 0..Blocks
  BY <1>0, <1>1, TypeNumbers DEF DeliveryTypes, TypeOK
<1>5. first' \in Nat \ {0} /\ first' <= MaxFiles * (attempt' - 1) + 1 /\ DocumentTypes'
  <2> DEFINE p == MaxFiles * (attempt - 1)
             q == MaxFiles * (attempt' - 1)
  <2>1. p \in Nat /\ q = p + MaxFiles /\ MaxFiles \in Nat
    BY <1>1, ShareHolds, TypeNumbers
  <2>2. doc \in [cursor : Nat, next : Nat] /\ doc.next <= p + 1 + MaxFiles /\ doc.cursor \in 0..atSource
    BY DEF DeliveryTypes, Numbered, DocumentTypes
  <2>3. first' = 1 \/ (first' = doc.next /\ doc.next # 0)
    BY <1>0 DEF FirstObject
  <2>4. doc' \in [cursor : Nat, next : Nat] /\ doc'.cursor \in 0..atSource' /\ doc'.next = doc.next
    BY <1>1, <2>2
  <2> HIDE DEF p, q
  <2>5. first' \in Nat \ {0} /\ first' <= q + 1 /\ doc'.next <= q + 1 + MaxFiles
    BY <2>1, <2>2, <2>3, <2>4
  <2> QED
    BY <2>4, <2>5 DEF DocumentTypes, q
<1>6. /\ attempt' \in 1..MaxAttempts /\ atSource' \in 1..Blocks
      /\ target' \in [Objects -> SUBSET (1..Blocks)]
      /\ doc'.cursor \in 0..Blocks /\ doc'.next \in 0 .. MaxFiles * MaxAttempts + 1
  BY <1>1, TypeNumbers DEF DeliveryTypes, TypeOK
<1>7. read' \in 0 .. atSource' - base'
  <2>1. base' <= atSource'
    <3>1. doc.cursor \in 0..atSource /\ atSource \in 1..Blocks /\ Blocks \in Nat
      BY TypeNumbers DEF DeliveryTypes, Numbered, DocumentTypes
    <3>2. base' \in {doc.cursor, 0} /\ atSource' = atSource
      BY <1>0, <1>1
    <3> QED
      BY <3>1, <3>2
  <2>2. base' \in Nat /\ atSource' \in Nat
    BY <1>1, <1>4, <1>6, TypeNumbers
  <2> DEFINE b == base'
             a == atSource'
  <2>3. b \in Nat /\ a \in Nat /\ b <= a
    BY <2>1, <2>2
  <2> HIDE DEF a, b
  <2>4. 0 \in 0 .. a - b
    BY <2>3
  <2> QED
    BY <1>1, <2>4 DEF a, b
<1>8. Numbered'
  BY <1>1, <1>5 DEF Numbered
<1> DEFINE r == MaxFiles * MaxAttempts + 1
<1>9. doc'.next \in 0..r
  BY <1>6
<1> HIDE DEF r
<1>10. TypeOK'
  <2>1. committed' \in 0..read' /\ checkpoints' \subseteq 1..read' /\ seen' \in 0..staged' /\ persistedAt' \in 0..read'
    BY <1>1
  <2>2. srcOpen' \in BOOLEAN /\ finalized' \in BOOLEAN /\ signalled' \in BOOLEAN
        /\ outcome' \in {"running", "ok", "failed"} /\ tracking' \in {"on", "done", "failed"}
    BY <1>1
  <2>3. SupTypeOK'
    BY <1>2 DEF SinkInv
  <2> QED
    BY <1>0, <1>3, <1>4, <1>5, <1>6, <1>7, <1>9, <2>1, <2>2, <2>3, Zenon DEF TypeOK, Objects, r
<1> QED
  BY <1>2, <1>8, <1>10 DEF DeliveryTypes

\* At the start nothing was written.
LEMMA TypesInit == Init => DeliveryTypes
<1> SUFFICES ASSUME Init PROVE DeliveryTypes
  OBVIOUS
<1>1. SinkInv
  BY SinkInvInit DEF Init
<1>2. Blocks \in Nat /\ MaxFiles \in Nat /\ MaxAttempts \in Nat \ {0}
  BY SinkAssumption, DeliveryAssumption
<1>3. /\ staged = 0 /\ reported = 0 /\ prefixTx = <<>> /\ attempt = 1 /\ base = 0 /\ first = 1
      /\ atSource \in 1..Blocks /\ read = 0 /\ srcOpen = TRUE /\ committed = 0 /\ finalized = FALSE
      /\ outcome = "running" /\ checkpoints = {} /\ seen = 0 /\ persistedAt = 0 /\ tracking = "on"
      /\ signalled = FALSE /\ doc = [cursor |-> 0, next |-> 0] /\ over = "no" /\ target = [o \in Objects |-> {}] /\ orphan = {}
  BY DEF Init, SupInit
<1>4. MaxFiles * (attempt - 1) = 0 /\ MaxFiles * MaxAttempts + 1 \in Nat
  BY <1>2, <1>3
<1>5. Numbered /\ doc.cursor \in 0..Blocks
  BY <1>2, <1>3, <1>4 DEF Numbered, DocumentTypes
<1> DEFINE r == MaxFiles * MaxAttempts + 1
<1>6. doc.next \in 0..r
  <2> HIDE DEF r
  <2> QED
    BY <1>3, <1>4 DEF r
<1>7. read \in 0 .. atSource - base
  BY <1>2, <1>3
<1> HIDE DEF r
<1>8. TypeOK
  <2>1. committed \in 0..read /\ checkpoints \subseteq 1..read /\ seen \in 0..staged /\ persistedAt \in 0..read
        /\ attempt \in 1..MaxAttempts /\ base \in 0..Blocks /\ first \in Nat \ {0}
    BY <1>2, <1>3
  <2>2. srcOpen \in BOOLEAN /\ finalized \in BOOLEAN /\ signalled \in BOOLEAN
        /\ outcome \in {"running", "ok", "failed"} /\ tracking \in {"on", "done", "failed"}
    BY <1>3
  <2>3. target \in [Objects -> SUBSET (1..Blocks)] /\ orphan \subseteq Objects \X SUBSET (1..Blocks)
    BY <1>3
  <2>4. SupTypeOK
    BY <1>1 DEF SinkInv
  <2> QED
    BY <1>3, <1>5, <1>6, <1>7, <2>1, <2>2, <2>3, <2>4, Zenon DEF TypeOK, r
<1> QED
  BY <1>1, <1>5, <1>8 DEF DeliveryTypes

\* Every variable of the attempts keeps its type, whatever the destination
\* announces, whichever sink it is and whatever its core left behind.
THEOREM DeliveryTypeOK == Spec => []TypeOK
<1>1. DeliveryTypes /\ [Next]_vars => DeliveryTypes'
  BY StageTypes, PlaneTypes, UploadTypes, ArrivalTypes, FlushTypes, BeginTypes DEF Next, CoreStep
<1>2. DeliveryTypes => TypeOK
  BY DEF DeliveryTypes
<1> QED
  BY <1>1, <1>2, TypesInit, PTL DEF Spec
=============================================================================
