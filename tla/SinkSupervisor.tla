--------------------------- MODULE SinkSupervisor ---------------------------
(***************************************************************************)
(* The sink stage (loadsmith-core/src/sink_supervisor.rs): the core hands  *)
(* each staged file to the sink, keeps the ledger of what the sink         *)
(* acknowledged, and replaces a sink that dies, hangs or fails, until      *)
(* everything is delivered, the run is halted or the restarts are used up. *)
(*                                                                         *)
(* A file is its position in the destination's announcements, so emitted   *)
(* is 1..received.  The sink process is external: it uploads the files it  *)
(* was handed in any order (the SDK's takes them one by one) and           *)
(* acknowledges each once it is at the target.                             *)
(***************************************************************************)
EXTENDS Integers, FiniteSets, FiniteSetsExt, Sequences

CONSTANTS
  MaxFiles,     \* bound: files a destination stages in one attempt
  MaxRestarts,  \* MAX_RESTARTS: respawns before the supervisor gives up
  Unranged,     \* files announced without a batch range that continues the last
  Faults        \* what may go wrong with the sink (SinkFaults)

SinkFaults == {"setup", "dies", "error", "hangs", "hangsAtEnd", "finishesEarly", "resend", "fullPipe"}

ASSUME SinkAssumption ==
  /\ MaxFiles \in Nat
  /\ MaxRestarts \in Nat
  /\ Unranged \subseteq 1..MaxFiles
  /\ Faults \subseteq SinkFaults

VARIABLES
  staged,       \* files the destination announced
  eventsOpen,   \* its event channel, and so the supervisor's input, is open
  halt,         \* the shutdown input fired
  sup,          \* where the supervisor is
  received,     \* Ledger.emitted
  delivered,    \* Ledger.delivered
  inputClosed,  \* input_closed: the supervisor saw the end of its input
  restarts,     \* restarts
  reported,     \* DeliveredPrefix.through, counted in files
  prefixTx,     \* delivered_tx: prefixes reported and not yet received
  halting,      \* halting: waiting for the delivery in flight
  pinged,       \* awaiting_pong
  inSink,       \* files handed to this sink process and not acknowledged
  landed,       \* files that are at the target, whichever process put them there
  acks,         \* acknowledgements on this process's control channel
  farewell,     \* the last this process says
  hung          \* it does nothing any more

inputVars  == <<staged, eventsOpen, halt>>
ledgerVars == <<received, delivered, inputClosed, reported, prefixTx>>
driveVars  == <<sup, restarts, halting, pinged>>
sinkVars   == <<inSink, landed, acks, farewell, hung>>
supVars    == <<inputVars, ledgerVars, driveVars, sinkVars>>

Files == 1..MaxFiles
Over  == {"done", "halted", "failed"}

Driving == sup = "driving"
Emitted == 1..received
Pending == Emitted \ delivered
Gone    == farewell # "none"

\* Mutant of InputOpen: the end of the destination's announcements not waited for.
OpenWhilePending == Pending # {}

\* close_input, at the top of the loop: the sink's stdin is open until the
\* destination is done and every file is acknowledged.
InputOpen == ~(inputClosed /\ Pending = {})

\* Mutant of Prefix: acknowledgements counted, not the unbroken run of them.
AckCount(ds) == Cardinality(ds)

\* DeliveredPrefix::update: how many files, from the first, are acknowledged
\* and carry a range that continues the one before.
Prefix(ds) == Max({n \in 0..MaxFiles : \A i \in 1..n : i \in ds /\ i \notin Unranged})

SupTypeOK ==
  /\ staged \in 0..MaxFiles
  /\ eventsOpen \in BOOLEAN /\ halt \in BOOLEAN
  /\ sup \in {"spawning", "driving", "blocked"} \cup Over
  /\ received \in 0..staged
  /\ delivered \subseteq Emitted
  /\ inputClosed \in BOOLEAN
  /\ restarts \in 0..MaxRestarts
  /\ reported \in 0..received
  /\ prefixTx \in Seq(Files)
  /\ halting \in BOOLEAN /\ pinged \in BOOLEAN
  /\ inSink \subseteq Emitted
  /\ landed \subseteq Emitted
  /\ acks \subseteq Emitted
  /\ farewell \in {"none", "success", "error", "died"}
  /\ hung \in BOOLEAN

SupInit ==
  /\ staged = 0 /\ eventsOpen = TRUE /\ halt = FALSE
  /\ sup = "spawning"
  /\ received = 0 /\ delivered = {} /\ inputClosed = FALSE
  /\ restarts = 0
  /\ reported = 0 /\ prefixTx = <<>>
  /\ halting = FALSE /\ pinged = FALSE
  /\ inSink = {} /\ landed = {} /\ acks = {}
  /\ farewell = "none" /\ hung = FALSE

----------------------------------------------------------------------------
(* One sink process after another *)

\* Mutant of Spawn: a new sink is handed only what is announced from now on.
SpawnBlank ==
  /\ sup = "spawning"
  /\ sup' = "driving"
  /\ inSink' = {} /\ acks' = {} /\ farewell' = "none" /\ hung' = FALSE
  /\ halting' = FALSE /\ pinged' = FALSE
  /\ UNCHANGED <<inputVars, ledgerVars, restarts, landed>>

\* Handshake, configure, start; then every file not yet acknowledged is sent
\* again.  A sink that cannot be set up ends the stage, whatever the restarts.
Spawn ==
  /\ sup = "spawning"
  /\ \/ /\ sup' = "driving"
        /\ inSink' = Pending
     \/ /\ "setup" \in Faults \/ halt
        /\ sup' = "failed"
        /\ UNCHANGED inSink
  /\ acks' = {} /\ farewell' = "none" /\ hung' = FALSE
  /\ halting' = FALSE /\ pinged' = FALSE
  /\ UNCHANGED <<inputVars, ledgerVars, restarts, landed>>

End(how) == sup' = how /\ UNCHANGED restarts

\* Mutant of Recover: no count of the restarts is kept against a limit.
RecoverAlways ==
  IF halt THEN End("halted") ELSE sup' = "spawning" /\ restarts' = restarts + 1

\* Driven::Recoverable: the process is killed, and replaced unless the run is
\* halting or the restarts are used up.
Recover ==
  CASE halt -> End("halted")
    [] ~halt /\ restarts = MaxRestarts -> End("failed")
    [] OTHER -> sup' = "spawning" /\ restarts' = restarts + 1

\* send_deliver of some files: it fails when the process is gone, and waits for
\* room in the stdin of one that does not read it any more.
Send(is) ==
  \/ ~Gone /\ inSink' = inSink \cup is /\ UNCHANGED <<sup, restarts>>
  \/ Gone /\ Recover /\ UNCHANGED inSink
  \/ "fullPipe" \in Faults /\ hung /\ ~Gone /\ sup' = "blocked" /\ UNCHANGED <<inSink, restarts>>

----------------------------------------------------------------------------
(* drive_instance: one action per branch of its select *)

ReceiveObject ==
  /\ Driving
  /\ received < staged
  /\ received' = received + 1
  /\ IF halting THEN UNCHANGED <<inSink, sup, restarts>> ELSE Send({received + 1})
  /\ UNCHANGED <<inputVars, delivered, inputClosed, reported, prefixTx, halting, pinged,
                 landed, acks, farewell, hung>>

InputEnds ==
  /\ Driving
  /\ received = staged /\ ~eventsOpen /\ ~inputClosed
  /\ inputClosed' = TRUE
  /\ UNCHANGED <<inputVars, received, delivered, reported, prefixTx, driveVars, sinkVars>>

ObjectDelivered(i) ==
  /\ Driving
  /\ i \in acks
  /\ acks' = acks \ {i}
  /\ delivered' = delivered \cup {i}
  /\ LET prefix == Prefix(delivered')
     IN  IF prefix > reported
         THEN reported' = prefix /\ prefixTx' = Append(prefixTx, prefix)
         ELSE UNCHANGED <<reported, prefixTx>>
  /\ IF halting THEN End("halted") ELSE UNCHANGED <<sup, restarts>>
  /\ UNCHANGED <<inputVars, received, inputClosed, halting, pinged, inSink, landed, farewell, hung>>

\* finished, or the end of the channel, behind every acknowledgement.  A
\* success is taken as it is.
Finished ==
  /\ Driving
  /\ Gone /\ acks = {}
  /\ IF farewell = "success" THEN End("done") ELSE Recover
  /\ UNCHANGED <<inputVars, ledgerVars, halting, pinged, sinkVars>>

\* The sink received a malformed line and asks for everything again.
ResendRequested ==
  /\ Driving
  /\ "resend" \in Faults
  /\ ~Gone /\ ~hung
  /\ InputOpen
  /\ Send(Pending)
  /\ UNCHANGED <<inputVars, ledgerVars, halting, pinged, landed, acks, farewell, hung>>

\* Mutant of PingTick: a ping that got no answer is sent again.
PingAgain ==
  /\ Driving
  /\ InputOpen /\ ~Gone
  /\ pinged' = TRUE
  /\ UNCHANGED <<inputVars, ledgerVars, sup, restarts, halting, sinkVars>>

PingTick ==
  /\ Driving
  /\ InputOpen
  /\ IF pinged \/ Gone
     THEN Recover /\ UNCHANGED pinged
     ELSE pinged' = TRUE /\ UNCHANGED <<sup, restarts>>
  /\ UNCHANGED <<inputVars, ledgerVars, halting, sinkVars>>

Pong ==
  /\ Driving
  /\ pinged /\ ~Gone /\ ~hung
  /\ pinged' = FALSE
  /\ UNCHANGED <<inputVars, ledgerVars, sup, restarts, halting, sinkVars>>

\* Mutant of GraceEnds: the wait for the delivery in flight has no limit.
GraceEndsWithAck ==
  /\ Driving
  /\ halting /\ Pending = {}
  /\ End("halted")
  /\ UNCHANGED <<inputVars, ledgerVars, halting, pinged, sinkVars>>

\* A halt waits for the next acknowledgement when one is still to come, up to
\* the grace period.
Halt ==
  /\ Driving
  /\ halt /\ ~halting
  /\ \/ Pending # {} /\ halting' = TRUE /\ UNCHANGED <<sup, restarts>>
     \/ Pending = {} /\ End("halted") /\ UNCHANGED halting
  /\ UNCHANGED <<inputVars, ledgerVars, pinged, sinkVars>>

GraceEnds ==
  /\ Driving
  /\ halting
  /\ End("halted")
  /\ UNCHANGED <<inputVars, ledgerVars, halting, pinged, sinkVars>>

SupervisorStep ==
  \/ Spawn \/ ReceiveObject \/ InputEnds \/ Finished \/ PingTick \/ Halt \/ GraceEnds
  \/ \E i \in Files : ObjectDelivered(i)

----------------------------------------------------------------------------
(* The sink process *)

Alive == Driving /\ ~Gone /\ ~hung
CoreUnchanged == UNCHANGED <<inputVars, ledgerVars, driveVars>>

Land(i) ==
  /\ Alive
  /\ i \in inSink \ landed
  /\ landed' = landed \cup {i}
  /\ CoreUnchanged /\ UNCHANGED <<inSink, acks, farewell, hung>>

Ack(i) ==
  /\ Alive
  /\ i \in inSink \cap landed
  /\ inSink' = inSink \ {i}
  /\ acks' = acks \cup {i}
  /\ CoreUnchanged /\ UNCHANGED <<landed, farewell, hung>>

\* It saw the end of its input, and delivered everything it was handed.
SinkFinish ==
  /\ Alive
  /\ (~InputOpen /\ inSink = {}) \/ "finishesEarly" \in Faults
  /\ farewell' = "success"
  /\ CoreUnchanged /\ UNCHANGED <<inSink, landed, acks, hung>>

SinkFails ==
  /\ Alive
  /\ \/ "dies" \in Faults /\ farewell' = "died"
     \/ "error" \in Faults /\ farewell' = "error"
  /\ CoreUnchanged /\ UNCHANGED <<inSink, landed, acks, hung>>

\* While it delivers, or in its own finalize.
SinkHangs ==
  /\ Alive
  /\ \/ "hangs" \in Faults /\ inSink # {}
     \/ "hangsAtEnd" \in Faults /\ ~InputOpen
  /\ hung' = TRUE
  /\ CoreUnchanged /\ UNCHANGED <<inSink, landed, acks, farewell>>

SinkWorks == SinkFinish \/ \E i \in Files : Land(i) \/ Ack(i)

SinkStep == SinkWorks \/ SinkFails \/ SinkHangs \/ ResendRequested \/ Pong

----------------------------------------------------------------------------
(* Around it: the destination announces files, and the run may abort *)

Announce ==
  /\ eventsOpen
  /\ staged < MaxFiles
  /\ staged' = staged + 1
  /\ UNCHANGED <<eventsOpen, halt, ledgerVars, driveVars, sinkVars>>

EventsEnd ==
  /\ eventsOpen
  /\ eventsOpen' = FALSE
  /\ UNCHANGED <<staged, halt, ledgerVars, driveVars, sinkVars>>

Abort ==
  /\ ~halt
  /\ halt' = TRUE
  /\ UNCHANGED <<staged, eventsOpen, ledgerVars, driveVars, sinkVars>>

SupStop == sup \in Over \cup {"blocked"} /\ ~eventsOpen /\ UNCHANGED supVars

SupNext == SupervisorStep \/ SinkStep \/ Announce \/ EventsEnd \/ Abort \/ SupStop

SupSpec == SupInit /\ [][SupNext]_supVars

\* The supervisor is scheduled, each branch of its select in its turn, and its
\* timers fire.
SupFairness ==
  /\ WF_supVars(Spawn) /\ WF_supVars(ReceiveObject) /\ WF_supVars(InputEnds)
  /\ WF_supVars(Finished) /\ WF_supVars(PingTick)
  /\ WF_supVars(Halt) /\ WF_supVars(GraceEnds)
  /\ \A i \in Files : WF_supVars(ObjectDelivered(i))

\* A sink that is not hung gets on with its work.
SinkFairness == WF_supVars(SinkFinish) /\ \A i \in Files : WF_supVars(Land(i) \/ Ack(i))

SupFairSpec == SupSpec /\ SupFairness

----------------------------------------------------------------------------
(* Properties *)

\* Nothing falls between two sink processes: whatever is not acknowledged is
\* in the hands of the live one, or its acknowledgement is on the way.
AllHandedOver == Driving /\ ~halting /\ ~Gone => Pending \subseteq inSink \cup acks

\* The stage ends well only when every file the destination announced is at
\* the target: then the run counts it as durable and the core removes its
\* scratch directory ("only after the sink has acknowledged every object").
DoneMeansDelivered == sup = "done" => ~eventsOpen /\ delivered = 1..staged /\ delivered \subseteq landed

\* A prefix reported to the state supervisor is at the target, file by file,
\* and grows.
PrefixLanded ==
  [][prefixTx' # prefixTx => 1..reported' \subseteq landed /\ reported' > reported]_supVars

\* The sink stage comes to an end once the destination has announced its last
\* file, when a sink that does not hang gets on with its work: one that hangs,
\* dies or fails is replaced, a bounded number of times.
StageEnds == SinkFairness => (~eventsOpen ~> sup \in Over)

\* A hung sink is found out by a ping: its input is still open, and the
\* supervisor is not held in a write to it.
Watched == (hung => InputOpen) /\ sup # "blocked"

\* The same, but for a hung sink that is not watched any more.
DeliveryEnds == SinkFairness /\ []Watched => (~eventsOpen ~> sup \in Over)

\* A halt ends the sink stage, whatever the sink does or fails to do, but for
\* a supervisor that waits for room in the sink's stdin.
HaltEnds == [](sup # "blocked") => (halt ~> sup \in Over)
============================================================================
