----------------------------- MODULE FlowControl -----------------------------
(***************************************************************************)
(* Flow control between the core and a source: the pump grants batches     *)
(* ahead of what it handed to the destination (FlowWindow and pump,        *)
(* loadsmith-core/src/pump.rs), the runner relays its latest grant over    *)
(* the control channel (next_grant, runner.rs; Peer, peer.rs), and the SDK *)
(* fetches no batch past the grant it knows (flow.rs, source.rs and        *)
(* control.rs of loadsmith-plugin-sdk).  Lines to the source may be        *)
(* garbled; both ends follow the resend rule.                              *)
(***************************************************************************)
EXTENDS Integers, Sequences

CONSTANTS
  MaxInflight, Budget,  \* pipeline.flow
  Sizes,     \* what batches weigh, in the unit of the budget
  Fetches,   \* bound: batches a source fetches
  PipeDepth,  \* batches a data pipe holds
  ReadAhead, \* the plugin fetches on its own, with a gate of its own
  Garbles,   \* bound: garbled lines
  Aborts     \* the run may abort

ASSUME FlowAssumption ==
  /\ MaxInflight \in Nat /\ Budget \in Nat /\ Fetches \in Nat /\ Garbles \in Nat
  /\ Sizes \subseteq Nat /\ PipeDepth \in Nat \ {0}
  /\ ReadAhead \in BOOLEAN /\ Aborts \in BOOLEAN

VARIABLES
  fetched,   \* batches the source fetched from its system
  piped,     \* batches its writer thread wrote to fd3
  source,    \* where the source is
  gate,      \* the grant it knows
  streak,    \* malformed lines in a row
  wire,      \* lines on their way to the source
  resends,   \* resend requests on their way to the core
  last,      \* Peer.last_sent
  garbled,   \* lines garbled so far
  relayed,   \* the grant the runner saw last
  aborted,   \* the loop is over and the abort is on
  granted,   \* FlowWindow: the highest batch granted
  window, largest,
  pulled,    \* batches the pump read
  handed,    \* batches it handed on, or dropped
  queued     \* batches in the destination's pipe

sourceVars == <<fetched, piped, source, gate, streak>>
lineVars   == <<wire, last, garbled>>
windowVars == <<granted, window, largest>>
supplyVars == <<windowVars, pulled, handed, queued>>
flowVars   == <<sourceVars, lineVars, resends, relayed, aborted, supplyVars>>

AtLeastOne(n) == IF n < 1 THEN 1 ELSE n
AtMost(n, most) == IF n > most THEN most ELSE n

\* The largest window there is: max_inflight_batches, where 0 counts as 1.
Ceiling == AtLeastOne(MaxInflight)

Credit(n) == [line |-> "credit", upTo |-> n]
Start     == [line |-> "start",  upTo |-> AtMost(2, Ceiling)]
Cancel    == [line |-> "cancel", upTo |-> 0]
Garbled   == [line |-> "garbled", upTo |-> 0]

Lines == [line : {"credit", "start", "cancel", "garbled"}, upTo : Nat]

FlowTypeOK ==
  /\ fetched \in 0..Fetches /\ piped \in 0..fetched
  /\ source \in {"fetching", "flushing", "done", "cancelled", "failed"}
  /\ gate \in Nat /\ streak \in 0..1
  /\ wire \in Seq(Lines) /\ resends \in Nat /\ last \in Lines
  /\ garbled \in 0..Garbles
  /\ relayed \in Nat /\ aborted \in BOOLEAN
  /\ granted \in Nat /\ window \in 1..Ceiling /\ largest \in Nat
  /\ pulled \in 0..piped /\ handed \in 0..pulled /\ queued \in 0..PipeDepth

\* The first grant travels in start.credit.
FlowInit ==
  /\ fetched = 0 /\ piped = 0 /\ source = "fetching" /\ gate = Start.upTo /\ streak = 0
  /\ wire = <<>> /\ last = Start /\ garbled = 0 /\ resends = 0
  /\ relayed = Start.upTo /\ aborted = FALSE
  /\ granted = Start.upTo /\ window = Start.upTo /\ largest = 0
  /\ pulled = 0 /\ handed = 0 /\ queued = 0

----------------------------------------------------------------------------
(* The source *)

\* One batch waits in the queue to the writer thread, one is being written.
Unwritten == 2

\* Fetched in next_batch, where the batch before was accepted by the queue; or
\* ahead of it.
Fetch ==
  /\ source = "fetching"
  /\ fetched < Fetches /\ fetched < gate
  /\ ReadAhead \/ fetched - piped <= Unwritten
  /\ fetched' = fetched + 1
  /\ UNCHANGED <<piped, source, gate, streak, lineVars, resends, relayed, aborted, supplyVars>>

\* next_batch returns none; it is asked only with a grant for one more.
Exhaust ==
  /\ source = "fetching"
  /\ fetched < gate /\ fetched - piped <= Unwritten
  /\ source' = "flushing"
  /\ UNCHANGED <<fetched, piped, gate, streak, lineVars, resends, relayed, aborted, supplyVars>>

WriteStream ==
  /\ source \in {"fetching", "flushing"}
  /\ piped < fetched /\ piped - pulled < PipeDepth
  /\ piped' = piped + 1
  /\ UNCHANGED <<fetched, source, gate, streak, lineVars, resends, relayed, aborted, supplyVars>>

\* The writer thread is joined, the stream ends, and finished is sent.
Finish ==
  /\ source = "flushing"
  /\ piped = fetched
  /\ source' = "done"
  /\ UNCHANGED <<fetched, piped, gate, streak, lineVars, resends, relayed, aborted, supplyVars>>

\* attending: the next line, wherever the source waits.  A flushing source
\* looks at none.
Attend ==
  /\ source = "fetching"
  /\ wire # <<>>
  /\ wire' = Tail(wire)
  /\ UNCHANGED <<fetched, piped, last, garbled, relayed, aborted, supplyVars>>

HearCredit ==
  /\ Attend
  /\ Head(wire).line = "credit"
  /\ gate' = IF Head(wire).upTo > gate THEN Head(wire).upTo ELSE gate
  /\ streak' = 0
  /\ UNCHANGED <<source, resends>>

HearCancel ==
  /\ Attend
  /\ Head(wire).line = "cancel"
  /\ source' = "cancelled" /\ streak' = 0
  /\ UNCHANGED <<gate, resends>>

HearGarbled ==
  /\ Attend
  /\ Head(wire).line = "garbled"
  /\ IF streak = 1
     THEN source' = "failed" /\ UNCHANGED <<streak, resends>>
     ELSE streak' = 1 /\ resends' = resends + 1 /\ UNCHANGED source
  /\ UNCHANGED gate

SourceStep ==
  \/ Fetch \/ Exhaust \/ WriteStream \/ Finish
  \/ HearCredit \/ HearCancel \/ HearGarbled

----------------------------------------------------------------------------
(* The runner and its end of the control channel *)

Write(line) ==
  \/ /\ wire' = Append(wire, line)
     /\ UNCHANGED garbled
  \/ /\ garbled < Garbles
     /\ wire' = Append(wire, Garbled)
     /\ garbled' = garbled + 1

\* Mutant of Relay: a credit is sent as a ping is, and not remembered.
RelayRaw ==
  /\ ~aborted
  /\ granted # relayed
  /\ relayed' = granted
  /\ Write(Credit(granted))
  /\ UNCHANGED <<last, sourceVars, resends, aborted, supplyVars>>

\* next_grant: the latest grant; the ones between are never sent.
Relay ==
  /\ ~aborted
  /\ granted # relayed
  /\ relayed' = granted
  /\ Write(Credit(granted)) /\ last' = Credit(granted)
  /\ UNCHANGED <<sourceVars, resends, aborted, supplyVars>>

\* Peer::process, in the loop and while the core waits for the exit.
Resend ==
  /\ resends > 0
  /\ resends' = resends - 1
  /\ Write(last)
  /\ UNCHANGED <<last, sourceVars, relayed, aborted, supplyVars>>

\* The run aborts: from here nobody relays a grant.
Abort ==
  /\ Aborts /\ ~aborted
  /\ aborted' = TRUE
  /\ Write(Cancel) /\ last' = Cancel
  /\ UNCHANGED <<sourceVars, resends, relayed, supplyVars>>

----------------------------------------------------------------------------
(* The pump and the destination *)

PumpReads ==
  /\ pulled = handed /\ pulled < piped
  /\ pulled' = pulled + 1
  /\ UNCHANGED <<sourceVars, lineVars, resends, relayed, aborted, windowVars, handed, queued>>

\* Mutant of Resized: no lower bound.
ResizedDown(most) ==
  IF Budget = 0 \/ most = 0 THEN Ceiling ELSE AtMost(Budget \div most, Ceiling)

\* Mutant of Resized: the budget is not looked at.
ResizedUp(most) == Ceiling

\* What the budget holds of the largest batch so far.
Resized(most) ==
  IF Budget = 0 \/ most = 0 THEN Ceiling ELSE AtMost(AtLeastOne(Budget \div most), Ceiling)

\* Mutant of Forwarded: the grant follows the window down.
ForwardedBack(n, bytes) ==
  /\ largest' = IF bytes > largest THEN bytes ELSE largest
  /\ window' = Resized(largest')
  /\ granted' = n + window'

\* Mutant of Forwarded: the window starts behind the batch in hand.
ForwardedAhead(n, bytes) ==
  /\ largest' = IF bytes > largest THEN bytes ELSE largest
  /\ window' = Resized(largest')
  /\ granted' = IF n + 1 + window' > granted THEN n + 1 + window' ELSE granted

\* FlowWindow::forwarded
Forwarded(n, bytes) ==
  /\ largest' = IF bytes > largest THEN bytes ELSE largest
  /\ window' = Resized(largest')
  /\ granted' = IF n + window' > granted THEN n + window' ELSE granted

\* A batch is written where there is room, or dropped once the run aborts;
\* either way the grant follows it.
PumpHandsOn ==
  /\ handed < pulled
  /\ \/ aborted /\ UNCHANGED queued
     \/ ~aborted /\ queued < PipeDepth /\ queued' = queued + 1
  /\ handed' = pulled
  /\ \E bytes \in Sizes : Forwarded(pulled, bytes)
  /\ UNCHANGED <<sourceVars, lineVars, resends, relayed, aborted, pulled>>

DestinationTakes ==
  /\ queued > 0
  /\ queued' = queued - 1
  /\ UNCHANGED <<sourceVars, lineVars, resends, relayed, aborted, windowVars, pulled, handed>>

FlowNext ==
  \/ SourceStep \/ Relay \/ Resend \/ Abort
  \/ PumpReads \/ PumpHandsOn \/ DestinationTakes

----------------------------------------------------------------------------
(* Threads that can run do, the core's and the source's alike; a select is a
   loop, which gives each branch its turn.  Nothing has to abort. *)
FlowFairness ==
  /\ WF_flowVars(Fetch \/ Exhaust) /\ WF_flowVars(WriteStream) /\ WF_flowVars(Finish)
  /\ WF_flowVars(HearCredit \/ HearCancel \/ HearGarbled)
  /\ WF_flowVars(Relay) /\ WF_flowVars(Resend)
  /\ WF_flowVars(PumpReads) /\ WF_flowVars(PumpHandsOn) /\ WF_flowVars(DestinationTakes)

FlowSpec == FlowInit /\ [][FlowNext]_flowVars /\ FlowFairness

----------------------------------------------------------------------------

\* A source never holds a batch the core's present grant does not cover, though
\* the grant it acts on is an old one (FlowWindow::forwarded never shrinks it).
WithinGrant == fetched <= granted

\* When the destination has caught up with a window, the batches between the
\* source's system and the destination fit in the budget, taken as the largest
\* so far; or there is one (pipeline.flow, FlowWindow::forwarded).
WithinBudget ==
  Budget # 0 /\ largest # 0 /\ granted = handed + window =>
    (fetched - handed) * largest <= Budget \/ fetched <= handed + 1

\* Whatever lies between them, source and pump are a buffer of Ceiling batches
\* (max_inflight_batches).
Buffer == INSTANCE BoundedBuffer WITH Capacity <- Ceiling, put <- fetched, got <- handed
ImplementsBoundedBuffer == Buffer!BufferSpec

\* No source waits for a credit for ever: not with a grant that was replaced
\* before it was sent, not with one that was garbled, not at its end.
NeverStarves == <>(source \in {"done", "cancelled", "failed"})
=============================================================================
