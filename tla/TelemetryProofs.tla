--------------------------- MODULE TelemetryProofs ---------------------------
(***************************************************************************)
(* Proofs about Telemetry: its types, that a provider's value is masked     *)
(* when shown, that what is lost is counted once, and that what the trace   *)
(* keeps hangs on the nearest span kept, for any bounds, settings and       *)
(* faults.                                                                  *)
(***************************************************************************)
EXTENDS Telemetry, FiniteSetTheorems, WellFoundedInduction, TLAPS

-----------------------------------------------------------------------------
(* Types *)

\* What a message refers to has been recorded: the line is in the log l, the
\* span is closed among the spans sp.
Known(m, l, sp) ==
    /\ m \in Message
    /\ m.signal = "logs" => m.id \in 1 .. Len(l)
    /\ m.signal = "traces" => sp[m.id].state = "closed"

Sound(q, l, sp) == q \in Seq(Message) /\ \A n \in 1 .. Len(q) : Known(q[n], l, sp)

\* A delta whose counters are not read yet.
Fresh(p, b) == [signal |-> "metrics", points |-> p, beyond |-> b, lost |-> Zero]

Routes ==
    /\ Sound(pending, log, span) /\ Sound(writer.batch, log, span)
    /\ Sound(writer.own, log, span) /\ Sound(held, log, span)
    /\ \A s \in out.spans : span[s].state = "closed"
    /\ writer.state = "counting" => \E p, b \in Nat : writer.batch = <<Fresh(p, b)>>

Sorted == TypeOK /\ Routes

\* The log only grows and a closed span stays closed.
Kept ==
    /\ log' \in Seq(LineType) /\ Len(log') >= Len(log)
    /\ \A s \in SpanIds : span[s].state = "closed" => span'[s].state = "closed"

\* A message of each signal carries what its signal carries.
LEMMA Carries ==
    ASSUME NEW m \in Message
    PROVE  /\ m.signal \in Signals
           /\ m.signal = "traces" => m.id \in SpanIds
           /\ m.signal = "logs" => m.id \in Nat
           /\ m.signal = "metrics" => m.points \in Nat /\ m.beyond \in Nat /\ m.lost \in [Kinds -> Nat]
BY DEF Message, Signals

\* The messages the plugin makes are messages.
LEMMA Messages ==
    /\ \A s \in SpanIds : [signal |-> "traces", id |-> s] \in Message
    /\ \A n \in Nat : [signal |-> "logs", id |-> n] \in Message
    /\ \A p, b \in Nat, l \in [Kinds -> Nat] :
           [signal |-> "metrics", points |-> p, beyond |-> b, lost |-> l] \in Message
    /\ \A p, b \in Nat : Fresh(p, b) \in Message
    /\ Zero \in [Kinds -> Nat] /\ \A k \in Kinds : Zero[k] = 0
BY DEF Message, Fresh, Zero

\* What is known stays known as the log grows.
LEMMA SoundKept ==
    ASSUME TypeOK, Kept, NEW q, Sound(q, log, span)
    PROVE  Sound(q, log', span')
<1>1. Len(log) \in Nat /\ Len(log') \in Nat /\ Len(log') >= Len(log)
  BY DEF TypeOK, Kept
<1>2. ASSUME NEW m, Known(m, log, span) PROVE Known(m, log', span')
  <2>1. m \in Message /\ (m.signal = "traces" => m.id \in SpanIds)
    BY <1>2, Carries DEF Known
  <2> QED
    BY <1>1, <1>2, <2>1 DEF Known, Kept
<1> QED
  BY <1>2 DEF Sound

\* A sound queue stays sound as messages are put in and taken out.
LEMMA SoundQueues ==
    ASSUME NEW l, NEW sp
    PROVE  /\ Sound(<<>>, l, sp)
           /\ \A m : Known(m, l, sp) => Sound(<<m>>, l, sp)
           /\ \A q, m : Sound(q, l, sp) /\ Known(m, l, sp) => Sound(Append(q, m), l, sp)
           /\ \A q : Sound(q, l, sp) /\ q # <<>> => Known(Head(q), l, sp) /\ Sound(Tail(q), l, sp)
<1>1. Sound(<<>>, l, sp)
  BY DEF Sound
<1>2. ASSUME NEW m, Known(m, l, sp) PROVE Sound(<<m>>, l, sp)
  <2>1. m \in Message
    BY <1>2 DEF Known
  <2> QED
    BY <1>2, <2>1 DEF Sound
<1>3. ASSUME NEW q, NEW m, Sound(q, l, sp), Known(m, l, sp) PROVE Sound(Append(q, m), l, sp)
  <2>1. m \in Message /\ q \in Seq(Message)
    BY <1>3 DEF Known, Sound
  <2>2. \A n \in 1 .. Len(Append(q, m)) : (n \in 1 .. Len(q) /\ Append(q, m)[n] = q[n]) \/ Append(q, m)[n] = m
    BY <2>1
  <2> QED
    BY <1>3, <2>1, <2>2 DEF Sound
<1>4. ASSUME NEW q, Sound(q, l, sp), q # <<>> PROVE Known(Head(q), l, sp) /\ Sound(Tail(q), l, sp)
  <2>1. q \in Seq(Message) /\ 1 \in 1 .. Len(q) /\ Head(q) = q[1]
    BY <1>4 DEF Sound
  <2>2. Tail(q) \in Seq(Message) /\ \A n \in 1 .. Len(Tail(q)) : n + 1 \in 1 .. Len(q) /\ Tail(q)[n] = q[n + 1]
    BY <1>4, <2>1
  <2> QED
    BY <1>4, <2>1, <2>2 DEF Sound
<1> QED
  BY <1>1, <1>2, <1>3, <1>4

-----------------------------------------------------------------------------
(* The chain of spans a span is in *)

SpansTyped == span \in [SpanIds -> SpanType]

\* A span's enclosing one was opened before it.
Climbs == \A s \in SpanIds : span[s].in < s

Chain == {CoreSpan} \cup SpanIds

\* A set of numbers that is not empty has a least one.
LEMMA Least ==
    ASSUME NEW D \in SUBSET Nat, D # {}
    PROVE  \E d \in D : \A e \in D : d <= e
<1>1. PICK d \in D : \A e \in D : <<e, d>> \notin OpToRel(<, Nat)
  BY NatLessThanWellFounded, WFMin, Zenon
<1>2. \A e \in D : ~(e < d)
  BY <1>1, Zenon DEF OpToRel
<1> QED
  BY <1>2

\* The chain's numbers, and that it climbs.
LEMMA ChainIs ==
    ASSUME SpansTyped, Climbs
    PROVE  /\ Chain = 0 .. Spans /\ Spans \in Nat
           /\ \A s \in SpanIds : span[s].in \in Chain /\ span[s].in < s
           /\ \A n \in Nat : \A s \in 1 .. n : n <= Spans => span[s].in \in 0 .. n - 1
BY BoundsAssumption DEF SpansTyped, Climbs, Chain, SpanIds, CoreSpan, SpanType

\* Going up from a span ends at the first one recorded.
LEMMA ContextUp ==
    ASSUME SpansTyped, Climbs, NEW s \in Chain
    PROVE  ContextOf(s) = IF s = CoreSpan \/ span[s].state = "open" THEN s ELSE ContextOf(span[s].in)
<1> DEFINE Stop(r) == r = CoreSpan \/ span[r].state = "open"
           Up(f, n) == f = [r \in 0 .. n |-> IF Stop(r) THEN r ELSE f[span[r].in]]
           D == {n \in 0 .. Spans : ~ \E f : Up(f, n)}
<1>1. Chain = 0 .. Spans /\ Spans \in Nat /\ \A n \in Nat : \A r \in 1 .. n : n <= Spans => span[r].in \in 0 .. n - 1
  BY ChainIs
<1>2. D = {}
  <2>1. SUFFICES ASSUME D # {} PROVE FALSE
    OBVIOUS
  <2>2. PICK d \in D : \A e \in D : d <= e
    <3>1. D \in SUBSET Nat
      BY <1>1
    <3> HIDE DEF D
    <3> QED
      BY <2>1, <3>1, Least
  <2>a. d \in Nat /\ d <= Spans
    BY <1>1, <2>2
  <2>3. CASE d = 0
    <3>1. Up([r \in 0 .. 0 |-> 0], 0)
      BY DEF CoreSpan
    <3> QED
      BY <2>2, <2>3, <3>1
  <2>4. CASE d # 0
    <3>1. d - 1 \in 0 .. Spans /\ d - 1 \notin D
      <4> HIDE DEF Up
      <4> QED
        BY <1>1, <2>2, <2>4
    <3>2. PICK f : Up(f, d - 1)
      BY <3>1
    <3> DEFINE g == [r \in 0 .. d |-> IF r # d THEN f[r] ELSE IF Stop(d) THEN d ELSE f[span[d].in]]
    <3>3. \A r \in 0 .. d - 1 : r \in 0 .. d /\ g[r] = f[r] /\ f[r] = IF Stop(r) THEN r ELSE f[span[r].in]
      <4> TAKE r \in 0 .. d - 1
      <4>1. r \in 0 .. d /\ r # d
        BY <2>a
      <4>2. g[r] = f[r]
        BY <4>1
      <4> HIDE DEF g, Stop
      <4>3. f[r] = IF Stop(r) THEN r ELSE f[span[r].in]
        BY <3>2
      <4> QED
        BY <4>1, <4>2, <4>3
    <3>4. \A r \in 0 .. d : g[r] = IF Stop(r) THEN r ELSE g[span[r].in]
      <4> TAKE r \in 0 .. d
      <4>1. CASE r = 0
        <5>1. 0 \in 0 .. d - 1 /\ Stop(0)
          BY <2>a, <2>4 DEF CoreSpan
        <5> HIDE DEF g, Stop
        <5> QED
          BY <3>3, <4>1, <5>1
      <4>2. CASE r \in 1 .. d - 1
        <5>1. span[r].in \in 0 .. d - 1
          BY <1>1, <2>a, <4>2
        <5>2. r \in 0 .. d - 1
          BY <2>a, <4>2
        <5> HIDE DEF g, Stop
        <5> QED
          BY <3>3, <5>1, <5>2
      <4>3. CASE r = d
        <5>1. span[r].in \in 0 .. d - 1 /\ d \in 0 .. d
          BY <1>1, <2>a, <2>4, <4>3
        <5>2. g[d] = IF Stop(d) THEN d ELSE f[span[d].in]
          BY <5>1
        <5> QED
          BY <3>3, <4>3, <5>1, <5>2
      <4> QED
        BY <4>1, <4>2, <4>3, <2>a
    <3>5. Up(g, d)
      <4> DEFINE h == [r \in 0 .. d |-> IF Stop(r) THEN r ELSE g[span[r].in]]
      <4>1. \A r \in 0 .. d : g[r] = h[r]
        BY <3>4
      <4>2. DOMAIN g = 0 .. d /\ DOMAIN h = 0 .. d
        OBVIOUS
      <4> HIDE DEF g, h, Stop
      <4>3. g = [r \in 0 .. d |-> g[r]] /\ h = [r \in 0 .. d |-> h[r]]
        BY <4>2 DEF g, h
      <4>4. g = h
        BY <4>1, <4>3
      <4> QED
        BY <4>4 DEF h
    <3> HIDE DEF g, Up
    <3> QED
      BY <2>2, <3>5
  <2> QED
    BY <2>3, <2>4
<1>3. \E f : f = [r \in {CoreSpan} \cup SpanIds |->
            IF r = CoreSpan \/ span[r].state = "open" THEN r ELSE f[span[r].in]]
  <2>1. \E f : Up(f, Spans)
    <3> HIDE DEF Up
    <3> QED
      BY <1>1, <1>2
  <2> QED
    BY <1>1, <2>1 DEF Chain
<1> DEFINE F(f) == [r \in Chain |-> IF r = CoreSpan \/ span[r].state = "open" THEN r ELSE f[span[r].in]]
           u == CHOOSE f : f = F(f)
<1>4. u = F(u)
  <2>1. \E f : f = F(f)
    BY <1>3 DEF Chain
  <2> HIDE DEF F
  <2> QED
    BY <2>1
<1>5. \A x : ContextOf(x) = u[x]
  BY DEF ContextOf, Chain
<1> HIDE DEF u
<1> QED
  BY <1>4, <1>5
\* Everything a span is in is itself and everything its enclosing one is in.
LEMMA AboveUp ==
    ASSUME SpansTyped, Climbs, NEW s \in Chain
    PROVE  Above[s] = IF s = CoreSpan THEN {CoreSpan} ELSE {s} \cup Above[span[s].in]
<1> DEFINE Stop(r) == r = CoreSpan
           Up(f, n) == f = [r \in 0 .. n |-> IF Stop(r) THEN {CoreSpan} ELSE {r} \cup f[span[r].in]]
           D == {n \in 0 .. Spans : ~ \E f : Up(f, n)}
<1>1. Chain = 0 .. Spans /\ Spans \in Nat /\ \A n \in Nat : \A r \in 1 .. n : n <= Spans => span[r].in \in 0 .. n - 1
  BY ChainIs
<1>2. D = {}
  <2>1. SUFFICES ASSUME D # {} PROVE FALSE
    OBVIOUS
  <2>2. PICK d \in D : \A e \in D : d <= e
    <3>1. D \in SUBSET Nat
      BY <1>1
    <3> HIDE DEF D
    <3> QED
      BY <2>1, <3>1, Least
  <2>a. d \in Nat /\ d <= Spans
    BY <1>1, <2>2
  <2>3. CASE d = 0
    <3>1. Up([r \in 0 .. 0 |-> {CoreSpan}], 0)
      BY DEF CoreSpan
    <3> QED
      BY <2>2, <2>3, <3>1
  <2>4. CASE d # 0
    <3>1. d - 1 \in 0 .. Spans /\ d - 1 \notin D
      <4> HIDE DEF Up
      <4> QED
        BY <1>1, <2>2, <2>4
    <3>2. PICK f : Up(f, d - 1)
      BY <3>1
    <3> DEFINE g == [r \in 0 .. d |-> IF r # d THEN f[r] ELSE IF Stop(d) THEN {CoreSpan} ELSE {d} \cup f[span[d].in]]
    <3>3. \A r \in 0 .. d - 1 : r \in 0 .. d /\ g[r] = f[r] /\ f[r] = IF Stop(r) THEN {CoreSpan} ELSE {r} \cup f[span[r].in]
      <4> TAKE r \in 0 .. d - 1
      <4>1. r \in 0 .. d /\ r # d
        BY <2>a
      <4>2. g[r] = f[r]
        BY <4>1
      <4> HIDE DEF g, Stop
      <4>3. f[r] = IF Stop(r) THEN {CoreSpan} ELSE {r} \cup f[span[r].in]
        BY <3>2
      <4> QED
        BY <4>1, <4>2, <4>3
    <3>4. \A r \in 0 .. d : g[r] = IF Stop(r) THEN {CoreSpan} ELSE {r} \cup g[span[r].in]
      <4> TAKE r \in 0 .. d
      <4>1. CASE r = 0
        <5>1. 0 \in 0 .. d - 1 /\ Stop(0)
          BY <2>a, <2>4 DEF CoreSpan
        <5> HIDE DEF g, Stop
        <5> QED
          BY <3>3, <4>1, <5>1
      <4>2. CASE r \in 1 .. d - 1
        <5>1. span[r].in \in 0 .. d - 1
          BY <1>1, <2>a, <4>2
        <5>2. r \in 0 .. d - 1
          BY <2>a, <4>2
        <5> HIDE DEF g, Stop
        <5> QED
          BY <3>3, <5>1, <5>2
      <4>3. CASE r = d
        <5>1. span[r].in \in 0 .. d - 1 /\ d \in 0 .. d
          BY <1>1, <2>a, <2>4, <4>3
        <5>2. g[d] = IF Stop(d) THEN {CoreSpan} ELSE {d} \cup f[span[d].in]
          BY <5>1
        <5> QED
          BY <3>3, <4>3, <5>1, <5>2
      <4> QED
        BY <4>1, <4>2, <4>3, <2>a
    <3>5. Up(g, d)
      <4> DEFINE h == [r \in 0 .. d |-> IF Stop(r) THEN {CoreSpan} ELSE {r} \cup g[span[r].in]]
      <4>1. \A r \in 0 .. d : g[r] = h[r]
        BY <3>4
      <4>2. DOMAIN g = 0 .. d /\ DOMAIN h = 0 .. d
        OBVIOUS
      <4> HIDE DEF g, h, Stop
      <4>3. g = [r \in 0 .. d |-> g[r]] /\ h = [r \in 0 .. d |-> h[r]]
        BY <4>2 DEF g, h
      <4>4. g = h
        BY <4>1, <4>3
      <4> QED
        BY <4>4 DEF h
    <3> HIDE DEF g, Up
    <3> QED
      BY <2>2, <3>5
  <2> QED
    BY <2>3, <2>4
<1>3. \E f : f = [r \in {CoreSpan} \cup SpanIds |->
            IF r = CoreSpan THEN {CoreSpan} ELSE {r} \cup f[span[r].in]]
  <2>1. \E f : Up(f, Spans)
    <3> HIDE DEF Up
    <3> QED
      BY <1>1, <1>2
  <2> QED
    BY <1>1, <2>1 DEF Chain
<1> DEFINE F(f) == [r \in Chain |-> IF r = CoreSpan THEN {CoreSpan} ELSE {r} \cup f[span[r].in]]
           u == CHOOSE f : f = F(f)
<1>4. u = F(u)
  <2>1. \E f : f = F(f)
    BY <1>3 DEF Chain
  <2> HIDE DEF F
  <2> QED
    BY <2>1
<1>5. Above = u
  BY DEF Above, Chain
<1> HIDE DEF u
<1> QED
  BY <1>4, <1>5

\* A span is among those above it, and so is the core's; none is after it.
LEMMA AboveFacts ==
    ASSUME SpansTyped, Climbs, NEW s \in Chain
    PROVE  s \in Above[s] /\ CoreSpan \in Above[s] /\ Above[s] \subseteq 0 .. s
<1> DEFINE P(x) == x \in Above[x] /\ CoreSpan \in Above[x] /\ Above[x] \subseteq 0 .. x
           D == {x \in Chain : ~P(x)}
<1>1. Chain = 0 .. Spans /\ Spans \in Nat /\ \A x \in SpanIds : span[x].in \in Chain /\ span[x].in < x
  BY ChainIs
<1>2. D \in SUBSET Nat
  BY <1>1
<1>3. SUFFICES ASSUME D # {} PROVE FALSE
  OBVIOUS
<1>4. PICK d \in D : \A e \in D : d <= e
  <2> HIDE DEF D
  <2> QED
    BY <1>2, <1>3, Least
<1>5. CASE d = CoreSpan
  <2>1. Above[d] = {CoreSpan}
    BY <1>4, <1>5, AboveUp
  <2> QED
    BY <1>4, <1>5, <2>1 DEF CoreSpan
<1>6. CASE d # CoreSpan
  <2>1. Above[d] = {d} \cup Above[span[d].in]
    BY <1>4, <1>6, AboveUp
  <2>2. d \in SpanIds /\ d \in Nat
    BY <1>2, <1>4, <1>6 DEF Chain
  <2>3. span[d].in \in Chain /\ span[d].in < d
    BY <1>1, <2>2
  <2>4. P(span[d].in)
    <3> HIDE DEF P
    <3> QED
      BY <1>1, <1>2, <1>4, <2>2, <2>3
  <2> QED
    BY <1>1, <1>4, <2>1, <2>2, <2>3, <2>4
<1> QED
  BY <1>5, <1>6

\* What a span not closed is in is not closed.
Nested == \A s \in SpanIds : s \in Enclosing => span[s].in \in Enclosing

\* The nearest span admitted among those s is in.
IsNearest(n, s) ==
    /\ n \in Above[s] \cap (Admitted \cup {CoreSpan})
    /\ \A m \in Above[s] \cap Admitted : m <= n

\* What the SDK takes for the context of a span not closed is the nearest.
LEMMA ContextIsNearest ==
    ASSUME SpansTyped, Climbs, Nested, NEW s \in Enclosing
    PROVE  IsNearest(ContextOf(s), s) /\ ContextOf(s) \in Chain
<1> DEFINE P(x) == x \in Enclosing => IsNearest(ContextOf(x), x)
           D == {x \in Chain : ~P(x)}
<1>1. Chain = 0 .. Spans /\ Spans \in Nat /\ \A x \in SpanIds : span[x].in \in Chain /\ span[x].in < x
  BY ChainIs
<1>2. Enclosing \subseteq Chain /\ D \in SUBSET Nat
  BY <1>1 DEF Enclosing, Chain
<1>3. ASSUME D # {} PROVE FALSE
  <2>1. PICK d \in D : \A e \in D : d <= e
    <3> HIDE DEF D
    <3> QED
      BY <1>2, <1>3, Least
  <2>2. d \in Chain /\ d \in Nat /\ d \in Enclosing /\ ~IsNearest(ContextOf(d), d)
    BY <1>2, <2>1
  <2>3. Above[d] \subseteq 0 .. d /\ d \in Above[d]
    BY <2>2, AboveFacts
  <2>4. CASE d = CoreSpan
    <3>1. ContextOf(d) = d
      BY <2>2, <2>4, ContextUp
    <3>2. \A m \in Above[d] \cap Admitted : m <= d
      BY <2>3
    <3> QED
      BY <2>2, <2>3, <2>4, <3>1, <3>2 DEF IsNearest
  <2>5. CASE d # CoreSpan /\ span[d].state = "open"
    <3>1. ContextOf(d) = d
      BY <2>2, <2>5, ContextUp
    <3>2. \A m \in Above[d] \cap Admitted : m <= d
      BY <2>3
    <3>3. d \in Admitted
      BY <2>2, <2>5 DEF Admitted, Chain
    <3> QED
      BY <2>2, <2>3, <3>1, <3>2, <3>3 DEF IsNearest
  <2>6. CASE d # CoreSpan /\ span[d].state # "open"
    <3>1. ContextOf(d) = ContextOf(span[d].in)
      BY <2>2, <2>6, ContextUp
    <3>2. Above[d] = {d} \cup Above[span[d].in]
      BY <2>2, <2>6, AboveUp
    <3>3. d \in SpanIds
      BY <2>2, <2>6 DEF Chain
    <3>4. span[d].in \in Enclosing /\ span[d].in \in Chain /\ span[d].in < d
      BY <1>1, <2>2, <3>3 DEF Nested
    <3>5. IsNearest(ContextOf(span[d].in), span[d].in)
      <4>1. span[d].in \notin D
        <5> HIDE DEF D
        <5> QED
          BY <1>1, <1>2, <2>1, <2>2, <3>4
      <4> QED
        BY <3>4, <4>1
    <3>6. d \notin Admitted
      BY <2>2, <2>6 DEF Admitted, Enclosing, CoreSpan
    <3> QED
      BY <2>2, <3>1, <3>2, <3>5, <3>6 DEF IsNearest
  <2> QED
    BY <2>4, <2>5, <2>6
<1>4. IsNearest(ContextOf(s), s)
  BY <1>2, <1>3
<1> QED
  BY <1>4 DEF IsNearest, Chain, Admitted

\* The nearest is one.
LEMMA NearestIs ==
    ASSUME SpansTyped, Climbs, NEW s \in Chain, NEW n, IsNearest(n, s)
    PROVE  Nearest(s) = n
<1> DEFINE N(x) == x \in Above[s] \cap (Admitted \cup {CoreSpan}) /\ \A m \in Above[s] \cap Admitted : m <= x
<1>1. Above[s] \subseteq Nat
  BY AboveFacts, ChainIs
<1>2. \A x, y : N(x) /\ N(y) => x = y
  <2> SUFFICES ASSUME NEW x, NEW y, N(x), N(y) PROVE x = y
    OBVIOUS
  <2>1. CASE x \in Admitted /\ y \in Admitted
    BY <1>1, <2>1
  <2>2. CASE x \notin Admitted /\ y \notin Admitted
    BY <2>2
  <2>3. CASE x \in Admitted /\ y \notin Admitted
    BY <1>1, <2>3 DEF CoreSpan, Admitted, SpanIds
  <2>4. CASE x \notin Admitted /\ y \in Admitted
    BY <1>1, <2>4 DEF CoreSpan, Admitted, SpanIds
  <2> QED
    BY <2>1, <2>2, <2>3, <2>4
<1>3. N(n)
  BY DEF IsNearest
<1>4. Nearest(s) = CHOOSE x \in Above[s] \cap (Admitted \cup {CoreSpan}) : \A m \in Above[s] \cap Admitted : m <= x
  BY DEF Nearest
<1> QED
  BY <1>2, <1>3, <1>4

\* A span in the chain of one already opened was opened.
Opened(s) == s = CoreSpan \/ span[s].state # "none"

\* The same of every span, to be read of the next state too.
LEMMA AboveUpAll ==
    SpansTyped /\ Climbs =>
        \A x \in Chain : Above[x] = IF x = CoreSpan THEN {CoreSpan} ELSE {x} \cup Above[span[x].in]
BY AboveUp

\* As spans change state, and new ones are opened, what an old one is in does not change.
LEMMA AboveKept ==
    ASSUME SpansTyped, Climbs, SpansTyped', Climbs',
           \A x \in SpanIds : Opened(span[x].in),
           \A x \in SpanIds : Opened(x) => span'[x].in = span[x].in,
           NEW s \in Chain, Opened(s)
    PROVE  Above'[s] = Above[s] /\ \A m \in Above[s] : Opened(m)
<1> DEFINE P(x) == Opened(x) => Above'[x] = Above[x] /\ \A m \in Above[x] : Opened(m)
           D == {x \in Chain : ~P(x)}
<1>1. Chain = 0 .. Spans /\ Spans \in Nat /\ \A x \in SpanIds : span[x].in \in Chain /\ span[x].in < x
  BY ChainIs
<1>2. D \in SUBSET Nat /\ Chain' = Chain
  BY <1>1 DEF Chain
<1>3. SUFFICES ASSUME D # {} PROVE FALSE
  OBVIOUS
<1>4. PICK d \in D : \A e \in D : d <= e
  <2> HIDE DEF D
  <2> QED
    BY <1>2, <1>3, Least
<1>5. Opened(d) /\ d \in Nat /\ d \in Chain
  BY <1>2, <1>4
<1>a. \A x \in Chain : Above'[x] = IF x = CoreSpan THEN {CoreSpan} ELSE {x} \cup Above'[span'[x].in]
  <2>1. (\A x \in Chain : Above[x] = IF x = CoreSpan THEN {CoreSpan} ELSE {x} \cup Above[span[x].in])'
    BY AboveUpAll, PTL
  <2> QED
    BY <2>1, <1>2
<1>6. CASE d = CoreSpan
  <2>1. Above[d] = {CoreSpan} /\ Above'[d] = {CoreSpan}
    BY <1>4, <1>5, <1>6, <1>a, AboveUp
  <2> QED
    BY <1>4, <1>5, <1>6, <2>1 DEF Opened
<1>7. CASE d # CoreSpan
  <2>1. d \in SpanIds /\ span'[d].in = span[d].in
    BY <1>4, <1>5, <1>7 DEF Chain
  <2>2. Above[d] = {d} \cup Above[span[d].in]
    BY <1>5, <1>7, AboveUp
  <2>3. Above'[d] = {d} \cup Above'[span[d].in]
    BY <1>5, <1>7, <1>a, <2>1
  <2>4. P(span[d].in)
    <3>1. span[d].in \in Chain /\ span[d].in < d
      BY <1>1, <2>1
    <3> HIDE DEF P
    <3> QED
      BY <1>1, <1>2, <1>4, <1>5, <3>1
  <2>5. Opened(span[d].in)
    BY <2>1
  <2> QED
    BY <1>4, <1>5, <2>2, <2>3, <2>4, <2>5
<1> QED
  BY <1>6, <1>7

PluginTyped ==
    /\ settings \in [on : BOOLEAN, signals : SUBSET Signals, sampled : BOOLEAN] /\ mode \in Modes
    /\ plugin \in {"working", "concluding", "left", "killed"}
    /\ budget \in 0..Budget /\ measured \in 0..Points
LogTyped == log \in Seq(LineType)
CountsTyped ==
    /\ series \in [Instruments -> Nat] /\ gathered \in Nat /\ beyond \in Nat
    /\ lost \in [Kinds -> Nat]
WriterTyped ==
    writer \in [state : {"idle", "messages", "counting", "metrics"}, batch : Seq(Message), own : Seq(Message), final : BOOLEAN]
HeldTyped == held \in Seq(Message) /\ overflow \in BOOLEAN
TalkTyped == value \in {"none", "fetched", "heard"} /\ talk \in {"on", "ok", "failed"}
OutTyped ==
    /\ bare \subseteq 1 .. Len(log)
    /\ out \in [spans : SUBSET SpanIds, logs : SUBSET (1 .. Len(log)), points : Nat, beyond : Nat, lost : [Kinds -> Nat]]
QueueTyped == queued \subseteq Signals /\ crowded \in [{"traces", "logs"} -> SUBSET Nat]
EndTyped ==
    /\ QueueTyped /\ exporter \in [Signals -> {"well", "failing", "hung"}]
    /\ phase \in {"on", "flushing", "ended"}

\* The type invariant, by parts.
LEMMA TypesAre ==
    TypeOK <=> /\ PluginTyped /\ SpansTyped /\ LogTyped /\ pending \in Seq(Message) /\ CountsTyped
               /\ WriterTyped /\ HeldTyped /\ TalkTyped /\ OutTyped /\ EndTyped
BY DEF TypeOK, PluginTyped, SpansTyped, LogTyped, CountsTyped, WriterTyped, HeldTyped, TalkTyped, OutTyped, EndTyped,
       QueueTyped

\* The spans form a tree that grows downward.
Shape ==
    /\ Climbs /\ Nested
    /\ \A s, r \in SpanIds : r < s /\ span[r].state = "none" => span[s].state = "none"
    /\ \A x \in SpanIds : Opened(span[x].in)

\* The program starts so.
LEMMA SortedInit == Init => Sorted /\ Shape
<1> SUFFICES ASSUME Init PROVE Sorted /\ Shape
  OBVIOUS
<1>a. settings \in [on : BOOLEAN, signals : SUBSET Signals, sampled : BOOLEAN]
  BY DEF Init, Resolved, Selected, TurnedOn, Told, Signals, File, Env, Flags
<1>b. PluginTyped /\ TalkTyped
  BY <1>a, BoundsAssumption DEF Init, PluginTyped, TalkTyped
<1>e. LogTyped /\ pending \in Seq(Message) /\ HeldTyped
  <2>1. log = <<>> /\ pending = <<>> /\ held = <<>> /\ overflow = FALSE
    BY DEF Init
  <2> QED
    BY <2>1, \A S : <<>> \in Seq(S) DEF LogTyped, HeldTyped
<1>f. CountsTyped
  BY DEF Init, CountsTyped, Zero
<1>c. SpansTyped
  BY DEF Init, SpansTyped, SpanType
<1>d. WriterTyped /\ OutTyped /\ EndTyped
  BY DEF Init, WriterTyped, OutTyped, EndTyped, QueueTyped, Idle, Nothing, Zero
<1>1. TypeOK
  BY <1>b, <1>c, <1>d, <1>e, <1>f, TypesAre
<1>2. Routes
  BY DEF Init, Routes, Sound, Idle, Nothing
<1>3. Shape
  BY BoundsAssumption DEF Init, Shape, Climbs, Nested, Opened, Enclosing, SpanIds, CoreSpan
<1> QED
  BY <1>1, <1>2, <1>3 DEF Sorted

\* A span being opened keeps the tree, and what is recorded.
LEMMA OpenSpanSorted == ASSUME Sorted, Shape, OpenSpan PROVE Sorted' /\ Shape' /\ Kept
<1>1. PICK s \in SpanIds, in \in Enclosing, watched \in BOOLEAN :
        /\ span[s].state = "none" /\ \A r \in 1 .. s - 1 : span[r].state # "none"
        /\ LET seen == Recording /\ settings.sampled /\ watched
               admitted == budget < Budget
               state == IF ~seen THEN "unseen" ELSE IF admitted THEN "open" ELSE "over"
           IN /\ span' = [span EXCEPT ![s] = [state |-> state, in |-> in, parent |-> ContextOf(in)]]
              /\ budget' = IF state = "open" THEN budget + 1 ELSE budget
              /\ lost' = IF state = "over" THEN [lost EXCEPT !["spans"] = @ + 1] ELSE lost
  BY DEF OpenSpan
<1>2. UNCHANGED <<static, plugin, log, measured, pending, metrics, writer, value, core>>
  BY DEF OpenSpan
<1>3. SpansTyped /\ PluginTyped /\ CountsTyped /\ LogTyped
  BY TypesAre DEF Sorted
<1>4. PICK state \in {"unseen", "open", "over"} :
        /\ span' = [span EXCEPT ![s] = [state |-> state, in |-> in, parent |-> ContextOf(in)]]
        /\ state = "open" => budget < Budget /\ budget' = budget + 1
        /\ state # "open" => budget' = budget
        /\ lost' = IF state = "over" THEN [lost EXCEPT !["spans"] = @ + 1] ELSE lost
  BY <1>1, Zenon
<1>5. ContextOf(in) \in Chain /\ in \in Chain
  BY <1>1, <1>3, ContextIsNearest DEF Shape, Enclosing, Chain
<1>6. in < s
  BY <1>1, <1>5, BoundsAssumption DEF Shape, Enclosing, Chain, CoreSpan, SpanIds
<1>7. SpansTyped'
  BY <1>1, <1>3, <1>4, <1>5 DEF SpansTyped, SpanType, Chain
<1>8. PluginTyped' /\ CountsTyped'
  <2>1. budget' \in 0 .. Budget
    BY <1>3, <1>4, BoundsAssumption DEF PluginTyped
  <2>2. lost' \in [Kinds -> Nat]
    BY <1>3, <1>4 DEF CountsTyped, Kinds
  <2> QED
    BY <1>2, <1>3, <2>1, <2>2 DEF PluginTyped, CountsTyped, static, metrics
<1>9. TypeOK'
  <2>1. LogTyped' /\ (pending \in Seq(Message))'
    BY <1>2, TypesAre DEF Sorted, LogTyped
  <2>2. WriterTyped' /\ HeldTyped' /\ TalkTyped' /\ OutTyped' /\ EndTyped'
    BY <1>2, TypesAre DEF Sorted, WriterTyped, HeldTyped, TalkTyped, OutTyped, EndTyped, QueueTyped, core
  <2> QED
    BY <1>7, <1>8, <2>1, <2>2, TypesAre, PTL
<1>10. \A x \in SpanIds : x # s => span'[x] = span[x]
  BY <1>3, <1>4 DEF SpansTyped
<1>11. span'[s].in = in /\ span'[s].state = state
  BY <1>3, <1>4 DEF SpansTyped
<1>12. Kept
  BY <1>1, <1>2, <1>3, <1>10 DEF Kept, LogTyped
<1>13. Routes'
  BY <1>2, <1>3, <1>12, SoundKept, TypesAre DEF Sorted, Routes, core, Kept, OutTyped
<1>14. Shape'
  <2>1. Climbs'
    BY <1>6, <1>10, <1>11 DEF Shape, Climbs
  <2>2. \A x \in Enclosing : x \in Enclosing'
    BY <1>1, <1>10 DEF Enclosing
  <2>3. Nested'
    <3>1. ASSUME NEW x \in SpanIds, x \in Enclosing' PROVE span'[x].in \in Enclosing'
      <4>1. CASE x = s
        BY <1>1, <1>11, <2>2, <4>1
      <4>2. CASE x # s
        <5>1. x \in Enclosing
          BY <1>10, <3>1, <4>2 DEF Enclosing
        <5> QED
          BY <1>10, <2>2, <4>2, <5>1 DEF Shape, Nested
      <4> QED
        BY <4>1, <4>2
    <3> QED
      BY <3>1 DEF Nested
  <2>4. (\A x, r \in SpanIds : r < x /\ span[r].state = "none" => span[x].state = "none")'
    <3> SUFFICES ASSUME NEW x \in SpanIds, NEW r \in SpanIds, r < x, span'[r].state = "none"
                 PROVE  span'[x].state = "none"
      OBVIOUS
    <3>1. r # s
      BY <1>11
    <3>2. span[r].state = "none"
      BY <1>10, <3>1
    <3>3. x # s
      BY <1>1, <3>2 DEF SpanIds
    <3> QED
      BY <1>10, <3>2, <3>3 DEF Shape
  <2>5. (\A x \in SpanIds : Opened(span[x].in))'
    <3>1. \A x : Opened(x) /\ x \in Chain => Opened(x)'
      BY <1>10, <1>11 DEF Opened, Chain
    <3>2. Opened(in)
      BY <1>1 DEF Enclosing, Opened
    <3> QED
      BY <1>3, <1>5, <1>10, <1>11, <3>1, <3>2 DEF Shape, SpansTyped, SpanType, Chain
  <2> QED
    BY <2>1, <2>3, <2>4, <2>5 DEF Shape
<1> QED
  BY <1>9, <1>12, <1>13, <1>14 DEF Sorted

\* A span being closed keeps the tree, and what is recorded.
LEMMA CloseSpanSorted == ASSUME Sorted, Shape, CloseSpan PROVE Sorted' /\ Shape' /\ Kept
<1>1. PICK s \in SpanIds :
        /\ s \in Enclosing
        /\ \A c \in SpanIds : span[c].in = s => c \notin Enclosing
        /\ span' = [span EXCEPT ![s].state =
               CASE @ = "open" -> IF Len(pending) < MaxPending THEN "closed" ELSE "shed"
                 [] @ = "over" -> "dropped"
                 [] @ = "unseen" -> "gone"]
        /\ IF span[s].state = "open" THEN Push([signal |-> "traces", id |-> s], "spans")
                                     ELSE UNCHANGED <<pending, lost>>
  BY DEF CloseSpan
<1>2. UNCHANGED <<static, plugin, budget, log, measured, metrics, writer, value, core>>
  BY DEF CloseSpan
<1>3. SpansTyped /\ CountsTyped /\ LogTyped /\ pending \in Seq(Message) /\ Sound(pending, log, span)
  BY TypesAre DEF Sorted, Routes
<1>4. span[s].state \in {"open", "over", "unseen"}
  BY <1>1 DEF Enclosing, SpanIds, CoreSpan
<1>5. PICK state \in {"closed", "shed", "dropped", "gone"} :
        /\ span' = [span EXCEPT ![s].state = state]
        /\ span[s].state = "open" => state = IF Len(pending) < MaxPending THEN "closed" ELSE "shed"
  BY <1>1, <1>4
<1>6. /\ \A x \in SpanIds : x # s => span'[x] = span[x]
      /\ span'[s] = [span[s] EXCEPT !.state = state]
      /\ span'[s].state = state /\ \A x \in SpanIds : span'[x].in = span[x].in
  BY <1>3, <1>5 DEF SpansTyped, SpanType
<1>7. SpansTyped'
  BY <1>3, <1>5, <1>6 DEF SpansTyped, SpanType
<1>8. Kept
  BY <1>2, <1>3, <1>4, <1>6 DEF Kept, LogTyped
<1>9. Sound(pending', log', span') /\ lost' \in [Kinds -> Nat]
  <2>1. Sound(pending, log', span')
    BY <1>3, <1>8, SoundKept DEF Sorted
  <2>2. CASE UNCHANGED <<pending, lost>>
    BY <1>3, <2>1, <2>2 DEF CountsTyped
  <2>3. CASE span[s].state = "open" /\ Len(pending) >= MaxPending
    BY <1>1, <1>3, <2>1, <2>3 DEF Push, CountsTyped, Kinds
  <2>4. CASE span[s].state = "open" /\ ~(Len(pending) >= MaxPending)
    <3> DEFINE m == [signal |-> "traces", id |-> s]
    <3>1. pending' = Append(pending, m) /\ UNCHANGED lost
      BY <1>1, <2>4 DEF Push
    <3>2. Len(pending) < MaxPending
      BY <1>3, <2>4, BoundsAssumption
    <3>3. Known(m, log', span')
      <4>1. m \in Message
        BY Messages
      <4> QED
        BY <1>5, <1>6, <2>4, <3>2, <4>1 DEF Known
    <3> QED
      BY <1>3, <2>1, <3>1, <3>3, SoundQueues DEF CountsTyped
  <2> QED
    BY <1>1, <2>2, <2>3, <2>4
<1>10. TypeOK'
  <2>1. PluginTyped' /\ LogTyped' /\ CountsTyped' /\ (pending \in Seq(Message))'
    BY <1>2, <1>9, TypesAre DEF Sorted, Sound, PluginTyped, LogTyped, CountsTyped, static, metrics
  <2>2. WriterTyped' /\ HeldTyped' /\ TalkTyped' /\ OutTyped' /\ EndTyped'
    BY <1>2, TypesAre DEF Sorted, WriterTyped, HeldTyped, TalkTyped, OutTyped, EndTyped, QueueTyped, core
  <2> QED
    BY <1>7, <2>1, <2>2, TypesAre, PTL
<1>11. Routes'
  BY <1>2, <1>8, <1>9, SoundKept, TypesAre DEF Sorted, Routes, core, Kept, OutTyped
<1>12. Shape'
  <2>1. Climbs'
    BY <1>6 DEF Shape, Climbs
  <2>2. \A x \in SpanIds : Opened(x)' <=> Opened(x)
    BY <1>4, <1>6 DEF Opened
  <2>3. Nested'
    <3>1. ASSUME NEW x \in SpanIds, x \in Enclosing' PROVE span'[x].in \in Enclosing'
      <4>1. x # s
        BY <1>5, <1>6, <3>1 DEF Enclosing, SpanIds, CoreSpan
      <4>2. x \in Enclosing
        BY <1>6, <3>1, <4>1 DEF Enclosing
      <4>3. span[x].in \in Enclosing /\ span[x].in # s
        BY <1>1, <4>2 DEF Shape, Nested
      <4> QED
        BY <1>6, <4>3 DEF Enclosing
    <3> QED
      BY <3>1 DEF Nested
  <2>4. (\A x, r \in SpanIds : r < x /\ span[r].state = "none" => span[x].state = "none")'
    BY <1>4, <1>6 DEF Shape
  <2>5. (\A x \in SpanIds : Opened(span[x].in))'
    BY <1>3, <1>6, <2>2 DEF Shape, SpansTyped, SpanType, Opened
  <2> QED
    BY <2>1, <2>3, <2>4, <2>5 DEF Shape
<1> QED
  BY <1>10, <1>11, <1>12, <1>8 DEF Sorted

\* A step that opens and closes no span keeps the tree.
LEMMA ShapeStill == Shape /\ UNCHANGED span => Shape'
BY DEF Shape, Climbs, Nested, Opened, Enclosing

\* A line has the type of the log's.
LEMMA LineTyped ==
    ASSUME Sorted, Shape, NEW in \in Enclosing, NEW loud \in BOOLEAN
    PROVE  Line(in, loud) \in LineType
<1>1. ContextOf(in) \in Chain /\ in \in Chain
  BY ContextIsNearest, TypesAre DEF Sorted, Shape, Enclosing, Chain
<1> QED
  BY <1>1 DEF Line, LineType, Chain

\* The next second keeps them.
LEMMA NextSecondSorted == ASSUME Sorted, Shape, NextSecond PROVE Sorted' /\ Shape' /\ Kept
<1>1. UNCHANGED <<static, plugin, span, log, measured, pending, metrics, lost, writer, value, core>> /\ budget' = 0
  BY DEF NextSecond
<1>2. PluginTyped'
  BY <1>1, BoundsAssumption, TypesAre DEF Sorted, PluginTyped, static
<1>3. SpansTyped' /\ LogTyped' /\ (pending \in Seq(Message))' /\ CountsTyped'
  BY <1>1, TypesAre DEF Sorted, SpansTyped, LogTyped, CountsTyped, metrics
<1>4. WriterTyped' /\ HeldTyped' /\ TalkTyped' /\ OutTyped' /\ EndTyped'
  BY <1>1, TypesAre DEF Sorted, WriterTyped, HeldTyped, TalkTyped, OutTyped, EndTyped, QueueTyped, core
<1>5. TypeOK'
  BY <1>2, <1>3, <1>4, TypesAre, PTL
<1>6. Kept
  BY <1>1, TypesAre DEF Sorted, Kept, LogTyped
<1>7. Routes'
  BY <1>1, <1>6, SoundKept DEF Sorted, Routes, core
<1> QED
  BY <1>1, <1>5, <1>6, <1>7, ShapeStill DEF Sorted

\* A line logged keeps them.
LEMMA EventSorted == ASSUME Sorted, Shape, Event PROVE Sorted' /\ Shape' /\ Kept
<1>1. UNCHANGED <<static, plugin, span, budget, measured, metrics, writer, value, core>>
  BY DEF Event
<1>2. PICK in \in Enclosing : log' = Append(log, Line(in, TRUE))
  BY DEF Event
<1>3. LogTyped /\ pending \in Seq(Message) /\ Sound(pending, log, span)
  BY TypesAre DEF Sorted, Routes
<1>4. log' \in Seq(LineType) /\ Len(log') = Len(log) + 1
  <2>1. Line(in, TRUE) \in LineType
    BY LineTyped
  <2>2. PICK line \in LineType : log' = Append(log, line)
    BY <1>2, <2>1, Zenon
  <2> QED
    BY <1>3, <2>2 DEF LogTyped
<1>5. Kept
  BY <1>1, <1>3, <1>4 DEF Kept, LogTyped
<1>6. Sound(pending', log', span') /\ CountsTyped'
  <2> DEFINE m == [signal |-> "logs", id |-> Len(log) + 1]
  <2>1. Sound(pending, log', span')
    BY <1>3, <1>5, SoundKept DEF Sorted
  <2>2. Push(m, "logs")
    BY DEF Event
  <2>3. Known(m, log', span')
    <3>1. Len(log) + 1 \in Nat /\ Len(log) + 1 \in 1 .. Len(log')
      BY <1>3, <1>4 DEF LogTyped
    <3>2. m \in Message
      BY <3>1, Messages
    <3> QED
      BY <3>1, <3>2 DEF Known
  <2> HIDE DEF m
  <2>4. CASE Len(pending) >= MaxPending
    BY <1>1, <2>1, <2>2, <2>4, TypesAre DEF Sorted, Push, CountsTyped, metrics, Kinds
  <2>5. CASE ~(Len(pending) >= MaxPending)
    BY <1>1, <2>1, <2>2, <2>3, <2>5, SoundQueues, TypesAre DEF Sorted, Push, CountsTyped, metrics
  <2> QED
    BY <2>4, <2>5
<1>7. PluginTyped' /\ SpansTyped' /\ LogTyped' /\ (pending \in Seq(Message))' /\ CountsTyped'
  BY <1>1, <1>4, <1>6, TypesAre DEF Sorted, PluginTyped, SpansTyped, LogTyped, Sound, static
<1>8. WriterTyped' /\ HeldTyped' /\ TalkTyped' /\ EndTyped'
  BY <1>1, TypesAre DEF Sorted, WriterTyped, HeldTyped, TalkTyped, EndTyped, QueueTyped, core
<1>9. OutTyped'
  BY <1>1, <1>3, <1>4, TypesAre DEF Sorted, OutTyped, core, LogTyped
<1>10. TypeOK'
  BY <1>7, <1>8, <1>9, TypesAre, PTL
<1>11. Routes'
  BY <1>1, <1>5, <1>6, SoundKept DEF Sorted, Routes, core
<1> QED
  BY <1>1, <1>5, <1>10, <1>11, ShapeStill DEF Sorted

\* A measurement keeps them.
LEMMA RecordMetricSorted == ASSUME Sorted, Shape, RecordMetric PROVE Sorted' /\ Shape' /\ Kept
<1>1. UNCHANGED <<static, plugin, span, budget, log, pending, writer, value, core>>
  BY DEF RecordMetric
<1>2. PluginTyped'
  BY <1>1, BoundsAssumption, TypesAre DEF Sorted, PluginTyped, static, RecordMetric
<1>3. CountsTyped'
  BY TypesAre DEF Sorted, RecordMetric, CountsTyped, metrics, Aggregate, Kinds
<1>4. SpansTyped' /\ LogTyped' /\ (pending \in Seq(Message))'
  BY <1>1, TypesAre DEF Sorted, SpansTyped, LogTyped
<1>5. WriterTyped' /\ HeldTyped' /\ TalkTyped' /\ OutTyped' /\ EndTyped'
  BY <1>1, TypesAre DEF Sorted, WriterTyped, HeldTyped, TalkTyped, OutTyped, EndTyped, QueueTyped, core
<1>6. TypeOK'
  BY <1>2, <1>3, <1>4, <1>5, TypesAre, PTL
<1>7. Kept
  BY <1>1, TypesAre DEF Sorted, Kept, LogTyped
<1>8. Routes'
  BY <1>1, <1>7, SoundKept DEF Sorted, Routes, core
<1> QED
  BY <1>1, <1>6, <1>7, <1>8, ShapeStill DEF Sorted

\* The start of a write keeps them.
LEMMA BeginWriteSorted == ASSUME Sorted, Shape, BeginWrite PROVE Sorted' /\ Shape' /\ Kept
<1>1. UNCHANGED <<static, recorder, metrics, lost, value, core>> /\ pending' = <<>>
  BY DEF BeginWrite
<1>2. PICK own \in BOOLEAN, loud \in BOOLEAN, final \in BOOLEAN, in \in Enclosing :
        /\ log' = IF own THEN Append(log, Line(in, loud)) ELSE log
        /\ plugin' = IF final THEN "concluding" ELSE plugin
        /\ writer' = [state |-> "messages", batch |-> pending, final |-> final,
                      own |-> IF own THEN <<[signal |-> "logs", id |-> Len(log) + 1]>> ELSE <<>>]
  BY DEF BeginWrite
<1>3. LogTyped /\ pending \in Seq(Message) /\ Sound(pending, log, span)
  BY TypesAre DEF Sorted, Routes
<1>4. log' \in Seq(LineType) /\ Len(log') = IF own THEN Len(log) + 1 ELSE Len(log)
  BY <1>2, <1>3, LineTyped DEF LogTyped
<1>5. Kept
  BY <1>1, <1>3, <1>4 DEF Kept, LogTyped, recorder
<1>6. Sound(writer'.own, log', span')
  <2> DEFINE m == [signal |-> "logs", id |-> Len(log) + 1]
  <2>1. CASE own
    <3>1. Len(log) + 1 \in Nat /\ Len(log) + 1 \in 1 .. Len(log')
      BY <1>3, <1>4, <2>1 DEF LogTyped
    <3>2. m \in Message
      BY <3>1, Messages
    <3>3. Known(m, log', span')
      BY <3>1, <3>2 DEF Known
    <3>4. writer'.own = <<m>>
      BY <1>2, <2>1
    <3> QED
      BY <3>3, <3>4, SoundQueues
  <2>2. CASE ~own
    BY <1>2, <2>2, SoundQueues
  <2> QED
    BY <2>1, <2>2
<1>7. Sound(writer'.batch, log', span')
  BY <1>2, <1>3, <1>5, SoundKept DEF Sorted
<1>8. WriterTyped'
  BY <1>2, <1>6, <1>7 DEF WriterTyped, Sound
<1>9. PluginTyped' /\ SpansTyped' /\ LogTyped' /\ CountsTyped'
  BY <1>1, <1>2, <1>4, TypesAre DEF Sorted, PluginTyped, SpansTyped, LogTyped, CountsTyped, static, metrics, recorder
<1>10. HeldTyped' /\ TalkTyped' /\ EndTyped'
  BY <1>1, TypesAre DEF Sorted, HeldTyped, TalkTyped, EndTyped, QueueTyped, core
<1>11. OutTyped'
  BY <1>1, <1>3, <1>4, TypesAre DEF Sorted, OutTyped, core, LogTyped
<1>12. (pending \in Seq(Message))'
  BY <1>1
<1>13. TypeOK'
  BY <1>8, <1>9, <1>10, <1>11, <1>12, TypesAre, PTL
<1>14. Routes'
  BY <1>1, <1>2, <1>5, <1>6, <1>7, SoundKept, SoundQueues DEF Sorted, Routes, core, recorder
<1> QED
  BY <1>1, <1>5, <1>13, <1>14, ShapeStill DEF Sorted, recorder

\* What is shown and exported is of its type.
LEMMA ForwardSorted ==
    ASSUME Sorted, UNCHANGED <<span, log>>, NEW msg, Known(msg, log, span), Forward(msg)
    PROVE  /\ OutTyped' /\ QueueTyped'
           /\ \A s \in out'.spans : span[s].state = "closed"
<1>1. OutTyped /\ QueueTyped /\ \A s \in out.spans : span[s].state = "closed"
  BY TypesAre DEF Sorted, Routes, EndTyped
<1>2. /\ msg.signal \in Signals
      /\ msg.signal = "traces" => msg.id \in SpanIds /\ span[msg.id].state = "closed"
      /\ msg.signal = "logs" => msg.id \in 1 .. Len(log)
      /\ msg.signal = "metrics" => msg.points \in Nat /\ msg.beyond \in Nat /\ msg.lost \in [Kinds -> Nat]
  BY Carries DEF Known
<1>3. bare' \subseteq 1 .. Len(log)
  BY <1>1, <1>2 DEF Forward, Quotes, OutTyped
<1>4. CASE UNCHANGED <<out, queued, crowded>>
  BY <1>1, <1>3, <1>4 DEF OutTyped, QueueTyped
<1>5. CASE out' = With(msg) /\ Enqueue(msg)
  <2>a. QueueTyped'
    <3>1. CASE queued' = queued \cup {msg.signal} /\ UNCHANGED crowded
      BY <1>1, <1>2, <3>1 DEF QueueTyped
    <3>2. CASE /\ msg.signal # "metrics" /\ UNCHANGED queued
               /\ crowded' = [crowded EXCEPT ![msg.signal] = @ \cup {msg.id}]
      <4>1. msg.id \in Nat /\ msg.signal \in {"traces", "logs"}
        BY <1>2, <3>2, BoundsAssumption DEF Signals, SpanIds
      <4> QED
        BY <1>1, <3>2, <4>1 DEF QueueTyped
    <3> QED
      BY <1>5, <3>1, <3>2 DEF Enqueue
  <2>1. CASE msg.signal = "traces"
    BY <1>1, <1>2, <1>3, <1>5, <2>a, <2>1 DEF OutTyped, With
  <2>2. CASE msg.signal = "logs"
    BY <1>1, <1>2, <1>3, <1>5, <2>a, <2>2 DEF OutTyped, With
  <2>3. CASE msg.signal = "metrics"
    <3> DEFINE l == [k \in Kinds |-> out.lost[k] + msg.lost[k]]
    <3>1. out' = [out EXCEPT !.points = out.points + msg.points, !.beyond = out.beyond + msg.beyond, !.lost = l]
      BY <1>1, <1>5, <2>3 DEF With, Remeasured, OutTyped
    <3>2. l \in [Kinds -> Nat]
      BY <1>1, <1>2, <2>3 DEF OutTyped
    <3> HIDE DEF l
    <3>3. out'.spans = out.spans /\ out' \in [spans : SUBSET SpanIds, logs : SUBSET (1 .. Len(log)), points : Nat, beyond : Nat, lost : [Kinds -> Nat]]
      <4>1. out \in [spans : SUBSET SpanIds, logs : SUBSET (1 .. Len(log)), points : Nat, beyond : Nat, lost : [Kinds -> Nat]]
        BY <1>1 DEF OutTyped
      <4>2. out' = [spans |-> out.spans, logs |-> out.logs, points |-> out.points + msg.points,
                    beyond |-> out.beyond + msg.beyond, lost |-> l]
        BY <3>1, <4>1
      <4>3. out.points + msg.points \in Nat /\ out.beyond + msg.beyond \in Nat
        BY <1>2, <2>3, <4>1
      <4> QED
        BY <3>2, <4>1, <4>2, <4>3
    <3> QED
      BY <1>1, <1>2, <1>3, <1>5, <2>a, <2>3, <3>3 DEF OutTyped
  <2> QED
    BY <1>2, <2>1, <2>2, <2>3 DEF Signals
<1> QED
  BY <1>4, <1>5 DEF Forward

\* So is what the core holds back.
LEMMA ReadSorted ==
    ASSUME Sorted, UNCHANGED <<span, log>>, NEW msg, Known(msg, log, span), ReadEvent(msg)
    PROVE  /\ OutTyped' /\ QueueTyped' /\ overflow' \in BOOLEAN
           /\ \A s \in out'.spans : span[s].state = "closed"
           /\ Sound(held', log, span)
<1>1. HeldTyped /\ OutTyped /\ EndTyped /\ Routes
  BY TypesAre DEF Sorted
<1>2. CASE mode = "drain" /\ Forward(msg) /\ UNCHANGED <<held, overflow>>
  BY <1>1, <1>2, ForwardSorted DEF HeldTyped, Routes
<1>3. CASE mode = "hold" /\ Hold(msg) /\ UNCHANGED <<bare, out, queued, crowded>>
  <2>1. OutTyped' /\ QueueTyped' /\ \A s \in out'.spans : span[s].state = "closed"
    BY <1>1, <1>3 DEF OutTyped, EndTyped, QueueTyped, Routes
  <2>2. overflow' \in BOOLEAN
    BY <1>3 DEF Hold
  <2>3. Sound(held', log, span)
    BY <1>1, <1>3, SoundQueues DEF Hold, Routes
  <2> QED
    BY <2>1, <2>2, <2>3
<1> QED
  BY <1>2, <1>3 DEF ReadEvent

\* The write of one message keeps them.
LEMMA WriteOneSorted == ASSUME Sorted, Shape, WriteOne PROVE Sorted' /\ Shape' /\ Kept
<1>1. UNCHANGED <<static, plugin, recorder, log, pending, metrics, lost, value, talk, exporter, phase>>
  BY DEF WriteOne
<1>2. /\ writer.batch # <<>> /\ ReadEvent(Head(writer.batch)) /\ writer' = [writer EXCEPT !.batch = Tail(@)]
      /\ writer.state # "counting"
  BY DEF WriteOne
<1>3. Known(Head(writer.batch), log, span) /\ Sound(Tail(writer.batch), log, span)
  BY <1>2, SoundQueues DEF Sorted, Routes
<1>4. /\ OutTyped' /\ QueueTyped' /\ overflow' \in BOOLEAN
      /\ \A s \in out'.spans : span[s].state = "closed"
      /\ Sound(held', log, span)
  BY <1>1, <1>2, <1>3, ReadSorted DEF recorder
<1>5. Kept
  BY <1>1, TypesAre DEF Sorted, Kept, LogTyped, recorder
<1>6. PluginTyped' /\ SpansTyped' /\ LogTyped' /\ (pending \in Seq(Message))' /\ CountsTyped' /\ TalkTyped'
  BY <1>1, TypesAre DEF Sorted, PluginTyped, SpansTyped, LogTyped, CountsTyped, TalkTyped, static, metrics, recorder
<1>7. WriterTyped'
  BY <1>2, <1>3, TypesAre DEF Sorted, WriterTyped, Sound
<1>8. HeldTyped' /\ EndTyped'
  BY <1>1, <1>4, TypesAre DEF Sorted, HeldTyped, EndTyped, Sound
<1>9. TypeOK'
  BY <1>4, <1>6, <1>7, <1>8, TypesAre, PTL
<1>10. Sound(writer'.batch, log, span) /\ writer'.own = writer.own /\ writer'.state # "counting"
  BY <1>2, <1>3, TypesAre DEF Sorted, WriterTyped
<1>11. Routes'
  BY <1>1, <1>4, <1>10 DEF Sorted, Routes, recorder
<1> QED
  BY <1>1, <1>5, <1>9, <1>11, ShapeStill DEF Sorted, recorder

\* The release of a held message keeps them.
LEMMA ReleaseHeldSorted == ASSUME Sorted, Shape, ReleaseHeld PROVE Sorted' /\ Shape' /\ Kept
<1>1. UNCHANGED <<memory, plugin, value, overflow, talk, exporter, phase>>
  BY DEF ReleaseHeld
<1>2. Known(Head(held), log, span) /\ Sound(Tail(held), log, span) /\ held' = Tail(held) /\ Forward(Head(held))
  BY SoundQueues DEF Sorted, Routes, ReleaseHeld
<1>3. /\ OutTyped' /\ QueueTyped'
      /\ \A s \in out'.spans : span[s].state = "closed"
  BY <1>1, <1>2, ForwardSorted DEF recorder, memory
<1>5. Kept
  BY <1>1, TypesAre DEF Sorted, Kept, LogTyped, recorder, memory
<1>6. /\ PluginTyped' /\ SpansTyped' /\ LogTyped' /\ (pending \in Seq(Message))' /\ CountsTyped' /\ TalkTyped'
      /\ WriterTyped'
  BY <1>1, TypesAre DEF Sorted, PluginTyped, SpansTyped, LogTyped, CountsTyped, TalkTyped, WriterTyped, static, metrics,
     recorder, memory
<1>8. HeldTyped' /\ EndTyped'
  BY <1>1, <1>2, <1>3, TypesAre DEF Sorted, HeldTyped, EndTyped, Sound
<1>9. TypeOK'
  BY <1>3, <1>6, <1>8, TypesAre, PTL
<1>11. Routes'
  BY <1>1, <1>2, <1>3 DEF Sorted, Routes, recorder, memory
<1> QED
  BY <1>1, <1>5, <1>9, <1>11, ShapeStill DEF Sorted, recorder, memory

\* The delta, its counters read: the series taken before, or nothing.
LEMMA DeltaIs ==
    ASSUME NEW p \in Nat, NEW b \in Nat, writer.batch = <<Fresh(p, b)>>
    PROVE  \/ Delta = <<[signal |-> "metrics", points |-> p, beyond |-> b, lost |-> lost]>>
           \/ /\ Delta = <<>>
              /\ settings.on => p + b = 0 /\ \A k \in Kinds : ~(lost[k] > 0)
<1>1. Head(writer.batch).points = p /\ Head(writer.batch).beyond = b
  BY DEF Fresh
<1>2. p + b > 0 \/ p + b = 0
  OBVIOUS
<1> QED
  BY <1>1, <1>2 DEF Delta

\* It is sound.
LEMMA DeltaSound ==
    ASSUME Routes, writer.state = "counting", lost \in [Kinds -> Nat]
    PROVE  Sound(Delta, log, span)
<1>1. PICK p \in Nat, b \in Nat : writer.batch = <<Fresh(p, b)>>
  BY DEF Routes
<1> DEFINE m == [signal |-> "metrics", points |-> p, beyond |-> b, lost |-> lost]
<1>2. m \in Message /\ m.signal = "metrics"
  BY Messages
<1>3. Known(m, log, span)
  BY <1>2 DEF Known
<1>4. Delta = <<m>> \/ Delta = <<>>
  BY <1>1, DeltaIs
<1> HIDE DEF m
<1> QED
  BY <1>3, <1>4, SoundQueues

\* The delta of the metrics keeps them.
LEMMA WriteMetricsSorted == ASSUME Sorted, Shape, WriteMetrics PROVE Sorted' /\ Shape' /\ Kept
<1>1. UNCHANGED <<static, plugin, recorder, log, pending, value, core>>
  BY DEF WriteMetrics
<1>2. CountsTyped /\ WriterTyped /\ Routes
  BY TypesAre DEF Sorted
<1>3. ASSUME TakeSeries PROVE WriterTyped' /\ CountsTyped' /\ Routes'
  <2>1. Fresh(gathered, beyond) \in Message /\ Fresh(gathered, beyond).signal = "metrics"
    BY <1>2, Messages DEF CountsTyped, Fresh
  <2>2. Known(Fresh(gathered, beyond), log, span)
    BY <2>1 DEF Known
  <2>3. Sound(<<Fresh(gathered, beyond)>>, log, span)
    BY <2>2, SoundQueues
  <2>4. writer' = [writer EXCEPT !.state = "counting", !.batch = <<Fresh(gathered, beyond)>>]
    BY <1>3 DEF TakeSeries, Fresh
  <2>5. <<Fresh(gathered, beyond)>> \in Seq(Message)
    BY <2>1
  <2>6. WriterTyped' /\ writer'.own = writer.own /\ writer'.batch = <<Fresh(gathered, beyond)>>
    BY <1>2, <2>4, <2>5 DEF WriterTyped
  <2>7. CountsTyped'
    BY <1>1, <1>2, <1>3 DEF TakeSeries, CountsTyped, WriteMetrics
  <2>8. Routes'
    BY <1>1, <1>2, <2>3, <2>6 DEF Routes, recorder, core, CountsTyped
  <2> QED
    BY <2>6, <2>7, <2>8
<1>4. ASSUME writer' = [writer EXCEPT !.state = "metrics"], UNCHANGED metrics
      PROVE  WriterTyped' /\ CountsTyped' /\ Routes'
  <2>1. WriterTyped' /\ writer'.own = writer.own /\ writer'.batch = writer.batch /\ writer'.state = "metrics"
    BY <1>2, <1>4 DEF WriterTyped
  <2>2. CountsTyped'
    BY <1>2, <1>4 DEF CountsTyped, metrics, WriteMetrics
  <2>3. Routes'
    BY <1>1, <1>2, <2>1 DEF Routes, recorder, core
  <2> QED
    BY <2>1, <2>2, <2>3
<1>a. WriterTyped' /\ CountsTyped' /\ Routes'
  BY <1>3, <1>4 DEF WriteMetrics
<1>5. Kept
  BY <1>1, TypesAre DEF Sorted, Kept, LogTyped, recorder
<1>6. PluginTyped' /\ SpansTyped' /\ LogTyped' /\ (pending \in Seq(Message))'
  BY <1>1, TypesAre DEF Sorted, PluginTyped, SpansTyped, LogTyped, static, recorder
<1>7. HeldTyped' /\ TalkTyped' /\ OutTyped' /\ EndTyped'
  BY <1>1, TypesAre DEF Sorted, HeldTyped, TalkTyped, OutTyped, EndTyped, QueueTyped, core
<1>8. TypeOK'
  BY <1>a, <1>6, <1>7, TypesAre, PTL
<1> QED
  BY <1>1, <1>a, <1>5, <1>8, ShapeStill DEF Sorted, recorder

\* So does reading the counters, which completes it.
LEMMA TakeCountersSorted == ASSUME Sorted, Shape, TakeCounters PROVE Sorted' /\ Shape' /\ Kept
<1>1. /\ UNCHANGED <<static, plugin, recorder, log, pending, metrics, value, core>> /\ lost' = Zero
      /\ writer.state = "counting" /\ writer' = [writer EXCEPT !.state = "metrics", !.batch = Delta]
  BY DEF TakeCounters
<1>2. CountsTyped /\ WriterTyped /\ Routes
  BY TypesAre DEF Sorted
<1>3. Sound(Delta, log, span)
  BY <1>1, <1>2, DeltaSound DEF CountsTyped
<1>4. CountsTyped'
  BY <1>1, <1>2, Messages DEF CountsTyped, metrics
<1>a. /\ WriterTyped' /\ Sound(writer'.batch, log, span) /\ writer'.own = writer.own
      /\ writer'.state # "counting"
  BY <1>1, <1>2, <1>3 DEF WriterTyped, Sound
<1>5. Kept
  BY <1>1, TypesAre DEF Sorted, Kept, LogTyped, recorder
<1>6. PluginTyped' /\ SpansTyped' /\ LogTyped' /\ (pending \in Seq(Message))'
  BY <1>1, TypesAre DEF Sorted, PluginTyped, SpansTyped, LogTyped, static, recorder
<1>7. HeldTyped' /\ TalkTyped' /\ OutTyped' /\ EndTyped'
  BY <1>1, TypesAre DEF Sorted, HeldTyped, TalkTyped, OutTyped, EndTyped, QueueTyped, core
<1>8. TypeOK'
  BY <1>4, <1>a, <1>6, <1>7, TypesAre, PTL
<1>9. Routes'
  BY <1>1, <1>2, <1>a DEF Routes, recorder, core
<1> QED
  BY <1>1, <1>5, <1>8, <1>9, ShapeStill DEF Sorted, recorder

\* The end of a write keeps them.
LEMMA EndWriteSorted == ASSUME Sorted, Shape, EndWrite PROVE Sorted' /\ Shape' /\ Kept
<1>1. UNCHANGED <<static, recorder, log, pending, metrics, lost, value, core>> /\ plugin' \in {plugin, "left"}
  BY DEF EndWrite
<1>2. WriterTyped /\ Routes
  BY TypesAre DEF Sorted
<1>3. /\ WriterTyped' /\ Sound(writer'.batch, log, span) /\ Sound(writer'.own, log, span)
      /\ writer'.state # "counting"
  <2>a. writer.state = "metrics"
    BY DEF EndWrite
  <2>1. CASE writer' = [writer EXCEPT !.batch = writer.own, !.own = <<>>]
    BY <1>2, <2>a, <2>1, SoundQueues DEF WriterTyped, Routes, Sound
  <2>2. CASE writer' = Idle
    BY <2>2, SoundQueues DEF Idle, WriterTyped
  <2> QED
    BY <2>1, <2>2 DEF EndWrite
<1>5. Kept
  BY <1>1, TypesAre DEF Sorted, Kept, LogTyped, recorder
<1>6. PluginTyped' /\ SpansTyped' /\ LogTyped' /\ (pending \in Seq(Message))' /\ CountsTyped'
  BY <1>1, TypesAre DEF Sorted, PluginTyped, SpansTyped, LogTyped, static, recorder, CountsTyped, metrics
<1>7. HeldTyped' /\ TalkTyped' /\ OutTyped' /\ EndTyped'
  BY <1>1, TypesAre DEF Sorted, HeldTyped, TalkTyped, OutTyped, EndTyped, QueueTyped, core
<1>8. TypeOK'
  BY <1>3, <1>6, <1>7, TypesAre, PTL
<1>9. Routes'
  BY <1>1, <1>2, <1>3 DEF Routes, recorder, core
<1> QED
  BY <1>1, <1>5, <1>8, <1>9, ShapeStill DEF Sorted, recorder

\* The death of the plugin keeps them.
LEMMA KilledSorted == ASSUME Sorted, Shape, Killed PROVE Sorted' /\ Shape' /\ Kept
<1>1. UNCHANGED <<static, span, measured, log, value, core>> /\ plugin' = "killed" /\ budget' = 0
  BY DEF Killed
<1>2. pending' = <<>> /\ writer' = Idle
  BY DEF Killed
<1>3. CountsTyped'
  BY Messages DEF Killed, CountsTyped
<1>4. WriterTyped'
  BY <1>2 DEF WriterTyped, Idle
<1>5. Kept
  BY <1>1, TypesAre DEF Sorted, Kept, LogTyped
<1>6. PluginTyped' /\ SpansTyped' /\ LogTyped' /\ (pending \in Seq(Message))'
  BY <1>1, <1>2, TypesAre, BoundsAssumption DEF Sorted, PluginTyped, SpansTyped, LogTyped, static
<1>7. HeldTyped' /\ TalkTyped' /\ OutTyped' /\ EndTyped'
  BY <1>1, TypesAre DEF Sorted, HeldTyped, TalkTyped, OutTyped, EndTyped, QueueTyped, core
<1>8. TypeOK'
  BY <1>3, <1>4, <1>6, <1>7, TypesAre, PTL
<1>9. Routes'
  BY <1>1, <1>2, SoundQueues DEF Sorted, Routes, Idle, core
<1> QED
  BY <1>1, <1>5, <1>8, <1>9, ShapeStill DEF Sorted

\* Nor do the conversation and the end of the run touch what is recorded.
LEMMA OthersSorted ==
    ASSUME Sorted, Shape, UNCHANGED <<memory, held, overflow, bare, out>>,
           TalkTyped', EndTyped', plugin' \in {"working", "concluding", "left", "killed"}
    PROVE  Sorted' /\ Shape' /\ Kept
<1>5. Kept
  BY TypesAre DEF Sorted, Kept, LogTyped, recorder, memory
<1>6. PluginTyped' /\ SpansTyped' /\ LogTyped' /\ (pending \in Seq(Message))' /\ CountsTyped'
  BY TypesAre DEF Sorted, PluginTyped, SpansTyped, LogTyped, static, recorder, memory, CountsTyped, metrics
<1>7. WriterTyped' /\ HeldTyped' /\ OutTyped'
  BY TypesAre DEF Sorted, WriterTyped, HeldTyped, OutTyped, memory
<1>8. TypeOK'
  BY <1>6, <1>7, TypesAre, PTL
<1>9. Routes'
  BY DEF Sorted, Routes, memory, recorder
<1> QED
  BY <1>5, <1>8, <1>9, ShapeStill DEF Sorted, recorder, memory

\* Every step keeps the types, the routes and the tree.
LEMMA SortedStep == ASSUME Sorted, Shape, [Next]_vars PROVE Sorted' /\ Shape' /\ Kept
<1>t. TalkTyped /\ EndTyped /\ PluginTyped
  BY TypesAre DEF Sorted
<1>1. CASE Recorder
  BY <1>1, OpenSpanSorted, CloseSpanSorted, NextSecondSorted, EventSorted, RecordMetricSorted DEF Recorder
<1>2. CASE Writes
  BY <1>2, BeginWriteSorted, WriteOneSorted, WriteMetricsSorted, TakeCountersSorted, EndWriteSorted DEF Writes
<1>3. CASE Talks
  <2>1. /\ UNCHANGED <<memory, held, overflow, bare, out, queued, crowded, exporter, phase, plugin>>
        /\ TalkTyped'
    BY <1>3, <1>t DEF Talks, FetchValue, HearValue, TalkEnds, core, TalkTyped
  <2>2. EndTyped' /\ plugin' \in {"working", "concluding", "left", "killed"}
    BY <1>t, <2>1 DEF EndTyped, QueueTyped, PluginTyped
  <2> QED
    BY <2>1, <2>2, OthersSorted
<1>4. CASE Killed
  BY <1>4, KilledSorted
<1>5. CASE ReleaseHeld
  BY <1>5, ReleaseHeldSorted
<1>6. CASE \E sig \in Signals : Export(sig)
  <2>1. PICK sig \in Signals : Export(sig)
    BY <1>6
  <2>2. UNCHANGED <<memory, held, overflow, bare, out, plugin, value, talk, phase, crowded>>
    BY <2>1 DEF Export
  <2>3. QueueTyped' /\ exporter' \in [Signals -> {"well", "failing", "hung"}]
    BY <1>t, <2>1 DEF Export, EndTyped, QueueTyped
  <2>4. TalkTyped' /\ EndTyped' /\ plugin' \in {"working", "concluding", "left", "killed"}
    BY <1>t, <2>2, <2>3 DEF EndTyped, TalkTyped, PluginTyped
  <2> QED
    BY <2>2, <2>4, OthersSorted
<1>7. CASE Shutdown \/ FlushEnds
  <2>1. /\ UNCHANGED <<memory, held, overflow, bare, out, plugin, value, talk, queued, crowded, exporter>>
        /\ phase' \in {"flushing", "ended"}
    BY <1>7 DEF Shutdown, FlushEnds
  <2>2. TalkTyped' /\ EndTyped' /\ plugin' \in {"working", "concluding", "left", "killed"}
    BY <1>t, <2>1 DEF EndTyped, QueueTyped, TalkTyped, PluginTyped
  <2> QED
    BY <2>1, <2>2, OthersSorted
<1>8. CASE UNCHANGED vars
  <2>1. UNCHANGED <<memory, held, overflow, bare, out, plugin, value, talk, queued, crowded, exporter, phase>>
    BY <1>8 DEF vars, memory, static, recorder, metrics
  <2>2. TalkTyped' /\ EndTyped' /\ plugin' \in {"working", "concluding", "left", "killed"}
    BY <1>t, <2>1 DEF EndTyped, QueueTyped, TalkTyped, PluginTyped
  <2> QED
    BY <2>1, <2>2, OthersSorted
<1> QED
  BY <1>1, <1>2, <1>3, <1>4, <1>5, <1>6, <1>7, <1>8 DEF Next

\* The types, for any bounds, settings and faults.
THEOREM TelemetryTypeOK == Spec => []TypeOK
<1>1. Sorted /\ Shape /\ [Next]_vars => (Sorted /\ Shape)'
  BY SortedStep
<1>2. Sorted => TypeOK
  BY DEF Sorted
<1> QED
  BY <1>1, <1>2, SortedInit, PTL DEF Spec

-----------------------------------------------------------------------------
(* The trace *)

\* What is recorded hangs on the nearest span around it that was admitted.
Hangs ==
    /\ \A s \in SpanIds : IsNearest(span[s].parent, span[s].in)
    /\ \A n \in 1 .. Len(log) : Opened(log[n].in) /\ IsNearest(log[n].at, log[n].in)

\* A step admits only a span it opens, and moves none.
Steady ==
    /\ \A x \in SpanIds : Opened(x) => span'[x].in = span[x].in
    /\ \A x \in SpanIds : Opened(x) => (x \in Admitted' <=> x \in Admitted)
    /\ \A x \in SpanIds : span[x].state # "none" => span'[x].state # "none"

\* Then the nearest stays the nearest.
LEMMA NearestKept ==
    ASSUME Sorted, Shape, Sorted', Shape', Steady, NEW s \in Chain, Opened(s), NEW n, IsNearest(n, s)
    PROVE  n \in Above'[s] \cap (Admitted' \cup {CoreSpan}) /\ \A m \in Above'[s] \cap Admitted' : m <= n
<1>1. SpansTyped /\ Climbs /\ SpansTyped' /\ Climbs' /\ \A x \in SpanIds : Opened(span[x].in)
  BY DEF Sorted, Shape, TypeOK, SpansTyped
<1>2. Above'[s] = Above[s] /\ \A m \in Above[s] : Opened(m)
  BY <1>1, AboveKept DEF Steady
<1>3. \A m \in Above[s] : m \in Admitted' <=> m \in Admitted
  BY <1>2 DEF Steady, Admitted
<1> QED
  BY <1>2, <1>3 DEF IsNearest

\* What was recorded before a steady step still hangs on the nearest.
LEMMA HangsKept ==
    ASSUME Sorted, Shape, Sorted', Shape', Steady, Hangs,
           NEW X \in SUBSET SpanIds, \A x \in X : span'[x].in = span[x].in /\ span'[x].parent = span[x].parent,
           Len(log') >= Len(log), \A n \in 1 .. Len(log) : log'[n] = log[n]
    PROVE  /\ \A x \in X : IsNearest(span[x].parent, span[x].in)'
           /\ \A n \in 1 .. Len(log) : (Opened(log[n].in) /\ IsNearest(log[n].at, log[n].in))'
<1>1. SpansTyped /\ LogTyped /\ \A x \in SpanIds : Opened(span[x].in)
  BY TypesAre DEF Sorted, Shape
<1>2. ASSUME NEW x \in X PROVE IsNearest(span[x].parent, span[x].in)'
  <2>1. span[x].in \in Chain /\ Opened(span[x].in) /\ IsNearest(span[x].parent, span[x].in)
    BY <1>1 DEF SpansTyped, SpanType, Chain, Hangs
  <2> QED
    BY <1>2, <2>1, NearestKept DEF IsNearest
<1>3. ASSUME NEW n \in 1 .. Len(log) PROVE (Opened(log[n].in) /\ IsNearest(log[n].at, log[n].in))'
  <2>1. log[n] \in LineType
    BY <1>1 DEF LogTyped
  <2>2. log[n].in \in Chain /\ Opened(log[n].in) /\ IsNearest(log[n].at, log[n].in) /\ log'[n] = log[n]
    BY <2>1 DEF LineType, Chain, Hangs
  <2>3. IsNearest(log[n].at, log[n].in)'
    BY <2>2, NearestKept DEF IsNearest
  <2> QED
    BY <2>2, <2>3 DEF Opened, Steady, Chain
<1> QED
  BY <1>2, <1>3

\* A new line hangs on the nearest, as its context is.
LEMMA HangsLogged ==
    ASSUME Sorted, Shape, Sorted', Shape', Hangs, UNCHANGED span,
           \/ UNCHANGED log
           \/ \E in \in Enclosing, loud \in BOOLEAN : log' = Append(log, Line(in, loud))
    PROVE  Hangs'
<1>1. Steady
  BY DEF Steady, Admitted
<1>2. LogTyped
  BY TypesAre DEF Sorted
<1>3. SpanIds \in SUBSET SpanIds /\ \A x \in SpanIds : span'[x].in = span[x].in /\ span'[x].parent = span[x].parent
  OBVIOUS
<1>4. CASE UNCHANGED log
  <2>1. Len(log') >= Len(log) /\ \A n \in 1 .. Len(log) : log'[n] = log[n]
    BY <1>2, <1>4 DEF LogTyped
  <2> QED
    BY <1>1, <1>3, <1>4, <2>1, HangsKept DEF Hangs
<1>5. CASE \E in \in Enclosing, loud \in BOOLEAN : log' = Append(log, Line(in, loud))
  <2>1. PICK in \in Enclosing, loud \in BOOLEAN : log' = Append(log, Line(in, loud))
    BY <1>5
  <2>2. PICK line \in LineType : log' = Append(log, line) /\ line.in = in /\ line.at = ContextOf(in)
    <3>1. Line(in, loud) \in LineType
      BY LineTyped
    <3>2. Line(in, loud).in = in /\ Line(in, loud).at = ContextOf(in)
      BY DEF Line
    <3> QED
      BY <2>1, <3>1, <3>2, Zenon
  <2>3. /\ Len(log') = Len(log) + 1 /\ log'[Len(log) + 1] = line /\ Len(log) \in Nat
        /\ \A n \in 1 .. Len(log) : log'[n] = log[n]
    BY <1>2, <2>2 DEF LogTyped
  <2>4. IsNearest(ContextOf(in), in) /\ Opened(in)
    BY ContextIsNearest, TypesAre DEF Sorted, Shape, Opened, Enclosing
  <2>5. in \in Chain
    BY DEF Enclosing, Chain
  <2>6. (Opened(log[Len(log)].in) /\ IsNearest(log[Len(log)].at, log[Len(log)].in))'
    <3>1. Opened(in)'
      BY <2>4 DEF Opened
    <3>2. ContextOf(in) \in Above'[in] \cap (Admitted' \cup {CoreSpan}) /\ \A m \in Above'[in] \cap Admitted' : m <= ContextOf(in)
      BY <1>1, <2>4, <2>5, NearestKept
    <3>3. log'[Len(log')].in = in /\ log'[Len(log')].at = ContextOf(in)
      BY <2>2, <2>3
    <3> QED
      BY <2>4, <3>2, <3>3 DEF IsNearest, Opened
  <2>7. \A n \in 1 .. Len(log') : n \in 1 .. Len(log) \/ n = Len(log')
    BY <2>3
  <2>8. Len(log') >= Len(log)
    BY <2>3
  <2> QED
    BY <1>1, <1>3, <2>3, <2>6, <2>7, <2>8, HangsKept DEF Hangs
<1> QED
  BY <1>4, <1>5

\* Every step keeps the trace together.
LEMMA HangsStep == ASSUME Sorted, Shape, Sorted', Shape', Hangs, [Next]_vars PROVE Hangs'
<1>1. SpansTyped /\ LogTyped
  BY TypesAre DEF Sorted
<1>2. CASE OpenSpan
  <2>1. PICK s \in SpanIds, in \in Enclosing, state \in {"unseen", "open", "over"} :
          /\ span[s].state = "none"
          /\ span' = [span EXCEPT ![s] = [state |-> state, in |-> in, parent |-> ContextOf(in)]]
    BY <1>2 DEF OpenSpan
  <2>2. UNCHANGED log
    BY <1>2 DEF OpenSpan
  <2>3. \A x \in SpanIds : x # s => span'[x] = span[x]
    BY <1>1, <2>1 DEF SpansTyped
  <2>4. Steady
    BY <2>1, <2>3 DEF Steady, Opened, Admitted, CoreSpan, SpanIds
  <2>5. IsNearest(ContextOf(in), in) /\ Opened(in)
    BY <1>1, <2>1, ContextIsNearest DEF Shape, Opened, Enclosing
  <2>6. in \in Chain /\ span'[s].in = in /\ span'[s].parent = ContextOf(in)
    BY <1>1, <2>1 DEF Enclosing, Chain, SpansTyped
  <2>7. ContextOf(in) \in Above'[in] \cap (Admitted' \cup {CoreSpan}) /\ \A m \in Above'[in] \cap Admitted' : m <= ContextOf(in)
    BY <2>4, <2>5, <2>6, NearestKept
  <2>8. IsNearest(span[s].parent, span[s].in)'
    BY <2>6, <2>7 DEF IsNearest
  <2>9. SpanIds \ {s} \in SUBSET SpanIds
    OBVIOUS
  <2>10. Len(log') >= Len(log) /\ \A n \in 1 .. Len(log) : log'[n] = log[n]
    BY <1>1, <2>2 DEF LogTyped
  <2>11. \A x \in SpanIds \ {s} : span'[x].in = span[x].in /\ span'[x].parent = span[x].parent
    BY <2>3
  <2>12. /\ \A x \in SpanIds \ {s} : IsNearest(span[x].parent, span[x].in)'
         /\ \A n \in 1 .. Len(log) : (Opened(log[n].in) /\ IsNearest(log[n].at, log[n].in))'
    BY <2>4, <2>9, <2>10, <2>11, HangsKept
  <2> QED
    BY <2>2, <2>8, <2>12 DEF Hangs
<1>3. CASE CloseSpan
  <2>1. PICK s \in Enclosing \cap SpanIds :
          span' = [span EXCEPT ![s].state =
               CASE @ = "open" -> IF Len(pending) < MaxPending THEN "closed" ELSE "shed"
                 [] @ = "over" -> "dropped"
                 [] @ = "unseen" -> "gone"]
    BY <1>3 DEF CloseSpan
  <2>2. UNCHANGED log
    BY <1>3 DEF CloseSpan
  <2>3. span[s].state \in {"open", "over", "unseen"}
    BY <2>1 DEF Enclosing, CoreSpan, SpanIds
  <2>4. \A x \in SpanIds : span'[x].in = span[x].in /\ span'[x].parent = span[x].parent
    BY <1>1, <2>1 DEF SpansTyped, SpanType
  <2>5. /\ \A x \in SpanIds : x # s => span'[x] = span[x]
        /\ span[s].state = "open" => span'[s].state \in {"closed", "shed"}
        /\ span[s].state # "open" => span'[s].state \in {"dropped", "gone"}
    BY <1>1, <2>1, <2>3 DEF SpansTyped, SpanType
  <2>6. Steady
    BY <2>3, <2>4, <2>5 DEF Steady, Opened, Admitted
  <2>7. SpanIds \in SUBSET SpanIds /\ Len(log') >= Len(log) /\ \A n \in 1 .. Len(log) : log'[n] = log[n]
    BY <1>1, <2>2 DEF LogTyped
  <2> QED
    BY <2>2, <2>4, <2>6, <2>7, HangsKept DEF Hangs
<1>4. CASE NextSecond \/ RecordMetric \/ WriteOne \/ WriteMetrics \/ TakeCounters \/ EndWrite
  <2>1. UNCHANGED <<span, log>>
    BY <1>4 DEF NextSecond, RecordMetric, WriteOne, WriteMetrics, TakeCounters, EndWrite, recorder
  <2> QED
    BY <2>1, HangsLogged
<1>5. CASE Event
  <2>1. UNCHANGED span /\ \E in \in Enclosing : log' = Append(log, Line(in, TRUE))
    BY <1>5 DEF Event
  <2>2. \E in \in Enclosing, loud \in BOOLEAN : log' = Append(log, Line(in, loud))
    BY <2>1, Zenon
  <2> QED
    BY <2>1, <2>2, HangsLogged
<1>6. CASE BeginWrite
  BY <1>6, HangsLogged DEF BeginWrite, recorder
<1>7. CASE Talks \/ Killed \/ ReleaseHeld \/ (\E sig \in Signals : Export(sig)) \/ Shutdown \/ FlushEnds
  <2>1. UNCHANGED <<span, log>>
    BY <1>7 DEF Talks, FetchValue, HearValue, TalkEnds, Killed, ReleaseHeld, Export, Shutdown, FlushEnds, memory, recorder
  <2> QED
    BY <2>1, HangsLogged
<1>8. CASE UNCHANGED vars
  BY <1>8, HangsLogged DEF vars
<1> QED
  BY <1>2, <1>3, <1>4, <1>5, <1>6, <1>7, <1>8 DEF Next, Recorder, Writes

\* At first there is nothing to hang.
LEMMA HangsInit == ASSUME Init, Sorted, Shape PROVE Hangs
<1>1. SpansTyped /\ Climbs /\ Nested /\ CoreSpan \in Chain /\ CoreSpan \in Enclosing
  BY TypesAre DEF Sorted, Shape, Chain, Enclosing
<1>2. IsNearest(CoreSpan, CoreSpan)
  <2>1. ContextOf(CoreSpan) = CoreSpan
    BY <1>1, ContextUp
  <2> QED
    BY <1>1, <2>1, ContextIsNearest
<1>3. log = <<>> /\ \A s \in SpanIds : span[s].in = CoreSpan /\ span[s].parent = CoreSpan
  BY DEF Init
<1> QED
  BY <1>2, <1>3 DEF Hangs

\* What the exporters were handed was recorded.
LEMMA HangsInv == ASSUME Sorted, Shape, Hangs PROVE HangsOnNearest
<1>1. SpansTyped /\ Climbs /\ LogTyped /\ OutTyped
  BY TypesAre DEF Sorted, Shape
<1>2. ASSUME NEW s \in out.spans PROVE span[s].parent = Nearest(span[s].in)
  <2>1. s \in SpanIds /\ span[s].in \in Chain
    BY <1>1, <1>2 DEF OutTyped, SpansTyped, SpanType, Chain
  <2> QED
    BY <1>1, <2>1, NearestIs DEF Hangs
<1>3. ASSUME NEW n \in out.logs PROVE log[n].at = Nearest(log[n].in)
  <2>1. n \in 1 .. Len(log) /\ log[n].in \in Chain
    <3>1. n \in 1 .. Len(log) /\ log[n] \in LineType
      BY <1>1, <1>3 DEF OutTyped, LogTyped
    <3> QED
      BY <3>1 DEF LineType, Chain
  <2> QED
    BY <1>1, <2>1, NearestIs DEF Hangs
<1> QED
  BY <1>2, <1>3 DEF HangsOnNearest

\* The trace holds together, for any number of spans and lines.
THEOREM TelemetryHangsOnNearest == Spec => []HangsOnNearest
<1> DEFINE I == Sorted /\ Shape /\ Hangs
<1>1. Init => I
  BY SortedInit, HangsInit
<1>2. I /\ [Next]_vars => I'
  BY SortedStep, HangsStep
<1>3. I => HangsOnNearest
  BY HangsInv
<1> QED
  BY <1>1, <1>2, <1>3, PTL DEF Spec

-----------------------------------------------------------------------------
(* A provider's lines *)

\* Until its value is heard a provider's lines are held, unless it fails.
Masks ==
    /\ mode = "drain" => value = "heard"
    /\ talk = "ok" => value = "heard"
    /\ MaskedWhenShown

\* Every step keeps that.
LEMMA MasksStep == ASSUME Sorted, Masks, [Next]_vars PROVE Masks'
<1>1. TalkTyped
  BY TypesAre DEF Sorted
<1>2. CASE OpenSpan \/ CloseSpan \/ NextSecond \/ Event \/ RecordMetric
  BY <1>2 DEF OpenSpan, CloseSpan, NextSecond, Event, RecordMetric, static, core, Masks, MaskedWhenShown
<1>3. CASE BeginWrite \/ WriteMetrics \/ TakeCounters \/ EndWrite \/ Killed
  BY <1>3 DEF BeginWrite, WriteMetrics, TakeCounters, EndWrite, Killed, static, core, Masks, MaskedWhenShown
<1>4. CASE WriteOne
  <2>1. UNCHANGED <<mode, value, talk>> /\ ReadEvent(Head(writer.batch))
    BY <1>4 DEF WriteOne, static
  <2>2. UNCHANGED bare
    BY <2>1 DEF ReadEvent, Forward, Masks
  <2> QED
    BY <2>1, <2>2 DEF Masks, MaskedWhenShown
<1>5. CASE FetchValue \/ HearValue
  BY <1>5 DEF FetchValue, HearValue, memory, static, core, Masks, MaskedWhenShown
<1>6. CASE TalkEnds
  BY <1>6 DEF TalkEnds, memory, static, Masks, MaskedWhenShown
<1>7. CASE ReleaseHeld
  <2>1. UNCHANGED <<mode, value, talk>> /\ talk # "on" /\ Forward(Head(held))
    BY <1>7 DEF ReleaseHeld, memory, static
  <2>2. talk = "ok" => UNCHANGED bare
    BY <2>1 DEF Forward, Masks
  <2> QED
    BY <1>1, <2>1, <2>2 DEF Masks, MaskedWhenShown, TalkTyped
<1>8. CASE (\E sig \in Signals : Export(sig)) \/ Shutdown \/ FlushEnds
  BY <1>8 DEF Export, Shutdown, FlushEnds, memory, static, Masks, MaskedWhenShown
<1>9. CASE UNCHANGED vars
  BY <1>9 DEF vars, Masks, MaskedWhenShown
<1> QED
  BY <1>2, <1>3, <1>4, <1>5, <1>6, <1>7, <1>8, <1>9 DEF Next, Recorder, Writes, Talks

\* A value the core can hear is masked in every line that quotes it.
THEOREM TelemetryMasked == Spec => []MaskedWhenShown
<1> DEFINE I == Sorted /\ Shape /\ Masks
<1>1. Init => I
  BY SortedInit DEF Init, Masks, MaskedWhenShown
<1>2. I /\ [Next]_vars => I'
  BY SortedStep, MasksStep
<1>3. I => MaskedWhenShown
  BY DEF Masks
<1> QED
  BY <1>1, <1>2, <1>3, PTL DEF Spec

-----------------------------------------------------------------------------
(* Queues *)

\* What a message counts of kind k: what was dropped, and measurements made.
Weight(m, k) ==
    IF m.signal # "metrics" THEN 0 ELSE IF k = "metrics" THEN m.points + m.beyond + m.lost[k] ELSE m.lost[k]

\* The messages of q count t of kind k together, as the partial sums p show.
Total(q, k, t) ==
    \E p \in [0 .. Len(q) -> Int] :
        p[0] = 0 /\ p[Len(q)] = t /\ \A n \in 1 .. Len(q) : p[n] = p[n - 1] + Weight(q[n], k)

\* The spans or lines the messages of q are.
Carried(q, sig) == {q[n].id : n \in {i \in 1 .. Len(q) : q[i].signal = sig}}

\* The one a message is.
Bears(m, sig) == IF m.signal = sig THEN {m.id} ELSE {}

\* No message of q is a delta.
Plain(q) == \A n \in 1 .. Len(q) : q[n].signal # "metrics"

\* A message's weight is a number.
LEMMA WeightNat == ASSUME NEW m \in Message, NEW k \in Kinds PROVE Weight(m, k) \in Nat
BY Carries DEF Weight, Signals

\* What an empty, a longer and a shorter queue count.
LEMMA Totals ==
    ASSUME NEW k \in Kinds
    PROVE  /\ \A t : Total(<<>>, k, t) <=> t = 0
           /\ \A q \in Seq(Message), m \in Message, t \in Int :
                  Total(q, k, t) => Total(Append(q, m), k, t + Weight(m, k))
           /\ \A q \in Seq(Message), t \in Int :
                  Total(q, k, t) /\ q # <<>> => Total(Tail(q), k, t - Weight(Head(q), k))
           /\ \A q \in Seq(Message) : Plain(q) => Total(q, k, 0)
<1>1. ASSUME NEW t PROVE Total(<<>>, k, t) <=> t = 0
  <2>1. ASSUME t = 0 PROVE Total(<<>>, k, t)
    <3> DEFINE p == [n \in 0 .. 0 |-> 0]
    <3>1. Len(<<>>) = 0 /\ p \in [0 .. 0 -> Int] /\ p[0] = 0
      OBVIOUS
    <3> HIDE DEF p
    <3> QED
      BY <2>1, <3>1 DEF Total
  <2> QED
    BY <2>1 DEF Total
<1>2. ASSUME NEW q \in Seq(Message), NEW m \in Message, NEW t \in Int, Total(q, k, t)
      PROVE  Total(Append(q, m), k, t + Weight(m, k))
  <2> DEFINE N == Len(q)
             w == Weight(m, k)
  <2>1. PICK p \in [0 .. N -> Int] : p[0] = 0 /\ p[N] = t /\ \A n \in 1 .. N : p[n] = p[n - 1] + Weight(q[n], k)
    BY <1>2 DEF Total
  <2> DEFINE r == [n \in 0 .. N + 1 |-> IF n = N + 1 THEN t + w ELSE p[n]]
  <2>2. N \in Nat /\ w \in Int /\ Len(Append(q, m)) = N + 1 /\ Append(q, m)[N + 1] = m
    BY WeightNat
  <2>3. \A n \in 1 .. N : Append(q, m)[n] = q[n]
    OBVIOUS
  <2> HIDE DEF N, w
  <2>4. r \in [0 .. N + 1 -> Int] /\ r[0] = 0 /\ r[N + 1] = t + w
    BY <2>1, <2>2
  <2>5. \A n \in 1 .. N + 1 : r[n] = r[n - 1] + Weight(Append(q, m)[n], k)
    <3> TAKE n \in 1 .. N + 1
    <3>1. CASE n = N + 1
      BY <2>1, <2>2, <3>1 DEF w
    <3>2. CASE n \in 1 .. N
      BY <2>1, <2>2, <2>3, <3>2
    <3> QED
      BY <2>2, <3>1, <3>2
  <2> HIDE DEF r
  <2> QED
    BY <2>2, <2>4, <2>5 DEF Total, w
<1>3. ASSUME NEW q \in Seq(Message), NEW t \in Int, Total(q, k, t), q # <<>>
      PROVE  Total(Tail(q), k, t - Weight(Head(q), k))
  <2> DEFINE N == Len(q)
             w == Weight(Head(q), k)
  <2>1. PICK p \in [0 .. N -> Int] : p[0] = 0 /\ p[N] = t /\ \A n \in 1 .. N : p[n] = p[n - 1] + Weight(q[n], k)
    BY <1>3 DEF Total
  <2>2. N \in Nat /\ N > 0 /\ Len(Tail(q)) = N - 1 /\ Head(q) = q[1] /\ Head(q) \in Message
    BY <1>3
  <2>a. w \in Int
    BY <2>2, WeightNat
  <2>3. \A n \in 1 .. N - 1 : Tail(q)[n] = q[n + 1]
    BY <1>3
  <2> DEFINE r == [n \in 0 .. N - 1 |-> p[n + 1] - w]
  <2> HIDE DEF N, w
  <2>4. p[1] = w
    <3>1. 1 \in 1 .. N /\ 1 - 1 = 0
      BY <2>2
    <3>2. p[1] = p[0] + Weight(q[1], k)
      BY <2>1, <3>1
    <3> QED
      BY <2>1, <2>2, <2>a, <3>2 DEF w
  <2>5. r \in [0 .. N - 1 -> Int]
    BY <2>1, <2>2, <2>a
  <2>b. r[0] = 0
    <3>1. 0 \in 0 .. N - 1
      BY <2>2
    <3> QED
      BY <2>4, <2>a, <3>1
  <2>c. r[N - 1] = t - w
    <3>1. N - 1 \in 0 .. N - 1 /\ (N - 1) + 1 = N
      BY <2>2
    <3> QED
      BY <2>1, <2>a, <3>1
  <2>6. \A n \in 1 .. N - 1 : r[n] = r[n - 1] + Weight(Tail(q)[n], k)
    <3> TAKE n \in 1 .. N - 1
    <3>1. n \in 0 .. N - 1 /\ n - 1 \in 0 .. N - 1 /\ n + 1 \in 1 .. N /\ (n - 1) + 1 = n /\ (n + 1) - 1 = n /\ n \in 0 .. N /\ n + 1 \in 0 .. N
      BY <2>2
    <3>2. r[n] = p[n + 1] - w /\ r[n - 1] = p[n] - w
      BY <3>1
    <3>3. p[n + 1] = p[n] + Weight(q[n + 1], k)
      BY <2>1, <3>1
    <3>4. q[n + 1] \in Message /\ Weight(q[n + 1], k) \in Int
      BY <3>1, WeightNat DEF N
    <3>5. p[n] \in Int
      BY <2>1, <3>1
    <3>6. Tail(q)[n] = q[n + 1]
      BY <2>3
    <3>7. (p[n] + Weight(q[n + 1], k)) - w = (p[n] - w) + Weight(q[n + 1], k)
      <4> DEFINE x == Weight(q[n + 1], k)
                 y == p[n]
      <4>1. x \in Int /\ y \in Int
        BY <3>4, <3>5
      <4> HIDE DEF x, y
      <4>2. (y + x) - w = (y - w) + x
        BY <2>a, <4>1
      <4> QED
        BY <4>2 DEF x, y
    <3> HIDE DEF r
    <3> QED
      BY <3>2, <3>3, <3>6, <3>7, Zenon
  <2> HIDE DEF r
  <2> QED
    BY <2>2, <2>5, <2>b, <2>c, <2>6 DEF Total, w
<1>4. ASSUME NEW q \in Seq(Message), Plain(q) PROVE Total(q, k, 0)
  <2> DEFINE p == [n \in 0 .. Len(q) |-> 0]
  <2>1. p \in [0 .. Len(q) -> Int] /\ p[0] = 0 /\ p[Len(q)] = 0
    OBVIOUS
  <2>2. \A n \in 1 .. Len(q) : p[n] = p[n - 1] + Weight(q[n], k)
    BY <1>4 DEF Plain, Weight
  <2> HIDE DEF p
  <2> QED
    BY <2>1, <2>2 DEF Total
<1> QED
  BY <1>1, <1>2, <1>3, <1>4

\* What an empty, a longer and a shorter queue carry.
LEMMA Carryings ==
    ASSUME NEW sig
    PROVE  /\ Carried(<<>>, sig) = {}
           /\ \A q \in Seq(Message), m \in Message :
                  /\ Carried(<<m>>, sig) = Bears(m, sig)
                  /\ Carried(Append(q, m), sig) = Carried(q, sig) \cup Bears(m, sig)
           /\ \A q \in Seq(Message) :
                  q # <<>> => Carried(q, sig) = Carried(Tail(q), sig) \cup Bears(Head(q), sig)
<1>1. Carried(<<>>, sig) = {}
  BY DEF Carried
<1>2. ASSUME NEW q \in Seq(Message), NEW m \in Message
      PROVE  Carried(Append(q, m), sig) = Carried(q, sig) \cup Bears(m, sig)
  <2>1. /\ Len(q) \in Nat /\ Len(Append(q, m)) = Len(q) + 1 /\ Append(q, m)[Len(q) + 1] = m
        /\ \A n \in 1 .. Len(q) : Append(q, m)[n] = q[n]
    OBVIOUS
  <2> QED
    BY <2>1 DEF Carried, Bears
<1>3. ASSUME NEW m \in Message PROVE Carried(<<m>>, sig) = Bears(m, sig)
  <2>1. Len(<<m>>) = 1 /\ <<m>>[1] = m
    OBVIOUS
  <2> QED
    BY <2>1 DEF Carried, Bears
<1>4. ASSUME NEW q \in Seq(Message), q # <<>>
      PROVE  Carried(q, sig) = Carried(Tail(q), sig) \cup Bears(Head(q), sig)
  <2>1. /\ Len(q) \in Nat /\ Len(q) > 0 /\ Len(Tail(q)) = Len(q) - 1 /\ Head(q) = q[1]
        /\ \A n \in 1 .. Len(q) - 1 : Tail(q)[n] = q[n + 1]
    BY <1>4
  <2>2. \A x \in Carried(q, sig) : x \in Carried(Tail(q), sig) \cup Bears(Head(q), sig)
    <3> TAKE x \in Carried(q, sig)
    <3>1. PICK n \in 1 .. Len(q) : q[n].signal = sig /\ x = q[n].id
      BY DEF Carried
    <3>2. CASE n = 1
      BY <2>1, <3>1, <3>2 DEF Bears
    <3>3. CASE n # 1
      <4>1. n - 1 \in 1 .. Len(Tail(q)) /\ Tail(q)[n - 1] = q[n]
        BY <2>1, <3>3
      <4> QED
        BY <3>1, <4>1 DEF Carried
    <3> QED
      BY <3>2, <3>3
  <2>3. \A x \in Carried(Tail(q), sig) : x \in Carried(q, sig)
    <3> TAKE x \in Carried(Tail(q), sig)
    <3>1. PICK n \in 1 .. Len(Tail(q)) : Tail(q)[n].signal = sig /\ x = Tail(q)[n].id
      BY DEF Carried
    <3>2. n + 1 \in 1 .. Len(q) /\ Tail(q)[n] = q[n + 1]
      BY <2>1
    <3> QED
      BY <3>1, <3>2 DEF Carried
  <2>4. \A x \in Bears(Head(q), sig) : x \in Carried(q, sig)
    BY <2>1 DEF Carried, Bears
  <2> QED
    BY <2>2, <2>3, <2>4
<1> QED
  BY <1>1, <1>2, <1>3, <1>4

-----------------------------------------------------------------------------
(* The accounts *)

\* The delta's counters, all taken.
Cleared == gathered = 0 /\ beyond = 0 /\ lost = Zero

\* A plugin that is told of no signal is off, and no delta waits in a queue.
Deltas ==
    /\ settings.on \/ settings.signals = {}
    /\ Plain(pending) /\ Plain(writer.own)

\* The last write of a plugin takes all it has.
Leaving ==
    /\ writer.state = "idle" => writer = Idle
    /\ plugin = "working" => ~writer.final
    /\ plugin = "concluding" =>
           /\ pending = <<>> /\ writer.state # "idle" /\ writer.final /\ writer.own = <<>>
           /\ writer.state = "counting" => gathered = 0 /\ beyond = 0
           /\ writer.state = "metrics" => Cleared
    /\ plugin = "left" => pending = <<>> /\ writer = Idle /\ Cleared
    /\ plugin = "killed" => writer = Idle

\* The flush follows the last message, and ends with nothing queued or on a hung exporter.
Over ==
    /\ phase # "on" => Gone /\ held = <<>>
    /\ phase = "ended" => queued = {} \/ \E sig \in Signals : exporter[sig] = "hung"

\* What was handed over is at the run's level, what a full queue refused was
\* handed over.
OnlyLoud ==
    /\ \A n \in out.logs : log[n].loud
    /\ crowded["logs"] \subseteq out.logs /\ crowded["traces"] \subseteq out.spans

Ends == Deltas /\ Leaving /\ Over /\ OnlyLoud

\* At first nothing was written.
LEMMA EndsInit == ASSUME Init PROVE Ends
<1>1. settings.on \/ settings.signals = {}
  BY DEF Init, Resolved
<1>2. /\ pending = <<>> /\ writer = Idle /\ plugin = "working" /\ phase = "on" /\ out = Nothing
      /\ crowded["logs"] = {} /\ crowded["traces"] = {}
  BY DEF Init
<1>3. Plain(pending) /\ Plain(writer.own) /\ ~writer.final
  BY <1>2 DEF Plain, Idle
<1> QED
  BY <1>1, <1>2, <1>3 DEF Ends, Deltas, Leaving, Over, OnlyLoud, Nothing

\* A line or a span put in a queue is no delta.
LEMMA PlainQueues ==
    /\ Plain(<<>>)
    /\ \A m \in Message : m.signal # "metrics" =>
           Plain(<<m>>) /\ \A q \in Seq(Message) : Plain(q) => Plain(Append(q, m))
<1>1. Plain(<<>>)
  BY DEF Plain
<1>2. ASSUME NEW m \in Message, m.signal # "metrics" PROVE Plain(<<m>>)
  <2>1. Len(<<m>>) = 1 /\ <<m>>[1] = m
    OBVIOUS
  <2> QED
    BY <1>2, <2>1 DEF Plain
<1>3. ASSUME NEW m \in Message, m.signal # "metrics", NEW q \in Seq(Message), Plain(q) PROVE Plain(Append(q, m))
  <2>1. \A n \in 1 .. Len(Append(q, m)) : (n \in 1 .. Len(q) /\ Append(q, m)[n] = q[n]) \/ Append(q, m)[n] = m
    OBVIOUS
  <2> QED
    BY <1>3, <2>1 DEF Plain
<1> QED
  BY <1>1, <1>2, <1>3

\* So is what the recorder pushes, and it is bounded or counted.
LEMMA PushPlain ==
    ASSUME NEW m \in Message, m.signal # "metrics", NEW kind, pending \in Seq(Message), Plain(pending), Push(m, kind)
    PROVE  Plain(pending')
BY PlainQueues DEF Push

\* What a plugin at work records leaves the rest alone.
LEMMA RecorderEnds ==
    ASSUME Sorted, Ends, plugin = "working", UNCHANGED <<static, plugin, writer, core>>,
           \A n \in 1 .. Len(log) : log'[n] = log[n],
           Plain(pending')
    PROVE  Ends'
<1>1. Deltas'
  BY DEF Ends, Deltas, static
<1>2. Leaving'
  BY DEF Ends, Leaving
<1>3. phase = "on" /\ phase' = "on"
  BY DEF Ends, Over, Gone, core
<1>4. OnlyLoud'
  BY TypesAre DEF Sorted, OutTyped, Ends, OnlyLoud, core
<1> QED
  BY <1>1, <1>2, <1>3, <1>4 DEF Ends, Over

\* What the core, the conversation and the exporters do leaves the plugin alone.
LEMMA OthersEnds ==
    ASSUME Ends, UNCHANGED <<memory, plugin>>, Over', OnlyLoud'
    PROVE  Ends'
<1>1. Deltas' /\ Leaving'
  BY DEF Ends, Deltas, Leaving, Cleared, memory, static, metrics
<1> QED
  BY <1>1 DEF Ends

\* A line forwarded to the exporters is at the run's level.
LEMMA ForwardLoud ==
    ASSUME Sorted, Ends, UNCHANGED log, NEW msg, Known(msg, log, span), Forward(msg)
    PROVE  OnlyLoud'
<1>1. msg.signal \in Signals
  BY Carries DEF Known
<1>2. CASE UNCHANGED <<out, crowded>>
  BY <1>2 DEF Ends, OnlyLoud
<1>3. CASE Exports(msg) /\ out' = With(msg) /\ Enqueue(msg)
  <2>1. out \in [spans : SUBSET SpanIds, logs : SUBSET (1 .. Len(log)), points : Nat, beyond : Nat, lost : [Kinds -> Nat]]
    BY TypesAre DEF Sorted, OutTyped
  <2>2. out'.logs \subseteq out.logs \cup Bears(msg, "logs")
    BY <1>1, <1>3, <2>1 DEF With, Remeasured, Bears, Signals
  <2>3. /\ out.logs \subseteq out'.logs /\ out.spans \subseteq out'.spans
        /\ msg.signal = "logs" => msg.id \in out'.logs
        /\ msg.signal = "traces" => msg.id \in out'.spans
    BY <1>1, <1>3, <2>1 DEF With, Remeasured, Signals
  <2>4. crowded \in [{"traces", "logs"} -> SUBSET Nat]
    BY TypesAre DEF Sorted, EndTyped, QueueTyped
  <2>5. /\ crowded'["logs"] \subseteq crowded["logs"] \cup Bears(msg, "logs")
        /\ crowded'["traces"] \subseteq crowded["traces"] \cup Bears(msg, "traces")
    <3>1. CASE UNCHANGED crowded
      BY <3>1
    <3>2. CASE /\ msg.signal # "metrics"
               /\ crowded' = [crowded EXCEPT ![msg.signal] = @ \cup {msg.id}]
      BY <1>1, <2>4, <3>2 DEF Signals, Bears
    <3> QED
      BY <1>3, <3>1, <3>2 DEF Enqueue
  <2> QED
    BY <1>3, <2>2, <2>3, <2>5 DEF Ends, OnlyLoud, Exports, Bears
<1> QED
  BY <1>2, <1>3 DEF Forward

\* Every step keeps the end of the run in order.
LEMMA EndsStep == ASSUME Sorted, Shape, Ends, [Next]_vars PROVE Ends'
<1>t. PluginTyped /\ LogTyped /\ pending \in Seq(Message) /\ CountsTyped /\ WriterTyped /\ EndTyped /\ OutTyped
  BY TypesAre DEF Sorted
<1>1. CASE OpenSpan \/ NextSecond
  <2>1. UNCHANGED <<static, plugin, writer, core, log, pending, metrics>> /\ plugin = "working"
    BY <1>1 DEF OpenSpan, NextSecond
  <2> QED
    BY <2>1, RecorderEnds DEF Ends, Deltas, metrics
<1>2. CASE CloseSpan
  <2>1. UNCHANGED <<static, plugin, writer, core, log, metrics>> /\ plugin = "working"
    BY <1>2 DEF CloseSpan
  <2>2. PICK s \in SpanIds : Push([signal |-> "traces", id |-> s], "spans") \/ UNCHANGED pending
    BY <1>2 DEF CloseSpan
  <2>3. Plain(pending')
    <3> DEFINE m == [signal |-> "traces", id |-> s]
    <3>1. m \in Message /\ m.signal # "metrics"
      BY Messages
    <3> HIDE DEF m
    <3>2. CASE Push(m, "spans")
      BY <1>t, <3>1, <3>2, PushPlain DEF Ends, Deltas
    <3>3. CASE UNCHANGED pending
      BY <3>3 DEF Ends, Deltas
    <3> QED
      BY <2>2, <3>2, <3>3 DEF m
  <2> QED
    BY <2>1, <2>3, RecorderEnds DEF Ends, Deltas, metrics
<1>3. CASE Event
  <2>1. UNCHANGED <<static, plugin, writer, core, metrics>> /\ plugin = "working"
    BY <1>3 DEF Event, Recording
  <2>2. \A n \in 1 .. Len(log) : log'[n] = log[n]
    BY <1>3, <1>t DEF Event, LogTyped
  <2>3. Plain(pending')
    <3> DEFINE m == [signal |-> "logs", id |-> Len(log) + 1]
    <3>1. m \in Message /\ m.signal # "metrics"
      BY <1>t, Messages DEF LogTyped
    <3>2. Push(m, "logs")
      BY <1>3 DEF Event
    <3> HIDE DEF m
    <3> QED
      BY <1>t, <3>1, <3>2, PushPlain DEF Ends, Deltas
  <2> QED
    BY <2>1, <2>2, <2>3, RecorderEnds DEF Ends, Deltas, metrics
<1>4. CASE RecordMetric
  <2>1. UNCHANGED <<static, plugin, writer, core, log, pending>> /\ plugin = "working"
    BY <1>4 DEF RecordMetric, Recording
  <2> QED
    BY <2>1, RecorderEnds DEF Ends, Deltas
<1>5. CASE BeginWrite
  <2>1. UNCHANGED <<static, metrics, lost, core>> /\ plugin = "working" /\ pending' = <<>>
    BY <1>5 DEF BeginWrite
  <2>2. PICK own \in BOOLEAN, loud \in BOOLEAN, final \in BOOLEAN, in \in Enclosing :
        /\ own => ~final
        /\ log' = IF own THEN Append(log, Line(in, loud)) ELSE log
        /\ plugin' = IF final THEN "concluding" ELSE plugin
        /\ writer' = [state |-> "messages", batch |-> pending, final |-> final,
                      own |-> IF own THEN <<[signal |-> "logs", id |-> Len(log) + 1]>> ELSE <<>>]
    BY <1>5 DEF BeginWrite
  <2>3. Plain(writer'.own)
    <3> DEFINE m == [signal |-> "logs", id |-> Len(log) + 1]
    <3>1. m \in Message /\ m.signal # "metrics"
      BY <1>t, Messages DEF LogTyped
    <3> HIDE DEF m
    <3>2. writer'.own = <<m>> \/ writer'.own = <<>>
      BY <2>2 DEF m
    <3> QED
      BY <3>1, <3>2, PlainQueues
  <2>4. Deltas'
    BY <2>1, <2>3, PlainQueues DEF Ends, Deltas, static, metrics
  <2>5. Leaving'
    BY <2>1, <2>2 DEF Leaving
  <2>6. phase = "on" /\ phase' = "on"
    BY <2>1 DEF Ends, Over, Gone, core
  <2>7. OnlyLoud'
    <3>1. \A n \in 1 .. Len(log) : log'[n] = log[n]
      BY <1>t, <2>2 DEF LogTyped
    <3> QED
      BY <1>t, <2>1, <3>1 DEF OutTyped, Ends, OnlyLoud, core
  <2> QED
    BY <2>4, <2>5, <2>6, <2>7 DEF Ends, Over
<1>6. CASE WriteOne
  <2>1. UNCHANGED <<static, plugin, recorder, log, pending, metrics, lost, value, talk, exporter, phase>>
    BY <1>6 DEF WriteOne
  <2>2. writer.batch # <<>> /\ ReadEvent(Head(writer.batch)) /\ writer' = [writer EXCEPT !.batch = Tail(@)]
    BY <1>6 DEF WriteOne
  <2>3. Known(Head(writer.batch), log, span)
    BY <2>2, SoundQueues DEF Sorted, Routes
  <2>4. writer # Idle /\ writer'.state = writer.state /\ writer'.own = writer.own /\ writer'.final = writer.final
    BY <1>t, <2>2 DEF Idle, WriterTyped
  <2>5. Deltas'
    BY <2>1, <2>4 DEF Ends, Deltas, static, metrics
  <2>6. Leaving'
    BY <2>1, <2>4 DEF Ends, Leaving, Cleared, metrics
  <2>7. phase = "on" /\ phase' = "on"
    BY <1>t, <2>1, <2>4 DEF Ends, Leaving, Over, Gone
  <2>8. OnlyLoud'
    BY <2>1, <2>2, <2>3, ForwardLoud DEF ReadEvent, Ends, OnlyLoud
  <2> QED
    BY <2>5, <2>6, <2>7, <2>8 DEF Ends, Over
<1>7. CASE WriteMetrics
  <2>1. UNCHANGED <<static, plugin, recorder, log, pending, value, core>> /\ writer.state = "messages" /\ plugin # "killed"
    BY <1>7 DEF WriteMetrics
  <2>2. \/ TakeSeries
        \/ ~writer.final /\ writer' = [writer EXCEPT !.state = "metrics"] /\ UNCHANGED metrics
    BY <1>7 DEF WriteMetrics
  <2>3. /\ writer'.state \in {"counting", "metrics"} /\ writer'.own = writer.own /\ writer'.final = writer.final
        /\ writer'.state = "counting" => gathered' = 0 /\ beyond' = 0
        /\ writer'.state = "metrics" => ~writer.final
    <3>1. CASE TakeSeries
      BY <1>t, <3>1 DEF WriterTyped, TakeSeries
    <3>2. CASE ~writer.final /\ writer' = [writer EXCEPT !.state = "metrics"] /\ UNCHANGED metrics
      BY <1>t, <3>2 DEF WriterTyped
    <3> QED
      BY <2>2, <3>1, <3>2
  <2>4. Deltas'
    BY <2>1, <2>3 DEF Ends, Deltas, static
  <2>5. plugin # "left"
    BY <2>1 DEF Ends, Leaving, Idle
  <2>6. Leaving'
    BY <1>t, <2>1, <2>3, <2>5 DEF Ends, Leaving, PluginTyped
  <2>7. Over' /\ OnlyLoud'
    BY <2>1 DEF Ends, Over, OnlyLoud, Gone, core
  <2> QED
    BY <2>4, <2>6, <2>7 DEF Ends
<1>16. CASE TakeCounters
  <2>1. /\ UNCHANGED <<static, plugin, recorder, log, pending, metrics, value, core>> /\ lost' = Zero
        /\ writer.state = "counting" /\ plugin # "killed"
        /\ writer' = [writer EXCEPT !.state = "metrics", !.batch = Delta]
    BY <1>16 DEF TakeCounters
  <2>2. writer'.state = "metrics" /\ writer'.own = writer.own /\ writer'.final = writer.final
    BY <1>t, <2>1 DEF WriterTyped
  <2>3. Deltas'
    BY <2>1, <2>2 DEF Ends, Deltas, static
  <2>4. plugin # "left"
    BY <2>1 DEF Ends, Leaving, Idle
  <2>5. Leaving'
    BY <1>t, <2>1, <2>2, <2>4 DEF Ends, Leaving, Cleared, PluginTyped, metrics
  <2>6. Over' /\ OnlyLoud'
    BY <2>1 DEF Ends, Over, OnlyLoud, Gone, core
  <2> QED
    BY <2>3, <2>5, <2>6 DEF Ends
<1>8. CASE EndWrite
  <2>1. UNCHANGED <<static, recorder, log, pending, metrics, lost, value, core>> /\ writer.state = "metrics" /\ plugin # "killed"
    BY <1>8 DEF EndWrite
  <2>2. plugin # "left"
    BY <2>1 DEF Ends, Leaving, Idle
  <2>3. CASE writer.own # <<>>
    <3>1. writer' = [writer EXCEPT !.batch = writer.own, !.own = <<>>] /\ UNCHANGED plugin
      BY <1>8, <2>3 DEF EndWrite
    <3>2. plugin = "working" /\ writer'.own = <<>> /\ writer'.state = "metrics" /\ writer'.final = writer.final
      BY <1>t, <2>1, <2>2, <2>3, <3>1 DEF Ends, Leaving, PluginTyped, WriterTyped
    <3>3. Deltas'
      BY <2>1, <3>2, PlainQueues DEF Ends, Deltas, static, metrics
    <3>4. Leaving'
      BY <3>1, <3>2 DEF Ends, Leaving
    <3>5. Over' /\ OnlyLoud'
      BY <2>1, <3>1 DEF Ends, Over, OnlyLoud, Gone, core
    <3> QED
      BY <3>3, <3>4, <3>5 DEF Ends
  <2>4. CASE writer.own = <<>>
    <3>1. writer' = Idle /\ plugin' = IF writer.final THEN "left" ELSE plugin
      BY <1>8, <2>4 DEF EndWrite
    <3>2. Deltas'
      BY <2>1, <3>1, PlainQueues DEF Ends, Deltas, static, metrics, Idle
    <3>3. (plugin = "working" /\ ~writer.final) \/ (plugin = "concluding" /\ writer.final)
      <4>1. plugin \in {"working", "concluding"}
        BY <1>t, <2>1, <2>2 DEF PluginTyped
      <4> QED
        BY <4>1 DEF Ends, Leaving
    <3>4. Leaving'
      BY <2>1, <3>1, <3>3 DEF Ends, Leaving, Cleared, Idle, metrics
    <3>5. phase = "on" /\ phase' = "on"
      BY <2>1, <3>3 DEF Ends, Over, Gone, core
    <3>6. OnlyLoud'
      BY <2>1 DEF Ends, OnlyLoud, core
    <3> QED
      BY <3>2, <3>4, <3>5, <3>6 DEF Ends, Over
  <2> QED
    BY <2>3, <2>4
<1>9. CASE Killed
  <2>1. /\ UNCHANGED <<static, span, measured, log, value, core>> /\ plugin' = "killed" /\ plugin \in {"working", "concluding"}
        /\ pending' = <<>> /\ writer' = Idle
    BY <1>9 DEF Killed
  <2>2. Deltas'
    BY <2>1, PlainQueues DEF Ends, Deltas, static, Idle
  <2>3. Leaving'
    BY <2>1 DEF Leaving
  <2>4. phase = "on" /\ phase' = "on"
    BY <2>1 DEF Ends, Over, Gone, core
  <2>5. OnlyLoud'
    BY <2>1 DEF Ends, OnlyLoud, core
  <2> QED
    BY <2>2, <2>3, <2>4, <2>5 DEF Ends, Over
<1>10. CASE Talks
  <2>1. UNCHANGED <<memory, plugin, held, out, queued, crowded, exporter, phase>>
    BY <1>10 DEF Talks, FetchValue, HearValue, TalkEnds, core
  <2>2. Over' /\ OnlyLoud'
    BY <2>1 DEF Ends, Over, OnlyLoud, Gone, memory
  <2> QED
    BY <2>1, <2>2, OthersEnds
<1>11. CASE ReleaseHeld
  <2>1. UNCHANGED <<memory, plugin, exporter, phase>> /\ held # <<>> /\ Forward(Head(held))
    BY <1>11 DEF ReleaseHeld
  <2>2. Known(Head(held), log, span)
    BY <2>1, SoundQueues DEF Sorted, Routes
  <2>3. OnlyLoud'
    BY <2>1, <2>2, ForwardLoud DEF memory
  <2>4. phase = "on" /\ phase' = "on"
    BY <2>1 DEF Ends, Over
  <2>5. Over'
    BY <2>4 DEF Over
  <2> QED
    BY <2>1, <2>3, <2>5, OthersEnds
<1>12. CASE \E sig \in Signals : Export(sig)
  <2>1. UNCHANGED <<memory, plugin, held, out, crowded, phase>> /\ phase = "flushing"
    BY <1>12 DEF Export
  <2>2. Over' /\ OnlyLoud'
    BY <2>1 DEF Ends, Over, OnlyLoud, Gone, memory
  <2> QED
    BY <2>1, <2>2, OthersEnds
<1>13. CASE Shutdown
  <2>1. UNCHANGED <<memory, plugin, held, out, queued, crowded, exporter>> /\ Gone /\ held = <<>> /\ phase' = "flushing"
    BY <1>13 DEF Shutdown
  <2>2. Over' /\ OnlyLoud'
    BY <2>1 DEF Ends, Over, OnlyLoud, Gone, memory
  <2> QED
    BY <2>1, <2>2, OthersEnds
<1>14. CASE FlushEnds
  <2>1. UNCHANGED <<memory, plugin, held, out, queued, crowded, exporter>> /\ phase = "flushing" /\ phase' = "ended"
    BY <1>14 DEF FlushEnds
  <2>2. queued = {} \/ \E sig \in Signals : exporter[sig] = "hung"
    BY <1>14, <1>t DEF FlushEnds, Flushed, EndTyped, QueueTyped
  <2>3. Over' /\ OnlyLoud'
    BY <2>1, <2>2 DEF Ends, Over, OnlyLoud, Gone, memory
  <2> QED
    BY <2>1, <2>3, OthersEnds
<1>15. CASE UNCHANGED vars
  <2>1. UNCHANGED <<memory, plugin, held, out, queued, crowded, exporter, phase>>
    BY <1>15 DEF vars, memory, static, recorder, metrics
  <2>2. Over' /\ OnlyLoud'
    BY <2>1 DEF Ends, Over, OnlyLoud, Gone, memory
  <2> QED
    BY <2>1, <2>2, OthersEnds
<1> QED
  BY <1>1, <1>2, <1>3, <1>4, <1>5, <1>6, <1>7, <1>8, <1>9, <1>10, <1>11, <1>12, <1>13, <1>14, <1>15, <1>16
     DEF Next, Recorder, Writes

\* The measurements in the series.
Taken == gathered + beyond

\* What is counted of kind k where it is no longer in a message.
Settled(k, l, o, g) == l[k] + o.lost[k] + (IF k = "metrics" THEN o.points + o.beyond + g ELSE 0)

\* The counts of kind k, in the messages of b and h, in the counters l, with the
\* exporters o and in the series g, are c together.
Tally(k, c, b, h, l, o, g) ==
    \E x, y \in Int : Total(b, k, x) /\ Total(h, k, y) /\ c = x + y + Settled(k, l, o, g)

OutType == [spans : SUBSET SpanIds, logs : SUBSET (1 .. Len(log)), points : Nat, beyond : Nat, lost : [Kinds -> Nat]]

Loud == {n \in 1 .. Len(log) : log[n].loud}
EndedSpans == {s \in SpanIds : span[s].state \in {"closed", "shed", "over", "dropped"}}
LogsKept ==
    Loud \cap (out.logs \cup Carried(pending, "logs") \cup Carried(writer.batch, "logs")
                   \cup Carried(writer.own, "logs") \cup Carried(held, "logs"))
SpansKept ==
    out.spans \cup Carried(pending, "traces") \cup Carried(writer.batch, "traces")
        \cup Carried(writer.own, "traces") \cup Carried(held, "traces")

\* While nothing was dropped but by the recorder, every line, span and
\* measurement is kept or counted.
Accounts ==
    plugin # "killed" /\ ~overflow /\ "metrics" \in settings.signals =>
        /\ Tally("metrics", measured, writer.batch, held, lost, out, Taken)
        /\ "logs" \in settings.signals =>
               Tally("logs", Cardinality(Loud) - Cardinality(LogsKept), writer.batch, held, lost, out, Taken)
        /\ "traces" \in settings.signals =>
               Tally("spans", Cardinality(EndedSpans) - Cardinality(SpansKept),
                     writer.batch, held, lost, out, Taken)

\* What is counted is a number.
LEMMA SettledInt ==
    ASSUME NEW k \in Kinds, NEW l \in [Kinds -> Nat], NEW o, o.lost \in [Kinds -> Nat], o.points \in Nat, o.beyond \in Nat, NEW g \in Nat
    PROVE  Settled(k, l, o, g) \in Int
BY DEF Settled

\* A counter that counts d more, or a series that takes as many measurements.
LEMMA TallyAdds ==
    ASSUME NEW k \in Kinds, NEW c \in Int, NEW b, NEW h, NEW o, o.lost \in [Kinds -> Nat], o.points \in Nat, o.beyond \in Nat,
           NEW l \in [Kinds -> Nat], NEW g \in Nat, NEW m \in [Kinds -> Nat], NEW j \in Nat, NEW d \in Nat,
           m[k] + (IF k = "metrics" THEN j ELSE 0) = l[k] + (IF k = "metrics" THEN g ELSE 0) + d,
           Tally(k, c, b, h, l, o, g)
    PROVE  Tally(k, c + d, b, h, m, o, j)
<1> DEFINE s == Settled(k, l, o, g)
           r == Settled(k, m, o, j)
<1>1. PICK x \in Int, y \in Int : Total(b, k, x) /\ Total(h, k, y) /\ c = x + y + s
  BY DEF Tally
<1>2. s \in Int /\ r = s + d
  <2>1. l[k] \in Nat /\ m[k] \in Nat /\ o.lost[k] \in Nat
    OBVIOUS
  <2>2. CASE k = "metrics"
    <3>1. m[k] + j = l[k] + g + d
      BY <2>2
    <3> QED
      BY <2>1, <2>2, <3>1 DEF Settled
  <2>3. CASE k # "metrics"
    <3>1. m[k] + 0 = l[k] + 0 + d
      BY <2>3
    <3> QED
      BY <2>1, <2>3, <3>1 DEF Settled
  <2> QED
    BY <2>2, <2>3
<1> HIDE DEF s, r
<1>3. c + d = x + y + r
  BY <1>1, <1>2
<1> QED
  BY <1>1, <1>3 DEF Tally, r

\* A message forwarded is counted where it arrives, and seen there.
LEMMA ForwardMoves ==
    ASSUME Sorted, UNCHANGED <<log, span>>, "metrics" \in settings.signals, NEW msg, Known(msg, log, span), Forward(msg)
    PROVE  /\ \A k \in Kinds, l \in [Kinds -> Nat], g \in Nat :
                  Settled(k, l, out', g) = Settled(k, l, out, g) + Weight(msg, k)
           /\ "logs" \in settings.signals => Loud \cap out'.logs = Loud \cap (out.logs \cup Bears(msg, "logs"))
           /\ "traces" \in settings.signals => out'.spans = out.spans \cup Bears(msg, "traces")
<1>1. /\ msg.signal \in Signals /\ msg \in Message
      /\ msg.signal = "logs" => msg.id \in 1 .. Len(log)
      /\ msg.signal = "metrics" => msg.points \in Nat /\ msg.beyond \in Nat /\ msg.lost \in [Kinds -> Nat]
  BY Carries DEF Known
<1>2. out \in OutType
  BY TypesAre DEF Sorted, OutTyped, OutType
<1>3. CASE ~Exports(msg) /\ UNCHANGED out
  <2>1. msg.signal # "metrics"
    BY <1>3 DEF Exports
  <2>2. \A k \in Kinds : Weight(msg, k) = 0
    BY <2>1 DEF Weight
  <2>3. ASSUME NEW k \in Kinds, NEW l \in [Kinds -> Nat], NEW g \in Nat
        PROVE  Settled(k, l, out', g) = Settled(k, l, out, g) + Weight(msg, k)
    <3>1. Settled(k, l, out, g) \in Int
      BY <1>2, SettledInt DEF OutType
    <3>2. out' = out
      BY <1>3
    <3> QED
      BY <2>2, <3>1, <3>2
  <2>4. "logs" \in settings.signals => Loud \cap Bears(msg, "logs") = {}
    BY <1>1, <1>3 DEF Exports, Loud, Bears
  <2>5. "traces" \in settings.signals => Bears(msg, "traces") = {}
    BY <1>3 DEF Exports, Bears
  <2> QED
    BY <1>3, <2>3, <2>4, <2>5
<1>4. CASE out' = With(msg)
  <2>1. CASE msg.signal = "metrics"
    <3> DEFINE q == [k \in Kinds |-> out.lost[k] + msg.lost[k]]
    <3>1. out' = [out EXCEPT !.points = out.points + msg.points, !.beyond = out.beyond + msg.beyond, !.lost = q]
      BY <1>2, <1>4, <2>1 DEF With, Remeasured, OutType
    <3>2. \A k \in Kinds : q[k] = out.lost[k] + msg.lost[k]
      OBVIOUS
    <3> HIDE DEF q
    <3>3. out'.points = out.points + msg.points /\ out'.beyond = out.beyond + msg.beyond /\ out'.lost = q /\ out'.logs = out.logs /\ out'.spans = out.spans
      BY <1>2, <3>1 DEF OutType
    <3>4. ASSUME NEW k \in Kinds, NEW l \in [Kinds -> Nat], NEW g \in Nat
          PROVE  Settled(k, l, out', g) = Settled(k, l, out, g) + Weight(msg, k)
      <4>1. l[k] \in Nat /\ out.lost[k] \in Nat /\ msg.lost[k] \in Nat /\ out.points \in Nat /\ out.beyond \in Nat
            /\ msg.points \in Nat /\ msg.beyond \in Nat
        BY <1>1, <1>2, <2>1 DEF OutType
      <4> QED
        BY <2>1, <3>2, <3>3, <4>1 DEF Settled, Weight
    <3>5. Bears(msg, "logs") = {} /\ Bears(msg, "traces") = {}
      BY <2>1 DEF Bears
    <3> QED
      BY <3>3, <3>4, <3>5
  <2>2. CASE msg.signal = "logs"
    <3>1. out'.points = out.points /\ out'.beyond = out.beyond /\ out'.lost = out.lost /\ out'.logs = out.logs \cup {msg.id} /\ out'.spans = out.spans
      BY <1>2, <1>4, <2>2 DEF With, OutType
    <3>2. \A k \in Kinds : Weight(msg, k) = 0
      BY <2>2 DEF Weight
    <3>3. \A k \in Kinds, l \in [Kinds -> Nat], g \in Nat :
              Settled(k, l, out', g) = Settled(k, l, out, g) /\ Settled(k, l, out, g) \in Int
      BY <1>2, <3>1, SettledInt DEF Settled, OutType
    <3> QED
      BY <2>2, <3>1, <3>2, <3>3 DEF Bears
  <2>3. CASE msg.signal = "traces"
    <3>1. out'.points = out.points /\ out'.beyond = out.beyond /\ out'.lost = out.lost /\ out'.logs = out.logs /\ out'.spans = out.spans \cup {msg.id}
      BY <1>2, <1>4, <2>3 DEF With, OutType
    <3>2. \A k \in Kinds : Weight(msg, k) = 0
      BY <2>3 DEF Weight
    <3>3. \A k \in Kinds, l \in [Kinds -> Nat], g \in Nat :
              Settled(k, l, out', g) = Settled(k, l, out, g) /\ Settled(k, l, out, g) \in Int
      BY <1>2, <3>1, SettledInt DEF Settled, OutType
    <3> QED
      BY <2>3, <3>1, <3>2, <3>3 DEF Bears
  <2> QED
    BY <1>1, <2>1, <2>2, <2>3 DEF Signals
<1> QED
  BY <1>3, <1>4 DEF Forward

\* A step that moves messages: nothing is dropped, nothing is counted twice.
Moved ==
    /\ \A k \in Kinds, c \in Int :
           Tally(k, c, writer.batch, held, lost, out, Taken) =>
               Tally(k, c, writer'.batch, held', lost', out', Taken')
    /\ "logs" \in settings.signals => LogsKept' = LogsKept
    /\ "traces" \in settings.signals => SpansKept' = SpansKept

\* A message goes from one queue to the exporters, or to another queue, with its count.
LEMMA TallyMoves ==
    ASSUME NEW k \in Kinds, NEW c \in Int, NEW b \in Seq(Message), b # <<>>, NEW h \in Seq(Message),
           NEW l \in [Kinds -> Nat], NEW g \in Nat,
           NEW o, o.lost \in [Kinds -> Nat], o.points \in Nat, o.beyond \in Nat, NEW u
    PROVE  /\ Settled(k, l, u, g) = Settled(k, l, o, g) + Weight(Head(b), k) =>
                  /\ Tally(k, c, b, h, l, o, g) => Tally(k, c, Tail(b), h, l, u, g)
                  /\ Tally(k, c, h, b, l, o, g) => Tally(k, c, h, Tail(b), l, u, g)
           /\ Tally(k, c, b, h, l, o, g) => Tally(k, c, Tail(b), Append(h, Head(b)), l, o, g)
<1> DEFINE s == Settled(k, l, o, g)
           w == Weight(Head(b), k)
           r == Settled(k, l, u, g)
<1>1. Head(b) \in Message /\ w \in Nat
  <2>1. Head(b) \in Message
    OBVIOUS
  <2> QED
    BY <2>1, WeightNat
<1>2. s \in Int
  BY SettledInt
<1>3. \A t \in Int : Total(b, k, t) => Total(Tail(b), k, t - w)
  BY Totals
<1>4. \A t \in Int : Total(h, k, t) => Total(Append(h, Head(b)), k, t + w)
  BY <1>1, Totals
<1> HIDE DEF s, w, r
<1>5. ASSUME r = s + w, Tally(k, c, b, h, l, o, g) PROVE Tally(k, c, Tail(b), h, l, u, g)
  <2>1. PICK x \in Int, y \in Int : Total(b, k, x) /\ Total(h, k, y) /\ c = x + y + s
    BY <1>5 DEF Tally, s
  <2>2. x - w \in Int /\ c = (x - w) + y + r
    BY <1>1, <1>2, <1>5, <2>1
  <2> QED
    BY <1>3, <2>1, <2>2 DEF Tally, r
<1>6. ASSUME r = s + w, Tally(k, c, h, b, l, o, g) PROVE Tally(k, c, h, Tail(b), l, u, g)
  <2>1. PICK x \in Int, y \in Int : Total(h, k, x) /\ Total(b, k, y) /\ c = x + y + s
    BY <1>6 DEF Tally, s
  <2>2. y - w \in Int /\ c = x + (y - w) + r
    BY <1>1, <1>2, <1>6, <2>1
  <2> QED
    BY <1>3, <2>1, <2>2 DEF Tally, r
<1>7. ASSUME Tally(k, c, b, h, l, o, g) PROVE Tally(k, c, Tail(b), Append(h, Head(b)), l, o, g)
  <2>1. PICK x \in Int, y \in Int : Total(b, k, x) /\ Total(h, k, y) /\ c = x + y + s
    BY <1>7 DEF Tally, s
  <2>2. x - w \in Int /\ y + w \in Int /\ c = (x - w) + (y + w) + s
    BY <1>1, <1>2, <2>1
  <2> QED
    BY <1>3, <1>4, <2>1, <2>2 DEF Tally, s
<1> QED
  BY <1>5, <1>6, <1>7 DEF s, w, r

\* One message read moves from the write to the exporters, or to what is held.
LEMMA WriteOneMoves ==
    ASSUME Sorted, "metrics" \in settings.signals, WriteOne, ~overflow'
    PROVE  Moved
<1>1. UNCHANGED <<log, span, pending, lost, Taken>>
  BY DEF WriteOne, recorder, metrics, Taken
<1>2. writer.batch # <<>> /\ ReadEvent(Head(writer.batch)) /\ writer' = [writer EXCEPT !.batch = Tail(@)]
  BY DEF WriteOne
<1>3. WriterTyped /\ held \in Seq(Message) /\ CountsTyped /\ out \in OutType
  BY TypesAre DEF Sorted, HeldTyped, OutTyped, OutType
<1> DEFINE b == writer.batch
           m == Head(b)
<1>4. b \in Seq(Message) /\ m \in Message /\ Known(m, log, span)
  <2>1. Known(m, log, span)
    BY <1>2, SoundQueues DEF Sorted, Routes
  <2> HIDE DEF m
  <2>2. b \in Seq(Message)
    BY <1>3 DEF WriterTyped
  <2> QED
    BY <2>1, <2>2 DEF Known
<1>5. writer'.batch = Tail(b) /\ writer'.own = writer.own
  BY <1>2, <1>3 DEF WriterTyped
<1>6. lost \in [Kinds -> Nat] /\ Taken \in Nat /\ out.lost \in [Kinds -> Nat] /\ out.points \in Nat /\ out.beyond \in Nat
  BY <1>3 DEF CountsTyped, OutType, Taken
<1>7. \A sig : Carried(b, sig) = Carried(Tail(b), sig) \cup Bears(m, sig)
  BY <1>2, <1>4, Carryings
<1>8. Loud' = Loud
  BY <1>1 DEF Loud
<1> HIDE DEF b, m
<1>9. CASE mode = "drain" /\ Forward(m) /\ UNCHANGED held
  <2>1. /\ \A k \in Kinds : Settled(k, lost, out', Taken) = Settled(k, lost, out, Taken) + Weight(m, k)
        /\ "logs" \in settings.signals => Loud \cap out'.logs = Loud \cap (out.logs \cup Bears(m, "logs"))
        /\ "traces" \in settings.signals => out'.spans = out.spans \cup Bears(m, "traces")
    BY <1>1, <1>4, <1>6, <1>9, ForwardMoves
  <2>2. ASSUME NEW k \in Kinds, NEW c \in Int, Tally(k, c, b, held, lost, out, Taken)
        PROVE  Tally(k, c, Tail(b), held, lost, out', Taken)
    BY <1>2, <1>3, <1>4, <1>6, <2>1, <2>2, TallyMoves DEF b, m
  <2>3. "logs" \in settings.signals => LogsKept' = LogsKept
    BY <1>1, <1>5, <1>7, <1>8, <1>9, <2>1 DEF LogsKept, b
  <2>4. "traces" \in settings.signals => SpansKept' = SpansKept
    BY <1>1, <1>5, <1>7, <1>9, <2>1 DEF SpansKept, b
  <2> QED
    BY <1>1, <1>5, <1>9, <2>2, <2>3, <2>4 DEF Moved, b
<1>10. CASE mode = "hold" /\ Hold(m) /\ UNCHANGED out
  <2>1. held' = Append(held, m)
    <3>1. ~(Len(held) >= MaxHeld)
      BY <1>10, Zenon DEF Hold
    <3> QED
      BY <1>3, <1>10, <3>1, BoundsAssumption DEF Hold
  <2>2. \A sig : Carried(held', sig) = Carried(held, sig) \cup Bears(m, sig)
    BY <1>3, <1>4, <2>1, Carryings
  <2>3. ASSUME NEW k \in Kinds, NEW c \in Int, Tally(k, c, b, held, lost, out, Taken)
        PROVE  Tally(k, c, Tail(b), Append(held, m), lost, out, Taken)
    BY <1>2, <1>3, <1>4, <1>6, <2>3, TallyMoves DEF b, m
  <2>4. LogsKept' = LogsKept
    BY <1>1, <1>5, <1>7, <1>8, <1>10, <2>2 DEF LogsKept, b
  <2>5. SpansKept' = SpansKept
    BY <1>1, <1>5, <1>7, <1>10, <2>2 DEF SpansKept, b
  <2> QED
    BY <1>1, <1>5, <1>10, <2>1, <2>3, <2>4, <2>5 DEF Moved, b
<1> QED
  BY <1>2, <1>9, <1>10 DEF ReadEvent, b, m

\* One held moves to the exporters.
LEMMA ReleaseHeldMoves ==
    ASSUME Sorted, "metrics" \in settings.signals, ReleaseHeld
    PROVE  Moved
<1>1. UNCHANGED <<log, span, pending, lost, Taken, writer>>
  BY DEF ReleaseHeld, memory, recorder, metrics, Taken
<1>2. held # <<>> /\ Forward(Head(held)) /\ held' = Tail(held)
  BY DEF ReleaseHeld
<1>3. WriterTyped /\ held \in Seq(Message) /\ CountsTyped /\ out \in OutType
  BY TypesAre DEF Sorted, HeldTyped, OutTyped, OutType
<1> DEFINE m == Head(held)
<1>4. writer.batch \in Seq(Message) /\ m \in Message /\ Known(m, log, span)
  BY <1>2, <1>3, SoundQueues DEF Sorted, Routes, WriterTyped, Sound
<1>6. lost \in [Kinds -> Nat] /\ Taken \in Nat /\ out.lost \in [Kinds -> Nat] /\ out.points \in Nat /\ out.beyond \in Nat
  BY <1>3 DEF CountsTyped, OutType, Taken
<1>7. \A sig : Carried(held, sig) = Carried(held', sig) \cup Bears(m, sig)
  BY <1>2, <1>3, Carryings
<1>8. Loud' = Loud
  BY <1>1 DEF Loud
<1> HIDE DEF m
<1>9. /\ \A k \in Kinds : Settled(k, lost, out', Taken) = Settled(k, lost, out, Taken) + Weight(m, k)
      /\ "logs" \in settings.signals => Loud \cap out'.logs = Loud \cap (out.logs \cup Bears(m, "logs"))
      /\ "traces" \in settings.signals => out'.spans = out.spans \cup Bears(m, "traces")
  BY <1>1, <1>2, <1>4, <1>6, ForwardMoves DEF m
<1>10. ASSUME NEW k \in Kinds, NEW c \in Int, Tally(k, c, writer.batch, held, lost, out, Taken)
       PROVE  Tally(k, c, writer.batch, Tail(held), lost, out', Taken)
  BY <1>2, <1>3, <1>4, <1>6, <1>9, <1>10, TallyMoves DEF m
<1>11. "logs" \in settings.signals => LogsKept' = LogsKept
  BY <1>1, <1>7, <1>8, <1>9 DEF LogsKept
<1>12. "traces" \in settings.signals => SpansKept' = SpansKept
  BY <1>1, <1>7, <1>9 DEF SpansKept
<1> QED
  BY <1>1, <1>2, <1>10, <1>11, <1>12 DEF Moved

\* What one message counts.
LEMMA TotalOne ==
    ASSUME NEW k \in Kinds, NEW m \in Message
    PROVE  /\ Total(<<m>>, k, Weight(m, k)) /\ Weight(m, k) \in Nat
           /\ \A t \in Int : Total(<<m>>, k, t) => t = Weight(m, k)
<1>1. Weight(m, k) \in Nat
  BY WeightNat
<1>2. Total(<<m>>, k, 0 + Weight(m, k))
  <2>1. Total(<<>>, k, 0) /\ <<>> \in Seq(Message) /\ 0 \in Int /\ Append(<<>>, m) = <<m>>
    BY Totals
  <2> QED
    BY <2>1, Totals
<1>3. ASSUME NEW t \in Int, Total(<<m>>, k, t) PROVE t = Weight(m, k)
  <2>1. <<m>> \in Seq(Message) /\ <<m>> # <<>> /\ Tail(<<m>>) = <<>> /\ Head(<<m>>) = m
    OBVIOUS
  <2>2. Total(<<>>, k, t - Weight(m, k))
    BY <1>3, <2>1, Totals
  <2>3. t - Weight(m, k) = 0
    BY <2>2, Totals
  <2> QED
    BY <1>1, <2>3
<1> QED
  BY <1>1, <1>2, <1>3

\* Counts taken from the counters or the series into the write, or back, are
\* the same together.
LEMMA TallyTakes ==
    ASSUME NEW k \in Kinds, NEW c \in Int, NEW b, NEW d, NEW h, NEW l, NEW m, NEW o, NEW g, NEW j,
           NEW x \in Int, \A t \in Int : Total(b, k, t) => t = x,
           NEW y \in Int, Total(d, k, y),
           Settled(k, l, o, g) \in Int, Settled(k, m, o, j) \in Int,
           x + Settled(k, l, o, g) = y + Settled(k, m, o, j),
           Tally(k, c, b, h, l, o, g)
    PROVE  Tally(k, c, d, h, m, o, j)
<1>1. PICK u \in Int, v \in Int : Total(b, k, u) /\ Total(h, k, v) /\ c = u + v + Settled(k, l, o, g)
  BY DEF Tally
<1>2. u = x
  BY <1>1
<1>3. c = y + v + Settled(k, m, o, j)
  BY <1>1, <1>2
<1> QED
  BY <1>1, <1>3 DEF Tally

\* A write that is a delta, or nothing, carries no line and no span.
LEMMA DeltaCarries ==
    ASSUME NEW m \in Message, m.signal = "metrics"
    PROVE  /\ Carried(<<m>>, "logs") = {} /\ Carried(<<m>>, "traces") = {}
           /\ Carried(<<>>, "logs") = {} /\ Carried(<<>>, "traces") = {}
<1>1. \A sig \in {"logs", "traces"} : Bears(m, sig) = {}
  BY DEF Bears
<1>2. <<>> \in Seq(Message)
  OBVIOUS
<1> QED
  BY <1>1, <1>2, Carryings

\* The delta takes what the series held.
LEMMA WriteMetricsMoves ==
    ASSUME Sorted, Ends, "metrics" \in settings.signals, WriteMetrics
    PROVE  Moved
<1>1. UNCHANGED <<log, span, pending, lost, held, out>> /\ writer.batch = <<>>
  BY DEF WriteMetrics, recorder, core
<1>2. WriterTyped /\ CountsTyped /\ out \in OutType
  BY TypesAre DEF Sorted, OutTyped, OutType
<1>3. /\ lost \in [Kinds -> Nat] /\ gathered \in Nat /\ beyond \in Nat /\ Taken \in Nat
      /\ out.lost \in [Kinds -> Nat] /\ out.points \in Nat /\ out.beyond \in Nat
  BY <1>2 DEF CountsTyped, OutType, Taken
<1>4. Loud' = Loud
  BY <1>1 DEF Loud
<1>5. CASE writer' = [writer EXCEPT !.state = "metrics"] /\ UNCHANGED metrics
  <2>1. writer'.batch = writer.batch /\ writer'.own = writer.own /\ Taken' = Taken
    BY <1>2, <1>5 DEF WriterTyped, metrics, Taken
  <2> QED
    BY <1>1, <1>4, <2>1 DEF Moved, LogsKept, SpansKept
<1>6. CASE TakeSeries
  <2> DEFINE m == Fresh(gathered, beyond)
  <2>1. writer'.batch = <<m>> /\ writer'.own = writer.own /\ Taken' = 0
    BY <1>2, <1>6 DEF WriterTyped, TakeSeries, Taken, Fresh
  <2>2. /\ m \in Message /\ m.signal = "metrics"
        /\ \A k \in Kinds : Weight(m, k) = IF k = "metrics" THEN Taken ELSE 0
    BY <1>3, Messages DEF Weight, Fresh, Taken
  <2> HIDE DEF m
  <2>3. ASSUME NEW k \in Kinds, NEW c \in Int, Tally(k, c, <<>>, held, lost, out, Taken)
        PROVE  Tally(k, c, <<m>>, held, lost, out, 0)
    <3>1. Settled(k, lost, out, Taken) \in Int /\ Settled(k, lost, out, 0) \in Int
      BY <1>3, SettledInt
    <3>2. Settled(k, lost, out, Taken) = Weight(m, k) + Settled(k, lost, out, 0)
      BY <1>3, <2>2 DEF Settled
    <3>3. \A t \in Int : Total(<<>>, k, t) => t = 0
      BY Totals
    <3>4. Total(<<m>>, k, Weight(m, k)) /\ Weight(m, k) \in Int
      BY <2>2, TotalOne
    <3>5. 0 \in Int /\ 0 + Settled(k, lost, out, Taken) = Weight(m, k) + Settled(k, lost, out, 0)
      BY <3>1, <3>2
    <3> QED
      BY <2>3, <3>1, <3>3, <3>4, <3>5, TallyTakes
  <2>4. LogsKept' = LogsKept /\ SpansKept' = SpansKept
    BY <1>1, <1>4, <2>1, <2>2, DeltaCarries DEF LogsKept, SpansKept
  <2> QED
    BY <1>1, <2>1, <2>3, <2>4 DEF Moved
<1> QED
  BY <1>5, <1>6 DEF WriteMetrics

\* And then what the counters held; a delta without anything is not written.
LEMMA TakeCountersMoves ==
    ASSUME Sorted, Ends, "metrics" \in settings.signals, TakeCounters
    PROVE  Moved
<1>1. /\ UNCHANGED <<log, span, pending, held, out>> /\ Taken' = Taken /\ lost' = Zero
      /\ writer.state = "counting" /\ writer' = [writer EXCEPT !.state = "metrics", !.batch = Delta]
  BY DEF TakeCounters, recorder, core, metrics, Taken
<1>2. WriterTyped /\ CountsTyped /\ out \in OutType /\ Routes
  BY TypesAre DEF Sorted, OutTyped, OutType
<1>3. /\ lost \in [Kinds -> Nat] /\ Taken \in Nat /\ Zero \in [Kinds -> Nat] /\ \A k \in Kinds : Zero[k] = 0
      /\ out.lost \in [Kinds -> Nat] /\ out.points \in Nat /\ out.beyond \in Nat
  BY <1>2, Messages DEF CountsTyped, OutType, Taken
<1>4. writer'.batch = Delta /\ writer'.own = writer.own /\ Loud' = Loud
  BY <1>1, <1>2 DEF WriterTyped, Loud
<1>5. PICK p \in Nat, b \in Nat : writer.batch = <<Fresh(p, b)>>
  BY <1>1, <1>2 DEF Routes
<1> DEFINE f == Fresh(p, b)
           m == [signal |-> "metrics", points |-> p, beyond |-> b, lost |-> lost]
<1>6. settings.on
  BY DEF Ends, Deltas
<1>7. Delta = <<m>> \/ (Delta = <<>> /\ p + b = 0 /\ \A k \in Kinds : ~(lost[k] > 0))
  BY <1>5, <1>6, DeltaIs
<1>8. /\ f \in Message /\ f.signal = "metrics" /\ m \in Message /\ m.signal = "metrics"
      /\ \A k \in Kinds : /\ Weight(f, k) = IF k = "metrics" THEN p + b ELSE 0
                          /\ Weight(m, k) = IF k = "metrics" THEN p + b + lost[k] ELSE lost[k]
  BY <1>3, Messages DEF Weight, Fresh
<1> HIDE DEF f, m
<1>9. ASSUME NEW k \in Kinds, NEW c \in Int, Tally(k, c, <<f>>, held, lost, out, Taken)
      PROVE  Tally(k, c, Delta, held, Zero, out, Taken)
  <2>1. Settled(k, lost, out, Taken) \in Int /\ Settled(k, Zero, out, Taken) \in Int
    BY <1>3, SettledInt
  <2>2. Settled(k, lost, out, Taken) = lost[k] + Settled(k, Zero, out, Taken) /\ lost[k] \in Nat
    BY <1>3 DEF Settled
  <2>3. Weight(f, k) \in Int /\ \A t \in Int : Total(<<f>>, k, t) => t = Weight(f, k)
    BY <1>8, TotalOne
  <2>4. CASE Delta = <<m>>
    <3>1. Total(<<m>>, k, Weight(m, k)) /\ Weight(m, k) \in Int
      BY <1>8, TotalOne
    <3>2. Weight(m, k) = Weight(f, k) + lost[k]
      BY <1>8, <2>2
    <3>3. Weight(f, k) + Settled(k, lost, out, Taken) = Weight(m, k) + Settled(k, Zero, out, Taken)
      BY <2>1, <2>2, <2>3, <3>1, <3>2
    <3> QED
      BY <1>9, <2>1, <2>3, <2>4, <3>1, <3>3, TallyTakes
  <2>5. CASE Delta = <<>> /\ p + b = 0 /\ \A j \in Kinds : ~(lost[j] > 0)
    <3>1. Total(<<>>, k, 0) /\ 0 \in Int
      BY Totals
    <3>2. Weight(f, k) = 0 /\ lost[k] = 0
      BY <1>8, <2>2, <2>5
    <3>3. Weight(f, k) + Settled(k, lost, out, Taken) = 0 + Settled(k, Zero, out, Taken)
      BY <2>1, <2>2, <3>2
    <3> QED
      BY <1>9, <2>1, <2>3, <2>5, <3>1, <3>3, TallyTakes
  <2> QED
    BY <1>7, <2>4, <2>5
<1>10. LogsKept' = LogsKept /\ SpansKept' = SpansKept
  <2>1. /\ Carried(writer.batch, "logs") = {} /\ Carried(writer.batch, "traces") = {}
        /\ Carried(Delta, "logs") = {} /\ Carried(Delta, "traces") = {}
    BY <1>5, <1>7, <1>8, DeltaCarries DEF f
  <2> QED
    BY <1>1, <1>4, <2>1 DEF LogsKept, SpansKept
<1> QED
  BY <1>1, <1>4, <1>5, <1>9, <1>10 DEF Moved, f

\* The plugin's own line goes last, and is no delta.
LEMMA EndWriteMoves ==
    ASSUME Sorted, Ends, EndWrite
    PROVE  Moved
<1>1. UNCHANGED <<log, span, pending, lost, Taken, held, out>> /\ writer.batch = <<>>
  BY DEF EndWrite, recorder, core, metrics, Taken
<1>2. WriterTyped
  BY TypesAre DEF Sorted
<1>3. writer'.batch = writer.own /\ writer'.own = <<>>
  <2>1. CASE writer.own # <<>>
    BY <1>2, <2>1 DEF EndWrite, WriterTyped
  <2>2. CASE writer.own = <<>>
    BY <2>2 DEF EndWrite, Idle
  <2> QED
    BY <2>1, <2>2
<1>4. \A k \in Kinds : Total(writer.own, k, 0)
  BY <1>2, Totals DEF Ends, Deltas, WriterTyped
<1>5. ASSUME NEW k \in Kinds, NEW c \in Int, Tally(k, c, <<>>, held, lost, out, Taken)
      PROVE  Tally(k, c, writer.own, held, lost, out, Taken)
  <2>1. PICK x \in Int, y \in Int : Total(<<>>, k, x) /\ Total(held, k, y) /\ c = x + y + Settled(k, lost, out, Taken)
    BY <1>5 DEF Tally
  <2>2. x = 0
    BY <2>1, Totals
  <2> QED
    BY <1>4, <2>1, <2>2 DEF Tally
<1>6. LogsKept' = LogsKept /\ SpansKept' = SpansKept
  <2>1. \A sig : Carried(<<>>, sig) = {}
    BY Carryings
  <2>2. Loud' = Loud
    BY <1>1 DEF Loud
  <2> QED
    BY <1>1, <1>3, <2>1, <2>2 DEF LogsKept, SpansKept
<1> QED
  BY <1>1, <1>3, <1>5, <1>6 DEF Moved

\* The lines and spans kept are some of those recorded, and there are finitely many.
LEMMA KeptFinite ==
    ASSUME Sorted
    PROVE  /\ IsFiniteSet(Loud) /\ LogsKept \subseteq Loud /\ IsFiniteSet(LogsKept)
           /\ IsFiniteSet(EndedSpans) /\ SpansKept \subseteq EndedSpans /\ IsFiniteSet(SpansKept)
           /\ Cardinality(Loud) \in Nat /\ Cardinality(LogsKept) \in Nat
           /\ Cardinality(EndedSpans) \in Nat /\ Cardinality(SpansKept) \in Nat
<1>1. LogTyped /\ OutTyped /\ Routes
  BY TypesAre DEF Sorted
<1>2. IsFiniteSet(Loud)
  <2>1. Len(log) \in Nat
    BY <1>1 DEF LogTyped
  <2>2. IsFiniteSet(1 .. Len(log))
    BY <2>1, FS_Interval
  <2> QED
    BY <2>2, FS_Subset DEF Loud
<1>3. LogsKept \subseteq Loud
  BY DEF LogsKept
<1>4. IsFiniteSet(EndedSpans)
  <2>1. IsFiniteSet(1 .. Spans)
    BY BoundsAssumption, FS_Interval
  <2> QED
    BY <2>1, FS_Subset DEF EndedSpans, SpanIds
<1>5. ASSUME NEW q, Sound(q, log, span) PROVE Carried(q, "traces") \subseteq EndedSpans
  <2>1. ASSUME NEW n \in 1 .. Len(q), q[n].signal = "traces" PROVE q[n].id \in EndedSpans
    <3>1. Known(q[n], log, span)
      BY <1>5, <2>1 DEF Sound
    <3>2. q[n].id \in SpanIds /\ span[q[n].id].state = "closed"
      BY <2>1, <3>1, Carries DEF Known
    <3> QED
      BY <3>2 DEF EndedSpans
  <2> QED
    BY <2>1 DEF Carried
<1>6. out.spans \subseteq EndedSpans
  BY <1>1 DEF Routes, OutTyped, EndedSpans
<1>7. SpansKept \subseteq EndedSpans
  BY <1>1, <1>5, <1>6 DEF SpansKept, Routes
<1>8. IsFiniteSet(LogsKept) /\ IsFiniteSet(SpansKept)
  BY <1>2, <1>3, <1>4, <1>7, FS_Subset
<1> QED
  BY <1>2, <1>3, <1>4, <1>7, <1>8, FS_CardinalityType

\* A step that only moves messages keeps the accounts.
LEMMA AccountsMoved ==
    ASSUME Sorted, Accounts, UNCHANGED <<settings, measured, log, span>>,
           plugin' # "killed" => plugin # "killed", ~overflow' => ~overflow,
           plugin' # "killed" /\ ~overflow' /\ "metrics" \in settings.signals => Moved
    PROVE  Accounts'
<1> SUFFICES ASSUME plugin' # "killed", ~overflow', "metrics" \in settings.signals PROVE Accounts'
  BY DEF Accounts
<1>1. Moved /\ plugin # "killed" /\ ~overflow
  OBVIOUS
<1>2. Loud' = Loud /\ EndedSpans' = EndedSpans
  BY DEF Loud, EndedSpans
<1>3. measured \in Int
  BY TypesAre DEF Sorted, PluginTyped
<1>4. Cardinality(Loud) - Cardinality(LogsKept) \in Int /\ Cardinality(EndedSpans) - Cardinality(SpansKept) \in Int
  BY KeptFinite
<1>5. {"metrics", "logs", "spans"} \subseteq Kinds
  BY DEF Kinds
<1>6. Tally("metrics", measured, writer'.batch, held', lost', out', Taken')
  BY <1>1, <1>3, <1>5 DEF Accounts, Moved
<1>7. "logs" \in settings.signals =>
          Tally("logs", Cardinality(Loud) - Cardinality(LogsKept), writer'.batch, held', lost', out', Taken')
  BY <1>1, <1>4, <1>5 DEF Accounts, Moved
<1>8. "traces" \in settings.signals =>
          Tally("spans", Cardinality(EndedSpans) - Cardinality(SpansKept), writer'.batch, held', lost', out', Taken')
  BY <1>1, <1>4, <1>5 DEF Accounts, Moved
<1>9. /\ "logs" \in settings.signals => LogsKept' = LogsKept
      /\ "traces" \in settings.signals => SpansKept' = SpansKept
  BY <1>1 DEF Moved
<1> QED
  BY <1>2, <1>6, <1>7, <1>8, <1>9 DEF Accounts

\* The measurements in the series are a number, before a step and after.
LEMMA TakenTyped == (CountsTyped => Taken \in Nat) /\ (CountsTyped' => Taken' \in Nat)
<1>1. CountsTyped => Taken \in Nat
  BY DEF CountsTyped, Taken
<1>2. ASSUME CountsTyped' PROVE Taken' \in Nat
  <2>1. gathered' \in Nat /\ beyond' \in Nat
    BY <1>2 DEF CountsTyped
  <2>2. \A a, b \in Nat : a + b \in Nat
    OBVIOUS
  <2>3. gathered' + beyond' \in Nat
    BY <2>1, <2>2
  <2> QED
    BY <2>3 DEF Taken
<1> QED
  BY <1>1, <1>2

\* A step that records: what it does not keep it counts.
LEMMA AccountsRecorded ==
    ASSUME Sorted, Sorted', Accounts, plugin # "killed", UNCHANGED <<settings, writer, held, out, overflow>>,
           NEW dl \in Nat, NEW ds \in Nat, NEW dm \in Nat,
           lost'["logs"] = lost["logs"] + dl, lost'["spans"] = lost["spans"] + ds,
           lost'["metrics"] + Taken' = lost["metrics"] + Taken + dm, measured' = measured + dm,
           Cardinality(Loud') - Cardinality(LogsKept') = (Cardinality(Loud) - Cardinality(LogsKept)) + dl,
           Cardinality(EndedSpans') - Cardinality(SpansKept') = (Cardinality(EndedSpans) - Cardinality(SpansKept)) + ds
    PROVE  Accounts'
<1> SUFFICES ASSUME plugin' # "killed", ~overflow, "metrics" \in settings.signals PROVE Accounts'
  BY DEF Accounts
<1>1. CountsTyped /\ CountsTyped' /\ out \in OutType
  <2>1. Sorted => CountsTyped
    BY TypesAre DEF Sorted
  <2>2. TypeOK'
    BY DEF Sorted
  <2>3. CountsTyped'
    BY <2>2 DEF TypeOK, CountsTyped
  <2> QED
    BY <2>1, <2>3, TypesAre DEF Sorted, OutTyped, OutType
<1>2. /\ lost \in [Kinds -> Nat] /\ Taken \in Nat /\ out.lost \in [Kinds -> Nat] /\ out.points \in Nat /\ out.beyond \in Nat
      /\ lost' \in [Kinds -> Nat] /\ Taken' \in Nat
  <2>1. out.lost \in [Kinds -> Nat] /\ out.points \in Nat /\ out.beyond \in Nat
    BY <1>1 DEF OutType
  <2>2. lost \in [Kinds -> Nat] /\ Taken \in Nat
    BY <1>1 DEF CountsTyped, Taken
  <2>3. lost' \in [Kinds -> Nat]
    BY <1>1 DEF CountsTyped
  <2>4. Taken' \in Nat
    BY <1>1, TakenTyped
  <2> QED
    BY <2>1, <2>2, <2>3, <2>4
<1>3. measured \in Int
  BY TypesAre DEF Sorted, PluginTyped
<1>4. Cardinality(Loud) - Cardinality(LogsKept) \in Int /\ Cardinality(EndedSpans) - Cardinality(SpansKept) \in Int
  BY KeptFinite
<1>5. "metrics" \in Kinds /\ "logs" \in Kinds /\ "spans" \in Kinds
  BY DEF Kinds
<1>6. Tally("metrics", measured + dm, writer.batch, held, lost', out, Taken')
  <2>1. Tally("metrics", measured, writer.batch, held, lost, out, Taken)
    BY DEF Accounts
  <2> QED
    BY <1>2, <1>3, <1>5, <2>1, TallyAdds
<1>7. "logs" \in settings.signals =>
          Tally("logs", (Cardinality(Loud) - Cardinality(LogsKept)) + dl, writer.batch, held, lost', out, Taken')
  <2> SUFFICES ASSUME "logs" \in settings.signals
               PROVE  Tally("logs", (Cardinality(Loud) - Cardinality(LogsKept)) + dl, writer.batch, held, lost', out, Taken')
    OBVIOUS
  <2>1. Tally("logs", Cardinality(Loud) - Cardinality(LogsKept), writer.batch, held, lost, out, Taken)
    BY DEF Accounts
  <2>2. lost'["logs"] + 0 = lost["logs"] + 0 + dl
    BY <1>2, <1>5
  <2> QED
    BY <1>2, <1>4, <1>5, <2>1, <2>2, TallyAdds
<1>8. "traces" \in settings.signals =>
          Tally("spans", (Cardinality(EndedSpans) - Cardinality(SpansKept)) + ds, writer.batch, held, lost', out, Taken')
  <2> SUFFICES ASSUME "traces" \in settings.signals
               PROVE  Tally("spans", (Cardinality(EndedSpans) - Cardinality(SpansKept)) + ds, writer.batch, held, lost', out, Taken')
    OBVIOUS
  <2>1. Tally("spans", Cardinality(EndedSpans) - Cardinality(SpansKept), writer.batch, held, lost, out, Taken)
    BY DEF Accounts
  <2>2. lost'["spans"] + 0 = lost["spans"] + 0 + ds
    BY <1>2, <1>5
  <2> QED
    BY <1>2, <1>4, <1>5, <2>1, <2>2, TallyAdds
<1> QED
  BY <1>6, <1>7, <1>8 DEF Accounts

\* What a pushed message adds to what is kept, or to what is counted.
LEMMA PushCounts ==
    ASSUME Sorted, NEW m \in Message, NEW kind \in Kinds, Push(m, kind)
    PROVE  /\ \A k \in Kinds : k # kind => lost'[k] = lost[k]
           /\ \/ /\ Len(pending) >= MaxPending /\ UNCHANGED pending /\ lost'[kind] = lost[kind] + 1
              \/ /\ Len(pending) < MaxPending /\ UNCHANGED lost
                 /\ \A sig : Carried(pending', sig) = Carried(pending, sig) \cup Bears(m, sig)
<1>1. CountsTyped /\ pending \in Seq(Message)
  BY TypesAre DEF Sorted
<1>2. CASE Len(pending) >= MaxPending
  <2>1. lost' = [lost EXCEPT ![kind] = @ + 1] /\ UNCHANGED pending
    BY <1>2 DEF Push
  <2> QED
    BY <1>1, <1>2, <2>1 DEF CountsTyped
<1>3. CASE ~(Len(pending) >= MaxPending)
  <2>1. pending' = Append(pending, m) /\ UNCHANGED lost
    BY <1>3 DEF Push
  <2>2. Len(pending) < MaxPending
    BY <1>1, <1>3, BoundsAssumption
  <2>3. \A sig : Carried(Append(pending, m), sig) = Carried(pending, sig) \cup Bears(m, sig)
    BY <1>1, Carryings
  <2> QED
    BY <2>1, <2>2, <2>3
<1> QED
  BY <1>2, <1>3

\* A span opened over the budget is counted.
LEMMA OpenSpanAccounts ==
    ASSUME Sorted, Shape, Sorted', Accounts, OpenSpan
    PROVE  Accounts'
<1>1. PICK s \in SpanIds, in \in Enclosing, state \in {"unseen", "open", "over"} :
        /\ span[s].state = "none"
        /\ span' = [span EXCEPT ![s] = [state |-> state, in |-> in, parent |-> ContextOf(in)]]
        /\ lost' = IF state = "over" THEN [lost EXCEPT !["spans"] = @ + 1] ELSE lost
  BY DEF OpenSpan
<1>2. /\ plugin = "working"
      /\ UNCHANGED <<settings, plugin, writer, held, out, overflow, log, pending, Taken, measured>>
  BY DEF OpenSpan, static, core, metrics, Taken
<1>3. SpansTyped /\ CountsTyped
  BY TypesAre DEF Sorted
<1>4. /\ \A x \in SpanIds : x # s => span'[x] = span[x]
      /\ span'[s].state = state
  BY <1>1, <1>3 DEF SpansTyped
<1>5. Loud' = Loud /\ LogsKept' = LogsKept /\ SpansKept' = SpansKept
  BY <1>2 DEF Loud, LogsKept, SpansKept
<1>6. /\ IsFiniteSet(EndedSpans) /\ Cardinality(EndedSpans) \in Nat /\ Cardinality(SpansKept) \in Nat
      /\ Cardinality(Loud) \in Nat /\ Cardinality(LogsKept) \in Nat
  BY KeptFinite
<1>7. s \notin EndedSpans
  BY <1>1 DEF EndedSpans
<1>8. CASE state = "over"
  <2>1. EndedSpans' = EndedSpans \cup {s}
    BY <1>1, <1>4, <1>8 DEF EndedSpans
  <2>2. Cardinality(EndedSpans') = Cardinality(EndedSpans) + 1
    BY <1>6, <1>7, <2>1, FS_AddElement
  <2>3. lost'["spans"] = lost["spans"] + 1 /\ lost'["logs"] = lost["logs"] /\ lost'["metrics"] = lost["metrics"]
    BY <1>1, <1>3, <1>8 DEF CountsTyped, Kinds
  <2>4. /\ lost["logs"] = lost["logs"] + 0 /\ lost["metrics"] + Taken = lost["metrics"] + Taken + 0 /\ measured = measured + 0
    BY <1>3, TypesAre DEF CountsTyped, Kinds, Sorted, PluginTyped, Taken
  <2> QED
    BY <1>2, <1>5, <1>6, <2>2, <2>3, <2>4, AccountsRecorded
<1>9. CASE state # "over"
  <2>1. EndedSpans' = EndedSpans
    BY <1>1, <1>4, <1>9 DEF EndedSpans
  <2>2. lost' = lost
    BY <1>1, <1>9
  <2>3. /\ lost["logs"] = lost["logs"] + 0 /\ lost["metrics"] + Taken = lost["metrics"] + Taken + 0 /\ measured = measured + 0
        /\ lost["spans"] = lost["spans"] + 0
    BY <1>3, TypesAre DEF CountsTyped, Kinds, Sorted, PluginTyped, Taken
  <2> QED
    BY <1>2, <1>5, <1>6, <2>1, <2>2, <2>3, AccountsRecorded
<1> QED
  BY <1>8, <1>9

\* A span closed is kept, or counted.
LEMMA CloseSpanAccounts ==
    ASSUME Sorted, Shape, Sorted', Accounts, CloseSpan
    PROVE  Accounts'
<1>1. PICK s \in SpanIds :
        /\ s \in Enclosing
        /\ span' = [span EXCEPT ![s].state =
               CASE @ = "open" -> IF Len(pending) < MaxPending THEN "closed" ELSE "shed"
                 [] @ = "over" -> "dropped"
                 [] @ = "unseen" -> "gone"]
        /\ IF span[s].state = "open" THEN Push([signal |-> "traces", id |-> s], "spans")
                                     ELSE UNCHANGED <<pending, lost>>
  BY DEF CloseSpan
<1>2. /\ plugin = "working"
      /\ UNCHANGED <<settings, plugin, writer, held, out, overflow, log, Taken, measured>>
  BY DEF CloseSpan, static, core, metrics, Taken
<1>3. SpansTyped /\ CountsTyped /\ pending \in Seq(Message)
  BY TypesAre DEF Sorted
<1>4. span[s].state \in {"open", "over", "unseen"}
  BY <1>1 DEF Enclosing, SpanIds, CoreSpan
<1>5. /\ \A x \in SpanIds : x # s => span'[x] = span[x]
      /\ span[s].state = "open" => span'[s].state \in {"closed", "shed"}
      /\ span[s].state = "over" => span'[s].state = "dropped"
      /\ span[s].state = "unseen" => span'[s].state = "gone"
  BY <1>1, <1>3, <1>4 DEF SpansTyped, SpanType
<1>6. /\ IsFiniteSet(EndedSpans) /\ Cardinality(EndedSpans) \in Nat
      /\ IsFiniteSet(SpansKept) /\ Cardinality(SpansKept) \in Nat /\ SpansKept \subseteq EndedSpans
      /\ Cardinality(Loud) \in Nat /\ Cardinality(LogsKept) \in Nat
  BY KeptFinite
<1>7. Loud' = Loud
  BY <1>2 DEF Loud
<1>8. /\ lost["logs"] = lost["logs"] + 0 /\ lost["metrics"] + Taken = lost["metrics"] + Taken + 0 /\ measured = measured + 0
      /\ lost["spans"] = lost["spans"] + 0
  BY <1>3, TypesAre DEF CountsTyped, Kinds, Sorted, PluginTyped, Taken
<1>9. CASE span[s].state # "open"
  <2>1. UNCHANGED <<pending, lost>>
    BY <1>1, <1>9
  <2>2. EndedSpans' = EndedSpans
    BY <1>4, <1>5, <1>9 DEF EndedSpans
  <2>3. LogsKept' = LogsKept /\ SpansKept' = SpansKept
    BY <1>2, <1>7, <2>1 DEF LogsKept, SpansKept
  <2> QED
    BY <1>2, <1>6, <1>7, <1>8, <2>1, <2>2, <2>3, AccountsRecorded
<1>10. CASE span[s].state = "open"
  <2> DEFINE m == [signal |-> "traces", id |-> s]
  <2>1. m \in Message /\ "spans" \in Kinds /\ Push(m, "spans")
    BY <1>1, <1>10, Messages DEF Kinds
  <2>2. Bears(m, "logs") = {} /\ Bears(m, "traces") = {s}
    BY DEF Bears
  <2> HIDE DEF m
  <2>3. s \notin EndedSpans
    BY <1>10 DEF EndedSpans
  <2>4. EndedSpans' = EndedSpans \cup {s}
    BY <1>5, <1>10 DEF EndedSpans
  <2>5. Cardinality(EndedSpans') = Cardinality(EndedSpans) + 1
    BY <1>6, <2>3, <2>4, FS_AddElement
  <2>6. lost'["logs"] = lost["logs"] /\ lost'["metrics"] = lost["metrics"]
    BY <2>1, PushCounts DEF Kinds
  <2>7. CASE UNCHANGED pending /\ lost'["spans"] = lost["spans"] + 1
    <3>1. LogsKept' = LogsKept /\ SpansKept' = SpansKept
      BY <1>2, <1>7, <2>7 DEF LogsKept, SpansKept
    <3> QED
      BY <1>2, <1>6, <1>7, <1>8, <2>5, <2>6, <2>7, <3>1, AccountsRecorded
  <2>8. CASE UNCHANGED lost /\ \A sig : Carried(pending', sig) = Carried(pending, sig) \cup Bears(m, sig)
    <3>1. LogsKept' = LogsKept
      BY <1>2, <1>7, <2>2, <2>8 DEF LogsKept
    <3>2. SpansKept' = SpansKept \cup {s}
      BY <1>2, <2>2, <2>8 DEF SpansKept
    <3>3. Cardinality(SpansKept') = Cardinality(SpansKept) + 1
      BY <1>6, <2>3, <3>2, FS_AddElement
    <3>4. Cardinality(EndedSpans') - Cardinality(SpansKept') = (Cardinality(EndedSpans) - Cardinality(SpansKept)) + 0
      BY <1>6, <2>5, <3>3
    <3> QED
      BY <1>2, <1>6, <1>7, <1>8, <2>6, <2>8, <3>1, <3>4, AccountsRecorded
  <2> QED
    BY <2>1, <2>7, <2>8, PushCounts
<1> QED
  BY <1>9, <1>10

\* A new line is one more line, and not among those kept.
LEMMA LineCounts ==
    ASSUME Sorted, NEW line \in LineType, log' = Append(log, line)
    PROVE  /\ Loud' = IF line.loud THEN Loud \cup {Len(log) + 1} ELSE Loud
           /\ Len(log) + 1 \notin Loud
           /\ line.loud => Cardinality(Loud') = Cardinality(Loud) + 1
<1>1. LogTyped /\ IsFiniteSet(Loud)
  BY TypesAre, KeptFinite DEF Sorted
<1>2. Len(log') = Len(log) + 1 /\ Len(log) \in Nat /\ log'[Len(log) + 1] = line /\ \A n \in 1 .. Len(log) : log'[n] = log[n]
  BY <1>1 DEF LogTyped
<1>3. Loud' = IF line.loud THEN Loud \cup {Len(log) + 1} ELSE Loud
  BY <1>2 DEF Loud
<1>4. Len(log) + 1 \notin Loud
  BY <1>2 DEF Loud
<1> QED
  BY <1>1, <1>3, <1>4, FS_AddElement

\* A line logged is kept, or counted.
LEMMA EventAccounts ==
    ASSUME Sorted, Shape, Sorted', Accounts, Event
    PROVE  Accounts'
<1>1. /\ plugin = "working"
      /\ UNCHANGED <<settings, plugin, writer, held, out, overflow, span, Taken, measured>>
  BY DEF Event, static, core, metrics, Recording, Taken
<1>2. PICK line \in LineType : log' = Append(log, line) /\ line.loud
  <2>1. PICK in \in Enclosing : log' = Append(log, Line(in, TRUE))
    BY DEF Event
  <2>2. Line(in, TRUE) \in LineType
    BY LineTyped
  <2>3. Line(in, TRUE).loud
    BY DEF Line
  <2> QED
    BY <2>1, <2>2, <2>3, Zenon
<1> DEFINE n == Len(log) + 1
           m == [signal |-> "logs", id |-> n]
<1>3. CountsTyped /\ pending \in Seq(Message) /\ n \in Nat
  BY TypesAre DEF Sorted, LogTyped
<1>4. m \in Message /\ "logs" \in Kinds /\ Push(m, "logs")
  BY <1>3, Messages DEF Kinds, Event
<1>5. Bears(m, "logs") = {n} /\ Bears(m, "traces") = {}
  BY DEF Bears
<1>a. Loud' = Loud \cup {n} /\ n \notin Loud /\ Cardinality(Loud') = Cardinality(Loud) + 1
  BY <1>2, LineCounts
<1> HIDE DEF n, m
<1>6. /\ Cardinality(EndedSpans) \in Nat /\ Cardinality(SpansKept) \in Nat /\ IsFiniteSet(LogsKept) /\ LogsKept \subseteq Loud
      /\ Cardinality(Loud) \in Nat /\ Cardinality(LogsKept) \in Nat
  BY KeptFinite
<1>7. EndedSpans' = EndedSpans
  BY <1>1 DEF EndedSpans
<1>8. /\ lost["logs"] = lost["logs"] + 0 /\ lost["metrics"] + Taken = lost["metrics"] + Taken + 0 /\ measured = measured + 0
      /\ lost["spans"] = lost["spans"] + 0
  BY <1>3, TypesAre DEF CountsTyped, Kinds, Sorted, PluginTyped, Taken
<1>9. lost'["spans"] = lost["spans"] /\ lost'["metrics"] = lost["metrics"]
  BY <1>4, PushCounts DEF Kinds
<1>b. Routes
  BY DEF Sorted
<1>c. n \notin out.logs /\ \A q : Sound(q, log, span) => n \notin Carried(q, "logs")
  <2>1. n \notin 1 .. Len(log)
    BY <1>3 DEF n
  <2>2. out.logs \subseteq 1 .. Len(log)
    BY TypesAre DEF Sorted, OutTyped
  <2>3. ASSUME NEW q, Sound(q, log, span) PROVE Carried(q, "logs") \subseteq 1 .. Len(log)
    BY <2>3 DEF Sound, Known, Carried
  <2> QED
    BY <2>1, <2>2, <2>3
<1>d. LogsKept = Loud' \cap (out.logs \cup Carried(pending, "logs") \cup Carried(writer.batch, "logs")
                   \cup Carried(writer.own, "logs") \cup Carried(held, "logs"))
  BY <1>a, <1>b, <1>c DEF LogsKept, Routes
<1>10. CASE UNCHANGED pending /\ lost'["logs"] = lost["logs"] + 1
  <2>1. LogsKept' = LogsKept /\ SpansKept' = SpansKept
    BY <1>1, <1>d, <1>10 DEF LogsKept, SpansKept
  <2>2. Cardinality(Loud') - Cardinality(LogsKept') = (Cardinality(Loud) - Cardinality(LogsKept)) + 1
    BY <1>6, <1>a, <2>1
  <2> QED
    BY <1>1, <1>6, <1>7, <1>8, <1>9, <1>10, <2>1, <2>2, AccountsRecorded
<1>11. CASE UNCHANGED lost /\ \A sig : Carried(pending', sig) = Carried(pending, sig) \cup Bears(m, sig)
  <2>1. SpansKept' = SpansKept
    BY <1>1, <1>5, <1>11 DEF SpansKept
  <2>2. LogsKept' = LogsKept \cup {n}
    <3>1. LogsKept' = Loud' \cap (out.logs \cup (Carried(pending, "logs") \cup {n}) \cup Carried(writer.batch, "logs")
                   \cup Carried(writer.own, "logs") \cup Carried(held, "logs"))
      BY <1>1, <1>5, <1>11 DEF LogsKept
    <3>2. n \in Loud'
      BY <1>a
    <3> QED
      BY <1>d, <3>1, <3>2
  <2>3. Cardinality(LogsKept') = Cardinality(LogsKept) + 1
    BY <1>6, <1>a, <2>2, FS_AddElement
  <2>4. Cardinality(Loud') - Cardinality(LogsKept') = (Cardinality(Loud) - Cardinality(LogsKept)) + 0
    BY <1>6, <1>a, <2>3
  <2> QED
    BY <1>1, <1>6, <1>7, <1>8, <1>9, <1>11, <2>1, <2>4, AccountsRecorded
<1> QED
  BY <1>4, <1>10, <1>11, PushCounts

\* A measurement is kept, or counted.
LEMMA RecordMetricAccounts ==
    ASSUME Sorted, Shape, Sorted', Accounts, RecordMetric
    PROVE  Accounts'
<1>1. /\ plugin = "working" /\ measured' = measured + 1
      /\ UNCHANGED <<settings, plugin, writer, held, out, overflow, span, log, pending>>
  BY DEF RecordMetric, static, core, Recording
<1>2. CountsTyped
  BY TypesAre DEF Sorted
<1>3. \/ lost' = [lost EXCEPT !["metrics"] = @ + 1] /\ Taken' = Taken
      \/ Taken' = Taken + 1 /\ UNCHANGED lost
  <2>1. gathered \in Nat /\ beyond \in Nat
    BY <1>2 DEF CountsTyped
  <2>2. CASE lost' = [lost EXCEPT !["metrics"] = @ + 1] /\ UNCHANGED metrics
    BY <2>2 DEF metrics, Taken
  <2>3. ASSUME NEW i, Aggregate(i) PROVE Taken' = Taken + 1
    BY <2>1, <2>3 DEF Aggregate, Taken
  <2> QED
    BY <2>2, <2>3 DEF RecordMetric
<1>a. Taken \in Nat /\ lost \in [Kinds -> Nat]
  BY <1>2 DEF CountsTyped, Taken
<1>4. /\ lost'["metrics"] + Taken' = lost["metrics"] + Taken + 1
      /\ lost'["logs"] = lost["logs"] + 0 /\ lost'["spans"] = lost["spans"] + 0
  BY <1>3, <1>a DEF Kinds
<1>5. Loud' = Loud /\ LogsKept' = LogsKept /\ SpansKept' = SpansKept /\ EndedSpans' = EndedSpans
  BY <1>1 DEF Loud, LogsKept, SpansKept, EndedSpans
<1>6. /\ Cardinality(EndedSpans) \in Nat /\ Cardinality(SpansKept) \in Nat
      /\ Cardinality(Loud) \in Nat /\ Cardinality(LogsKept) \in Nat
  BY KeptFinite
<1> QED
  BY <1>1, <1>4, <1>5, <1>6, AccountsRecorded

\* A write takes what is pending, and a line of the plugin's own that is kept with it.
LEMMA BeginWriteAccounts ==
    ASSUME Sorted, Shape, Ends, Accounts, BeginWrite
    PROVE  Accounts'
<1>1. /\ plugin = "working" /\ plugin' # "killed" /\ writer = Idle /\ pending' = <<>>
      /\ UNCHANGED <<settings, held, out, overflow, span, Taken, lost, measured>>
  BY DEF BeginWrite, static, core, metrics, recorder, Ends, Leaving, Taken
<1>2. PICK own \in BOOLEAN, loud \in BOOLEAN, in \in Enclosing :
        /\ log' = IF own THEN Append(log, Line(in, loud)) ELSE log
        /\ writer'.batch = pending
        /\ writer'.own = IF own THEN <<[signal |-> "logs", id |-> Len(log) + 1]>> ELSE <<>>
  BY DEF BeginWrite
<1>3. pending \in Seq(Message) /\ Plain(pending) /\ Routes
  BY TypesAre DEF Sorted, Ends, Deltas
<1>4. \A k \in Kinds, c \in Int :
          Tally(k, c, writer.batch, held, lost, out, Taken) =>
              Tally(k, c, writer'.batch, held', lost', out', Taken')
  <2> SUFFICES ASSUME NEW k \in Kinds, NEW c \in Int, Tally(k, c, <<>>, held, lost, out, Taken)
               PROVE  Tally(k, c, pending, held, lost, out, Taken)
    BY <1>1, <1>2 DEF Idle
  <2>1. PICK x \in Int, y \in Int : Total(<<>>, k, x) /\ Total(held, k, y) /\ c = x + y + Settled(k, lost, out, Taken)
    BY DEF Tally
  <2>2. x = 0 /\ Total(pending, k, 0)
    BY <1>3, <2>1, Totals
  <2> QED
    BY <2>1, <2>2 DEF Tally
<1>5. /\ Cardinality(EndedSpans) \in Nat /\ Cardinality(SpansKept) \in Nat /\ IsFiniteSet(LogsKept) /\ LogsKept \subseteq Loud
      /\ Cardinality(Loud) \in Nat /\ Cardinality(LogsKept) \in Nat
  BY KeptFinite
<1>6. writer.batch = <<>> /\ writer.own = <<>> /\ \A sig : Carried(<<>>, sig) = {}
  BY <1>1, Carryings DEF Idle
<1>7. EndedSpans' = EndedSpans
  BY <1>1 DEF EndedSpans
<1>8. /\ Carried(writer'.own, "traces") = {}
      /\ Carried(writer'.own, "logs") = IF own THEN {Len(log) + 1} ELSE {}
  <2> DEFINE m == [signal |-> "logs", id |-> Len(log) + 1]
  <2>1. m \in Message /\ Bears(m, "traces") = {} /\ Bears(m, "logs") = {Len(log) + 1} /\ <<>> \in Seq(Message)
    BY Messages, TypesAre DEF Bears, Sorted, LogTyped
  <2>2. writer'.own = IF own THEN <<m>> ELSE <<>>
    BY <1>2
  <2> HIDE DEF m
  <2> QED
    BY <1>6, <2>1, <2>2, Carryings
<1>9. SpansKept' = SpansKept
  BY <1>1, <1>2, <1>6, <1>8 DEF SpansKept
<1>10. Cardinality(Loud') - Cardinality(LogsKept') = Cardinality(Loud) - Cardinality(LogsKept)
  <2>1. CASE ~own
    <3>1. Loud' = Loud
      BY <1>2, <2>1 DEF Loud
    <3>2. LogsKept' = LogsKept
      BY <1>1, <1>2, <1>6, <1>8, <2>1, <3>1 DEF LogsKept
    <3> QED
      BY <3>1, <3>2
  <2>2. CASE own
    <3> DEFINE n == Len(log) + 1
    <3>1. PICK line \in LineType : log' = Append(log, line)
      <4>1. Line(in, loud) \in LineType
        BY LineTyped
      <4> QED
        BY <1>2, <2>2, <4>1, Zenon
    <3>2. /\ Loud' = IF line.loud THEN Loud \cup {n} ELSE Loud
          /\ n \notin Loud
          /\ line.loud => Cardinality(Loud') = Cardinality(Loud) + 1
      BY <3>1, LineCounts
    <3>3. LogsKept' = Loud' \cap (out.logs \cup Carried(pending, "logs") \cup {n} \cup Carried(held, "logs"))
      BY <1>1, <1>2, <1>6, <1>8, <2>2 DEF LogsKept
    <3>4. LogsKept = Loud \cap (out.logs \cup Carried(pending, "logs") \cup Carried(held, "logs"))
      BY <1>6 DEF LogsKept
    <3>5. n \notin out.logs \cup Carried(pending, "logs") \cup Carried(held, "logs")
      <4>1. n \notin 1 .. Len(log)
        BY TypesAre DEF Sorted, LogTyped
      <4>2. out.logs \subseteq 1 .. Len(log)
        BY TypesAre DEF Sorted, OutTyped
      <4>3. ASSUME NEW q, Sound(q, log, span) PROVE Carried(q, "logs") \subseteq 1 .. Len(log)
        BY <4>3 DEF Sound, Known, Carried
      <4> QED
        BY <1>3, <4>1, <4>2, <4>3 DEF Routes
    <3> HIDE DEF n
    <3>6. CASE line.loud
      <4>1. LogsKept' = LogsKept \cup {n} /\ n \notin LogsKept
        BY <3>2, <3>3, <3>4, <3>5, <3>6
      <4>2. Cardinality(LogsKept') = Cardinality(LogsKept) + 1
        BY <1>5, <4>1, FS_AddElement
      <4> QED
        BY <1>5, <3>2, <3>6, <4>2
    <3>7. CASE ~line.loud
      <4>1. LogsKept' = LogsKept /\ Loud' = Loud
        BY <3>2, <3>3, <3>4, <3>5, <3>7
      <4> QED
        BY <4>1
    <3> QED
      BY <3>6, <3>7
  <2> QED
    BY <2>1, <2>2
<1>11. measured \in Int /\ "metrics" \in Kinds /\ "logs" \in Kinds /\ "spans" \in Kinds
  BY TypesAre DEF Sorted, PluginTyped, Kinds
<1>12. Cardinality(Loud) - Cardinality(LogsKept) \in Int /\ Cardinality(EndedSpans) - Cardinality(SpansKept) \in Int
  BY <1>5
<1> SUFFICES ASSUME ~overflow, "metrics" \in settings.signals PROVE Accounts'
  BY <1>1 DEF Accounts
<1>13. Tally("metrics", measured, writer'.batch, held', lost', out', Taken')
  BY <1>1, <1>4, <1>11 DEF Accounts
<1>14. "logs" \in settings.signals =>
          Tally("logs", Cardinality(Loud) - Cardinality(LogsKept), writer'.batch, held', lost', out', Taken')
  BY <1>1, <1>4, <1>11, <1>12 DEF Accounts
<1>15. "traces" \in settings.signals =>
          Tally("spans", Cardinality(EndedSpans) - Cardinality(SpansKept), writer'.batch, held', lost', out', Taken')
  BY <1>1, <1>4, <1>11, <1>12 DEF Accounts
<1> QED
  BY <1>1, <1>7, <1>9, <1>10, <1>13, <1>14, <1>15 DEF Accounts

\* Every step keeps the accounts.
LEMMA AccountsStep ==
    ASSUME Sorted, Shape, Sorted', Ends, Accounts, [Next]_vars
    PROVE  Accounts'
<1>1. CASE OpenSpan \/ CloseSpan \/ Event \/ RecordMetric
  BY <1>1, OpenSpanAccounts, CloseSpanAccounts, EventAccounts, RecordMetricAccounts
<1>2. CASE BeginWrite
  BY <1>2, BeginWriteAccounts
<1>3. CASE Killed
  BY <1>3 DEF Killed, Accounts
<1>4. ASSUME UNCHANGED <<settings, measured, log, span, plugin, pending, Taken, lost, writer, held, overflow, out>>
      PROVE  Accounts'
  <2>1. Moved
    BY <1>4 DEF Moved, LogsKept, SpansKept, Loud
  <2> QED
    BY <1>4, <2>1, AccountsMoved
<1>5. CASE NextSecond \/ Talks \/ (\E sig \in Signals : Export(sig)) \/ Shutdown \/ FlushEnds \/ UNCHANGED vars
  <2>1. UNCHANGED <<settings, measured, log, span, plugin, pending, Taken, lost, writer, held, overflow, out>>
    BY <1>5 DEF NextSecond, Talks, FetchValue, HearValue, TalkEnds, Export, Shutdown, FlushEnds, vars, memory, static, recorder,
                metrics, core, Taken
  <2> QED
    BY <1>4, <2>1
<1>6. CASE WriteOne
  <2>1. UNCHANGED <<settings, measured, log, span, plugin>>
    BY <1>6 DEF WriteOne, static, recorder
  <2>2. ~overflow' => ~overflow
    BY <1>6, Zenon DEF WriteOne, ReadEvent, Hold
  <2> QED
    BY <1>6, <2>1, <2>2, WriteOneMoves, AccountsMoved
<1>7. CASE ReleaseHeld
  <2>1. UNCHANGED <<settings, measured, log, span, plugin, overflow>>
    BY <1>7 DEF ReleaseHeld, memory, static, recorder
  <2> QED
    BY <1>7, <2>1, ReleaseHeldMoves, AccountsMoved
<1>8. CASE WriteMetrics
  <2>1. UNCHANGED <<settings, measured, log, span, plugin, overflow>>
    BY <1>8 DEF WriteMetrics, static, recorder, core
  <2> QED
    BY <1>8, <2>1, WriteMetricsMoves, AccountsMoved
<1>10. CASE TakeCounters
  <2>1. UNCHANGED <<settings, measured, log, span, plugin, overflow>>
    BY <1>10 DEF TakeCounters, static, recorder, core
  <2> QED
    BY <1>10, <2>1, TakeCountersMoves, AccountsMoved
<1>9. CASE EndWrite
  <2>1. UNCHANGED <<settings, measured, log, span, overflow>> /\ plugin # "killed"
    BY <1>9 DEF EndWrite, static, recorder, core
  <2> QED
    BY <1>9, <2>1, EndWriteMoves, AccountsMoved
<1> QED
  BY <1>1, <1>2, <1>3, <1>5, <1>6, <1>7, <1>8, <1>9, <1>10 DEF Next, Recorder, Writes

\* At first the accounts are empty.
LEMMA AccountsInit == ASSUME Init PROVE Accounts
<1>1. /\ measured = 0 /\ writer.batch = <<>> /\ writer.own = <<>> /\ pending = <<>> /\ held = <<>> /\ log = <<>> /\ Taken = 0
      /\ out.lost = Zero /\ out.points = 0 /\ out.beyond = 0 /\ out.logs = {} /\ out.spans = {} /\ lost = Zero
  BY DEF Init, Idle, Nothing, Taken
<1>2. Loud = {} /\ LogsKept = {}
  BY <1>1 DEF Loud, LogsKept
<1>3. EndedSpans = {}
  BY DEF Init, EndedSpans
<1>4. SpansKept = {}
  BY <1>1, Carryings DEF SpansKept
<1>5. Cardinality({}) = 0
  BY FS_EmptySet
<1>6. \A k \in Kinds : Settled(k, lost, out, Taken) = 0 /\ Total(<<>>, k, 0)
  BY <1>1, Totals, Messages DEF Settled
<1>7. \A k \in Kinds : Tally(k, 0, <<>>, <<>>, lost, out, Taken)
  BY <1>6 DEF Tally
<1>8. {"metrics", "logs", "spans"} \subseteq Kinds
  BY DEF Kinds
<1> QED
  BY <1>1, <1>2, <1>3, <1>4, <1>5, <1>7, <1>8 DEF Accounts

\* A set has as many members as a part of it and the rest have together.
LEMMA CardinalityParts ==
    ASSUME NEW S, IsFiniteSet(S), NEW T, T \subseteq S
    PROVE  Cardinality(S \ T) + Cardinality(T) = Cardinality(S)
<1>1. S \cap T = T /\ IsFiniteSet(T)
  BY FS_Subset
<1>2. Cardinality(S \ T) = Cardinality(S) - Cardinality(T)
  BY <1>1, FS_Difference
<1>3. Cardinality(S) \in Nat /\ Cardinality(T) \in Nat
  BY <1>1, FS_CardinalityType
<1> QED
  BY <1>2, <1>3

\* At the end all that is counted has arrived, or was refused by a full queue.
LEMMA AccountsInv == ASSUME Sorted, Ends, Accounts PROVE AccountsForAll
<1> SUFFICES ASSUME phase = "ended", Clean, "metrics" \in settings.signals
             PROVE  /\ queued = {}
                    /\ out.points + out.beyond + out.lost["metrics"] = measured
                    /\ "logs" \in settings.signals =>
                           Cardinality(Reached.logs) + Cardinality(crowded["logs"]) + out.lost["logs"]
                               = Cardinality({n \in DOMAIN log : log[n].loud})
                    /\ "traces" \in settings.signals =>
                           Cardinality(Reached.spans) + Cardinality(crowded["traces"]) + out.lost["spans"]
                               = Cardinality({s \in SpanIds : span[s].state \in {"closed", "shed", "over", "dropped"}})
  BY DEF AccountsForAll
<1>1. plugin = "left" /\ ~overflow /\ \A sig \in Signals : exporter[sig] = "well"
  BY DEF Clean
<1>2. pending = <<>> /\ writer.batch = <<>> /\ writer.own = <<>> /\ Taken = 0 /\ lost = Zero /\ held = <<>>
  <2>1. pending = <<>> /\ writer = Idle /\ Cleared /\ held = <<>>
    BY <1>1 DEF Ends, Leaving, Over
  <2> QED
    BY <2>1 DEF Cleared, Idle, Taken
<1>3. queued = {}
  BY <1>1 DEF Ends, Over
<1>4. LogTyped /\ OutTyped /\ OnlyLoud /\ out.lost \in [Kinds -> Nat] /\ out.points \in Nat /\ out.beyond \in Nat
  BY TypesAre DEF Sorted, OutTyped, Ends
<1>5. \A k \in Kinds, c \in Int :
          Tally(k, c, <<>>, <<>>, lost, out, 0) => c = out.lost[k] + (IF k = "metrics" THEN out.points + out.beyond ELSE 0)
  <2> SUFFICES ASSUME NEW k \in Kinds, NEW c \in Int, Tally(k, c, <<>>, <<>>, lost, out, 0)
               PROVE  c = out.lost[k] + (IF k = "metrics" THEN out.points + out.beyond ELSE 0)
    OBVIOUS
  <2>1. PICK x \in Int, y \in Int : Total(<<>>, k, x) /\ Total(<<>>, k, y) /\ c = x + y + Settled(k, lost, out, 0)
    BY DEF Tally
  <2>2. x = 0 /\ y = 0
    BY <2>1, Totals
  <2>3. Settled(k, lost, out, 0) = out.lost[k] + (IF k = "metrics" THEN out.points + out.beyond ELSE 0)
    BY <1>2, <1>4, Messages DEF Settled
  <2>4. Settled(k, lost, out, 0) \in Int
    BY <1>4, <2>3
  <2>5. c = Settled(k, lost, out, 0)
    BY <2>1, <2>2, <2>4
  <2> QED
    BY <2>3, <2>5
<1>6. Carried(<<>>, "logs") = {} /\ Carried(<<>>, "traces") = {}
  BY Carryings
<1>7. LogsKept = out.logs
  BY <1>2, <1>4, <1>6 DEF LogsKept, Loud, OnlyLoud, OutTyped
<1>8. SpansKept = out.spans
  BY <1>2, <1>6 DEF SpansKept
<1>9. Loud = {n \in DOMAIN log : log[n].loud}
  <2>1. DOMAIN log = 1 .. Len(log)
    BY <1>4 DEF LogTyped
  <2> QED
    BY <2>1 DEF Loud
<1>10. /\ Cardinality(Loud) \in Nat /\ Cardinality(LogsKept) \in Nat
       /\ Cardinality(EndedSpans) \in Nat /\ Cardinality(SpansKept) \in Nat
  BY KeptFinite
<1>11. "metrics" \in Kinds /\ "logs" \in Kinds /\ "spans" \in Kinds /\ measured \in Int
  BY TypesAre DEF Kinds, Sorted, PluginTyped
<1>12. out.points + out.beyond + out.lost["metrics"] = measured
  <2>1. Tally("metrics", measured, <<>>, <<>>, lost, out, 0)
    BY <1>1, <1>2 DEF Accounts
  <2>2. measured = out.lost["metrics"] + (out.points + out.beyond)
    BY <1>5, <1>11, <2>1
  <2> QED
    BY <1>4, <1>11, <2>2
<1>13. "logs" \in settings.signals => Cardinality(out.logs) + out.lost["logs"] = Cardinality(Loud)
  <2> SUFFICES ASSUME "logs" \in settings.signals PROVE Cardinality(out.logs) + out.lost["logs"] = Cardinality(Loud)
    OBVIOUS
  <2>1. Tally("logs", Cardinality(Loud) - Cardinality(LogsKept), <<>>, <<>>, lost, out, 0)
    BY <1>1, <1>2 DEF Accounts
  <2>2. Cardinality(Loud) - Cardinality(LogsKept) \in Int
    BY <1>10
  <2>3. Cardinality(Loud) - Cardinality(LogsKept) = out.lost["logs"] + 0
    BY <1>5, <1>11, <2>1, <2>2
  <2> QED
    BY <1>4, <1>7, <1>10, <1>11, <2>3
<1>14. "traces" \in settings.signals => Cardinality(out.spans) + out.lost["spans"] = Cardinality(EndedSpans)
  <2> SUFFICES ASSUME "traces" \in settings.signals PROVE Cardinality(out.spans) + out.lost["spans"] = Cardinality(EndedSpans)
    OBVIOUS
  <2>1. Tally("spans", Cardinality(EndedSpans) - Cardinality(SpansKept), <<>>, <<>>, lost, out, 0)
    BY <1>1, <1>2 DEF Accounts
  <2>2. Cardinality(EndedSpans) - Cardinality(SpansKept) \in Int
    BY <1>10
  <2>3. Cardinality(EndedSpans) - Cardinality(SpansKept) = out.lost["spans"] + 0
    BY <1>5, <1>11, <2>1, <2>2
  <2> QED
    BY <1>4, <1>8, <1>10, <1>11, <2>3
<1>15. Cardinality(Reached.logs) + Cardinality(crowded["logs"]) = Cardinality(out.logs)
  BY <1>4, <1>7, KeptFinite, CardinalityParts DEF OnlyLoud, Reached
<1>16. Cardinality(Reached.spans) + Cardinality(crowded["traces"]) = Cardinality(out.spans)
  BY <1>4, <1>8, KeptFinite, CardinalityParts DEF OnlyLoud, Reached
<1> QED
  BY <1>3, <1>9, <1>12, <1>13, <1>14, <1>15, <1>16 DEF EndedSpans

\* Of a plugin that left in its own time everything recorded arrives or is
\* counted, and once, for any bounds of the recorder and the core, but for a
\* histogram's measurements beyond those made again and what a full exporter
\* queue refused: the code counts neither, the theorem says there is no third.
THEOREM TelemetryAccounts == Spec => []AccountsForAll
<1> DEFINE I == Sorted /\ Shape /\ Ends /\ Accounts
<1>1. Init => I
  BY SortedInit, EndsInit, AccountsInit
<1>2. I /\ [Next]_vars => I'
  BY SortedStep, EndsStep, AccountsStep
<1>3. I => AccountsForAll
  BY AccountsInv
<1> QED
  BY <1>1, <1>2, <1>3, PTL DEF Spec

=============================================================================
