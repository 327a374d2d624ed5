--------------------------- MODULE CommandProofs ---------------------------
(***************************************************************************)
(* Proofs about a whole `loadsmith run`, for any number of provider        *)
(* instances, values and attempts and any backoff: a failed resolution is  *)
(* reported as what a provider did by itself, nothing is left behind an    *)
(* attempt, the lock covers every plugin of a run with state, the exit     *)
(* code and the document tell the truth, and an attempt is made again only *)
(* for a cause that may pass.                                              *)
(***************************************************************************)
EXTENDS Command, TLAPS

(***************************************************************************)
(* The inductive invariant of the resolution                               *)
(***************************************************************************)

Failing(i) == failed[i] # "none" /\ ~induced[i]

\* How far a session is, its provider's process and what is on the wire.
Progress(i) ==
  /\ session[i] \in {"idle", "spawning"} => proc[i] = "none" /\ wire[i] = "none"
  /\ session[i] \in {"idle", "spawning", "setup"} => got[i] = 0
  /\ session[i] = "setup" => wire[i] = "none"
  /\ session[i] = "resolving" => got[i] < References /\ wire[i] # "finished"
  /\ session[i] = "closing" => got[i] = References /\ wire[i] \in {"none", "finished"}
  /\ session[i] \in {"over", "joined"} => proc[i] \in {"none", "gone"}

\* A session that is at its end has all its values or has failed.
Ended(i) ==
  /\ failed[i] # "none" => session[i] \in {"ending", "over", "joined"}
  /\ session[i] \in {"ending", "over", "joined"} => failed[i] # "none" \/ got[i] = References

\* Who failed by itself did something; who did not was told to stop.
Blame(i) ==
  /\ Failing(i) => i \in guilty
  /\ induced[i] => halt # "none"
  /\ wire[i] = "refusal" => i \in guilty
  /\ session[i] \in Talking /\ proc[i] = "gone" /\ wire[i] # "finished" => i \in guilty
  /\ session[i] = "joined" /\ Failing(i) => root # "none"

\* The sessions are stopped by the operator or by one that failed by itself.
HaltHasCause ==
  /\ halt = "signal" => signal
  /\ halt = "abort" => \E i \in Instances : Failing(i)

RootHasCause == root # "none" => \E i \in Instances : Failing(i) /\ failed[i] = root

Answered ==
  /\ result # "none" => \A i \in Instances : session[i] \in {"idle", "joined"}
  /\ result = "resolved" => Complete
  /\ result = "interrupted" => signal
  /\ RootIsReal

ProvInv ==
  /\ \A i \in Instances : Progress(i) /\ Ended(i) /\ Blame(i)
  /\ HaltHasCause /\ RootHasCause /\ Answered

(***************************************************************************)
(* The inductive invariant of the command                                  *)
(***************************************************************************)

Untouched == \A i \in Instances : session[i] = "idle"

\* The resolution is behind every attempt; a command that ends before it has
\* spawned no provider.
Before ==
  /\ stage = "read" \/ (stage = "over" /\ result = "none") => Untouched
  /\ stage \notin {"read", "resolve", "over"} => result = "resolved" /\ Valid(shape)
  /\ stage = "resolve" => Valid(shape)
  /\ stage \in {"read", "resolve", "begin", "lock"} => Fresh
  /\ status # "none" => result = "resolved"

Closed == {"report", "backoff", "over"}

\* Who lives, by how far the attempt is.
Living ==
  /\ "sink" \in live => sinkTask = "running"
  /\ "parser" \in live => "parser" \in shape
  /\ stage \in {"prepare", "spawn"} \cup Closed => live = {}
  /\ stage = "await" => live \subseteq {"sink"}
  /\ stateTask = "ok" => live = {}

\* The tasks: launched at their step, over when the attempt is.
Tasks ==
  /\ stage \in Closed => sinkTask # "running" /\ stateTask # "running"
  /\ stage \in {"prepare", "spawn", "configure", "gates", "sink"} => sinkTask = "none"
  /\ stage \in {"prepare", "spawn", "configure", "gates", "sink", "producer", "drift", "state"} => stateTask = "none"
  /\ stateTask # "none" => "state" \in shape
  /\ stateTask = "ok" => sinkTask # "running"
  /\ stage \in {"producer", "drift", "state", "destination", "data"} /\ "sink" \in shape => sinkTask # "none"
  /\ stage \in {"destination", "data"} /\ "state" \in shape => stateTask # "none"

\* The lock is the run's until the state task has it, and goes with that one.
Guarded ==
  /\ "state" \notin shape => lock = "free"
  /\ stage \in Closed => lock = "free"
  /\ stateTask = "running" => lock = "task"
  /\ stateTask \in {"ok", "failed"} => lock = "free"
  /\ stage \notin Closed \cup {"read", "resolve", "begin", "lock"} /\ stateTask = "none" /\ "state" \in shape => lock = "run"

\* What an attempt that reached its data phase has launched.
Flowed ==
  /\ stage = "data" => flowing
  /\ flowing => /\ stage \in {"data", "abort", "await"} \cup Closed
                /\ "state" \in shape => stateTask # "none"
                /\ "sink" \in shape => sinkTask # "none"
  /\ failure = "interrupted" => signal

\* What the attempt is said to have ended with.
Reported ==
  /\ stage \notin Closed => status = "none"
  /\ stage \in {"report", "backoff"} => status # "none"
  /\ status = "success" => /\ flowing /\ failure = "none"
                           /\ "state" \in shape => stateTask = "ok"
                           /\ "sink" \in shape => sinkTask = "ok"
  /\ status = "cancelled" => failure = "interrupted"
  /\ status = "error" => flowing
  /\ stage = "backoff" => TryAgain

\* What was removed from the disk.
Kept ==
  /\ staging = "removed" => sinkTask = "ok" /\ status # "none"
  /\ downloads = "removed" => status = "success"

Told ==
  /\ stage # "over" => exit = "none"
  /\ ExitTellsTheTruth

AttemptInv == Living /\ Tasks /\ Guarded /\ Flowed /\ Reported /\ Kept

\* The attempts that wrote rows.
Wrote == {k \in 1..Len(history) : history[k]}

\* Idle counts the attempts since the last one that wrote rows, and the wait is
\* computed from it.
Counted ==
  /\ stage \notin {"backoff", "over"} => Len(history) = attempt - 1
  /\ stage = "backoff" => Len(history) = attempt
  /\ history = <<>> => idle = 0
  /\ history # <<>> =>
       /\ wait = Backoff(idle)
       /\ \/ Wrote = {} /\ idle = Len(history)
          \/ \E k \in Wrote : (\A m \in Wrote : m <= k) /\ idle = Len(history) - k + 1

CommandInv == ProvInv /\ Before /\ AttemptInv /\ Told /\ Counted

----------------------------------------------------------------------------
(* The resolution: facts about its steps *)

\* A step of one session leaves the others as they were, whoever it stops.
LEMMA OthersKeep ==
  ASSUME NEW i \in Instances, \A j \in Instances : Progress(j) /\ Ended(j) /\ Blame(j),
         \A j \in Instances \ {i} :
           /\ session'[j] = session[j] /\ got'[j] = got[j] /\ wire'[j] = wire[j] /\ proc'[j] = proc[j]
           /\ failed'[j] = failed[j] /\ (induced'[j] <=> induced[j]),
         halt # "none" => halt' # "none", root # "none" => root' # "none", guilty \subseteq guilty'
  PROVE  \A j \in Instances \ {i} : Progress(j)' /\ Ended(j)' /\ Blame(j)'
<1> TAKE j \in Instances \ {i}
<1>1. Progress(j)'
  BY DEF Progress
<1>2. Ended(j)'
  BY DEF Ended
<1>3. Failing(j)' <=> Failing(j)
  BY DEF Failing
<1>4. Blame(j)'
  BY <1>3 DEF Blame
<1> QED BY <1>1, <1>2, <1>4

\* A session that fails has not failed before; what stops the others then is
\* the operator, or a session that failed by itself: this one, if it is the
\* first.
LEMMA FailsWithDoes ==
  ASSUME ProvTypeOK, HaltHasCause, RootHasCause, NEW i \in Instances, NEW cause \in Causes,
         NEW culprit \in BOOLEAN, FailsWith(i, cause, culprit), failed[i] = "none",
         signal' = signal, root' = root
  PROVE  /\ failed' \in [Instances -> Causes \cup {"none"}] /\ induced' \in [Instances -> BOOLEAN]
         /\ halt' \in {"signal", "abort"} /\ halt' # "none"
         /\ \A j \in Instances \ {i} : failed'[j] = failed[j] /\ (induced'[j] <=> induced[j])
         /\ failed'[i] = cause
         /\ induced'[i] => ~culprit /\ halt # "none"
         /\ HaltHasCause' /\ RootHasCause'
<1>1. /\ failed' \in [Instances -> Causes \cup {"none"}] /\ failed'[i] = cause
      /\ \A j \in Instances \ {i} : failed'[j] = failed[j]
  BY DEF FailsWith, ProvTypeOK
<1>2. induced' = [induced EXCEPT ![i] = ~culprit /\ halt # "none"] /\ induced \in [Instances -> BOOLEAN]
  BY DEF FailsWith, ProvTypeOK
<1>3. induced' \in [Instances -> BOOLEAN]
  BY <1>2
<1>4. \A j \in Instances \ {i} : induced'[j] <=> induced[j]
  BY <1>2
<1>5. induced'[i] <=> (~culprit /\ halt # "none")
  BY <1>2
<1>6. halt' = IF halt = "none" THEN "abort" ELSE halt
  BY DEF FailsWith
<1>7. halt' \in {"signal", "abort"} /\ halt' # "none"
  BY <1>6 DEF ProvTypeOK
<1>8. cause # "none"
  BY DEF Causes
<1>9. \A j \in Instances : Failing(j) => Failing(j)' /\ failed'[j] = failed[j]
  BY <1>1, <1>4 DEF Failing
<1>10. halt = "none" => Failing(i)'
  BY <1>1, <1>5, <1>8 DEF Failing
<1>11. HaltHasCause'
  BY <1>6, <1>9, <1>10 DEF HaltHasCause
<1>12. RootHasCause'
  BY <1>9 DEF RootHasCause
<1> QED BY <1>1, <1>3, <1>4, <1>5, <1>7, <1>11, <1>12

\* A session that goes on changes nothing of who failed.
LEMMA NobodyFails ==
  ASSUME HaltHasCause, RootHasCause, UNCHANGED <<failed, induced, halt, signal, root>>
  PROVE  HaltHasCause' /\ RootHasCause'
<1>1. \A j \in Instances : Failing(j)' <=> Failing(j)
  BY DEF Failing
<1> QED BY <1>1 DEF HaltHasCause, RootHasCause

\* While there is no result there is none to be wrong.
LEMMA StillUnanswered ==
  ASSUME result' = "none"
  PROVE  Answered'
BY DEF Answered, RootIsReal, Causes

----------------------------------------------------------------------------
(* The resolution: every step keeps its invariant *)

\* A provider is spawned, or it is to blame.
LEMMA SpawnKeeps ==
  ASSUME ProvTypeOK, ProvInv, result = "none", NEW i \in Instances, Spawn(i)
  PROVE  ProvTypeOK' /\ ProvInv'
<1>1. /\ Progress(i) /\ Ended(i) /\ Blame(i) /\ HaltHasCause /\ RootHasCause
      /\ \A j \in Instances : Progress(j) /\ Ended(j) /\ Blame(j)
  BY DEF ProvInv
<1>2. /\ session[i] = "spawning" /\ UNCHANGED <<got, wire, root, result, signal>>
      /\ failed[i] = "none" /\ got[i] = 0 /\ wire[i] = "none" /\ proc[i] = "none"
  BY <1>1 DEF Spawn, Progress, Ended
<1>3. Answered'
  BY <1>2, StillUnanswered
<1>4. CASE /\ session' = [session EXCEPT ![i] = "setup"] /\ proc' = [proc EXCEPT ![i] = "up"]
           /\ UNCHANGED <<failed, induced, halt, guilty>>
  <2>1. ProvTypeOK'
    BY <1>2, <1>4 DEF ProvTypeOK, Talking
  <2>2. \A j \in Instances \ {i} : Progress(j)' /\ Ended(j)' /\ Blame(j)'
    BY <1>1, <1>2, <1>4, OthersKeep DEF ProvTypeOK
  <2>3. HaltHasCause' /\ RootHasCause'
    BY <1>1, <1>2, <1>4, NobodyFails
  <2>4. session'[i] = "setup" /\ proc'[i] = "up"
    BY <1>4 DEF ProvTypeOK
  <2>5. Progress(i)' /\ Ended(i)'
    BY <1>2, <1>4, <2>4 DEF Progress, Ended
  <2>6. Blame(i)'
    BY <1>1, <1>2, <1>4, <2>4 DEF Blame, Failing
  <2> QED BY <1>3, <2>1, <2>2, <2>3, <2>5, <2>6 DEF ProvInv
<1>5. CASE /\ session' = [session EXCEPT ![i] = "over"] /\ FailsWith(i, "incompatible", TRUE)
           /\ guilty' = guilty \cup {i} /\ UNCHANGED proc
  <2>1. /\ failed' \in [Instances -> Causes \cup {"none"}] /\ induced' \in [Instances -> BOOLEAN]
        /\ halt' \in {"signal", "abort"} /\ halt' # "none"
        /\ \A j \in Instances \ {i} : failed'[j] = failed[j] /\ (induced'[j] <=> induced[j])
        /\ failed'[i] = "incompatible" /\ ~induced'[i]
        /\ HaltHasCause' /\ RootHasCause'
    <3>1. "incompatible" \in Causes /\ TRUE \in BOOLEAN
      BY DEF Causes
    <3> QED BY <1>1, <1>2, <1>5, <3>1, FailsWithDoes
  <2>2. ProvTypeOK'
    BY <1>2, <1>5, <2>1 DEF ProvTypeOK, Talking
  <2>3. \A j \in Instances \ {i} : Progress(j)' /\ Ended(j)' /\ Blame(j)'
    BY <1>1, <1>2, <1>5, <2>1, OthersKeep DEF ProvTypeOK
  <2>4. session'[i] = "over" /\ proc'[i] = "none" /\ wire'[i] = "none" /\ i \in guilty'
    BY <1>2, <1>5 DEF ProvTypeOK
  <2>5. Progress(i)' /\ Ended(i)'
    BY <2>1, <2>4 DEF Progress, Ended
  <2>6. Blame(i)'
    BY <2>1, <2>4 DEF Blame, Failing
  <2> QED BY <1>3, <2>1, <2>2, <2>3, <2>5, <2>6 DEF ProvInv
<1> QED BY <1>4, <1>5 DEF Spawn

\* A session that fails while it talks: whoever is not named for it was told to
\* stop, or did something.
LEMMA FailedSession ==
  ASSUME ProvTypeOK, ProvInv, result = "none", NEW i \in Instances, session[i] \in Talking,
         session' = [session EXCEPT ![i] = "ending"],
         NEW cause \in Causes, NEW culprit \in BOOLEAN, FailsWith(i, cause, culprit),
         got' \in [Instances -> 0..References], \A j \in Instances \ {i} : got'[j] = got[j],
         wire' \in {wire, [wire EXCEPT ![i] = "none"]}, guilty' \in {guilty, guilty \cup {i}},
         culprit \/ halt = "none" => i \in guilty',
         UNCHANGED <<proc, root, result, signal>>
  PROVE  ProvTypeOK' /\ ProvInv'
<1>1. /\ Progress(i) /\ Ended(i) /\ Blame(i) /\ HaltHasCause /\ RootHasCause
      /\ \A j \in Instances : Progress(j) /\ Ended(j) /\ Blame(j)
  BY DEF ProvInv
<1>2. failed[i] = "none"
  BY <1>1 DEF Ended, Talking
<1>3. /\ failed' \in [Instances -> Causes \cup {"none"}] /\ induced' \in [Instances -> BOOLEAN]
      /\ halt' \in {"signal", "abort"} /\ halt' # "none"
      /\ \A j \in Instances \ {i} : failed'[j] = failed[j] /\ (induced'[j] <=> induced[j])
      /\ failed'[i] = cause /\ (induced'[i] => ~culprit /\ halt # "none")
      /\ HaltHasCause' /\ RootHasCause'
  BY <1>1, <1>2, FailsWithDoes
<1>4. ~induced'[i] => i \in guilty'
  <2>1. CASE culprit \/ halt = "none"
    BY <2>1
  <2>2. CASE ~culprit /\ halt # "none"
    BY <2>2 DEF FailsWith, ProvTypeOK
  <2> QED BY <2>1, <2>2
<1>5. wire' \in [Instances -> {"none", "value", "refusal", "finished"}]
  BY DEF ProvTypeOK
<1>6. ProvTypeOK'
  BY <1>3, <1>5 DEF ProvTypeOK, Talking
<1>7. \A j \in Instances \ {i} : Progress(j)' /\ Ended(j)' /\ Blame(j)'
  BY <1>1, <1>3, OthersKeep DEF ProvTypeOK
<1>8. session'[i] = "ending" /\ wire'[i] \in {wire[i], "none"} /\ guilty \subseteq guilty' /\ cause # "none"
  BY DEF ProvTypeOK, Causes
<1>9. Progress(i)' /\ Ended(i)'
  BY <1>3, <1>8 DEF Progress, Ended
<1>10. Blame(i)'
  BY <1>1, <1>3, <1>4, <1>8 DEF Blame, Failing, Talking
<1>11. Answered'
  BY StillUnanswered
<1> QED BY <1>3, <1>6, <1>7, <1>9, <1>10, <1>11 DEF ProvInv

\* A session that goes on, or a provider that does something: what is to be
\* shown is this session's part.
LEMMA OneSession ==
  ASSUME ProvTypeOK, ProvInv, result = "none", NEW i \in Instances,
         \A j \in Instances \ {i} :
           /\ session'[j] = session[j] /\ got'[j] = got[j] /\ wire'[j] = wire[j] /\ proc'[j] = proc[j],
         guilty \subseteq guilty', UNCHANGED <<failed, induced, halt, root, result, signal>>,
         Progress(i)', Ended(i)', Blame(i)'
  PROVE  ProvInv'
<1>1. /\ HaltHasCause /\ RootHasCause
      /\ \A j \in Instances : Progress(j) /\ Ended(j) /\ Blame(j)
  BY DEF ProvInv
<1>2. \A j \in Instances \ {i} : Progress(j)' /\ Ended(j)' /\ Blame(j)'
  BY <1>1, OthersKeep
<1>3. HaltHasCause' /\ RootHasCause'
  BY <1>1, NobodyFails
<1>4. Answered'
  BY StillUnanswered
<1> QED BY <1>2, <1>3, <1>4 DEF ProvInv

\* The next request, to a provider that is there or is gone.
LEMMA RequestKeeps ==
  ASSUME ProvTypeOK, ProvInv, result = "none", NEW i \in Instances, session[i] \in {"setup", "resolving"},
         Request(i), got' \in [Instances -> 0..References], got'[i] < References,
         \A j \in Instances \ {i} : got'[j] = got[j],
         wire' = [wire EXCEPT ![i] = "none"], wire[i] # "finished",
         UNCHANGED <<proc, root, result, guilty, signal>>
  PROVE  ProvTypeOK' /\ ProvInv'
<1>1. Progress(i) /\ Ended(i) /\ Blame(i)
  BY DEF ProvInv
<1>2. CASE proc[i] = "gone"
  <2>1. session' = [session EXCEPT ![i] = "ending"] /\ FailsWith(i, "config", FALSE)
    BY <1>2 DEF Request
  <2>2. i \in guilty
    BY <1>1, <1>2 DEF Blame, Talking
  <2>3. "config" \in Causes /\ FALSE \in BOOLEAN /\ session[i] \in Talking
    BY DEF Causes, Talking
  <2> QED BY <2>1, <2>2, <2>3, FailedSession
<1>3. CASE proc[i] # "gone"
  <2>1. session' = [session EXCEPT ![i] = "resolving"] /\ UNCHANGED <<failed, induced, halt>>
    BY <1>3 DEF Request
  <2>2. ProvTypeOK'
    BY <2>1 DEF ProvTypeOK, Talking
  <2>3. session'[i] = "resolving" /\ wire'[i] = "none" /\ failed[i] = "none"
    BY <1>1, <2>1 DEF ProvTypeOK, Ended
  <2>4. Progress(i)' /\ Ended(i)'
    BY <2>1, <2>3 DEF Progress, Ended
  <2>5. Blame(i)'
    BY <1>1, <1>3, <2>1, <2>3 DEF Blame, Failing
  <2> QED BY <2>1, <2>2, <2>4, <2>5, OneSession DEF ProvTypeOK
<1> QED BY <1>2, <1>3

\* The setup: a provider that is gone by then broke.
LEMMA SetUpKeeps ==
  ASSUME ProvTypeOK, ProvInv, result = "none", NEW i \in Instances, SetUp(i)
  PROVE  ProvTypeOK' /\ ProvInv'
<1>1. /\ session[i] = "setup" /\ session[i] \in Talking /\ UNCHANGED <<got, wire, proc, root, result, signal>>
      /\ got \in [Instances -> 0..References]
  BY DEF SetUp, Talking, ProvTypeOK
<1>2. got[i] = 0 /\ wire[i] = "none" /\ Blame(i)
  BY <1>1 DEF ProvInv, Progress
<1>3. CASE Request(i) /\ UNCHANGED guilty
  <2>1. wire' = [wire EXCEPT ![i] = "none"]
    BY <1>1, <1>2 DEF ProvTypeOK
  <2>2. got'[i] < References
    BY <1>1, <1>2, ProvidersAssumption
  <2> QED BY <1>1, <1>2, <1>3, <2>1, <2>2, RequestKeeps
<1>4. CASE /\ \E cause \in Causes : FailsWith(i, cause, TRUE)
           /\ session' = [session EXCEPT ![i] = "ending"] /\ guilty' = guilty \cup {i}
  <2>1. PICK cause \in Causes : FailsWith(i, cause, TRUE)
    BY <1>4
  <2>2. TRUE \in BOOLEAN
    OBVIOUS
  <2> QED BY <1>1, <1>4, <2>1, <2>2, FailedSession
<1>5. CASE /\ proc[i] = "gone" /\ FailsWith(i, "config", TRUE)
           /\ session' = [session EXCEPT ![i] = "ending"] /\ UNCHANGED guilty
  <2>1. "config" \in Causes /\ TRUE \in BOOLEAN
    BY DEF Causes
  <2>2. i \in guilty
    BY <1>1, <1>2, <1>5 DEF Blame
  <2> QED BY <1>1, <1>5, <2>1, <2>2, FailedSession
<1> QED BY <1>3, <1>4, <1>5 DEF SetUp

\* An answer: with the last value the input is closed.
LEMMA HearKeeps ==
  ASSUME ProvTypeOK, ProvInv, result = "none", NEW i \in Instances, Hear(i)
  PROVE  ProvTypeOK' /\ ProvInv'
<1>1. /\ session[i] \in {"resolving", "closing"} /\ session[i] \in Talking /\ wire[i] # "none"
      /\ wire' = [wire EXCEPT ![i] = "none"] /\ UNCHANGED <<proc, root, result, guilty, signal>>
      /\ got \in [Instances -> 0..References]
  BY DEF Hear, Talking, ProvTypeOK
<1>2. Progress(i) /\ Ended(i) /\ Blame(i)
  BY DEF ProvInv
<1>3. CASE /\ wire[i] = "value" /\ got' = [got EXCEPT ![i] = @ + 1]
           /\ IF got[i] + 1 < References THEN Request(i)
              ELSE session' = [session EXCEPT ![i] = "closing"] /\ UNCHANGED <<failed, induced, halt>>
  <2>1. session[i] = "resolving" /\ got[i] < References /\ got[i] \in Nat
    BY <1>1, <1>2, <1>3 DEF Progress
  <2>2. got' \in [Instances -> 0..References] /\ got'[i] = got[i] + 1 /\ \A j \in Instances \ {i} : got'[j] = got[j]
    BY <1>1, <1>3, <2>1, ProvidersAssumption
  <2>3. CASE got[i] + 1 < References
    BY <1>1, <1>3, <2>1, <2>2, <2>3, RequestKeeps
  <2>4. CASE ~(got[i] + 1 < References)
    <3>1. session' = [session EXCEPT ![i] = "closing"] /\ UNCHANGED <<failed, induced, halt>>
      BY <1>3, <2>4
    <3>2. ProvTypeOK'
      BY <1>1, <2>2, <3>1 DEF ProvTypeOK, Talking
    <3>3. session'[i] = "closing" /\ wire'[i] = "none" /\ failed[i] = "none" /\ got'[i] = References
      BY <1>1, <1>2, <2>1, <2>2, <2>4, <3>1, ProvidersAssumption DEF ProvTypeOK, Ended
    <3>4. Progress(i)' /\ Ended(i)'
      BY <3>1, <3>3 DEF Progress, Ended
    <3>5. proc[i] = "gone" => i \in guilty
      BY <1>1, <1>2, <1>3 DEF Blame
    <3>6. Blame(i)'
      BY <1>1, <1>2, <3>1, <3>3, <3>5 DEF Blame, Failing
    <3> QED BY <1>1, <2>2, <3>1, <3>2, <3>4, <3>6, OneSession DEF ProvTypeOK
  <2> QED BY <2>3, <2>4
<1>4. CASE /\ wire[i] = "refusal" /\ session' = [session EXCEPT ![i] = "ending"]
           /\ FailsWith(i, "config", TRUE) /\ UNCHANGED got
  <2>1. "config" \in Causes /\ TRUE \in BOOLEAN
    BY DEF Causes
  <2>2. i \in guilty
    BY <1>2, <1>4 DEF Blame
  <2> QED BY <1>1, <1>4, <2>1, <2>2, FailedSession
<1>5. CASE /\ wire[i] = "finished" /\ session' = [session EXCEPT ![i] = "ending"]
           /\ UNCHANGED <<got, failed, induced, halt>>
  <2>1. ProvTypeOK'
    BY <1>1, <1>5 DEF ProvTypeOK, Talking
  <2>2. session'[i] = "ending" /\ wire'[i] = "none" /\ failed[i] = "none" /\ got[i] = References
    BY <1>1, <1>2, <1>5 DEF ProvTypeOK, Ended, Progress
  <2>3. Progress(i)' /\ Ended(i)'
    BY <1>1, <1>5, <2>2 DEF Progress, Ended
  <2>4. Blame(i)'
    BY <1>1, <1>2, <1>5, <2>2 DEF Blame, Failing, Talking
  <2> QED BY <1>1, <1>5, <2>1, <2>3, <2>4, OneSession DEF ProvTypeOK
<1> QED BY <1>3, <1>4, <1>5 DEF Hear

\* Whose output ends before its answer broke.
LEMMA SeesEndKeeps ==
  ASSUME ProvTypeOK, ProvInv, result = "none", NEW i \in Instances, SeesEnd(i)
  PROVE  ProvTypeOK' /\ ProvInv'
<1>1. /\ session[i] \in Talking /\ session' = [session EXCEPT ![i] = "ending"] /\ FailsWith(i, "config", TRUE)
      /\ UNCHANGED <<got, wire, proc, root, result, guilty, signal>> /\ proc[i] = "gone" /\ wire[i] = "none"
      /\ got \in [Instances -> 0..References] /\ "config" \in Causes /\ TRUE \in BOOLEAN
  BY DEF SeesEnd, Talking, Causes, ProvTypeOK
<1>2. i \in guilty
  BY <1>1 DEF ProvInv, Blame
<1> QED BY <1>1, <1>2, FailedSession

\* Who is late is to blame.
LEMMA OverdueKeeps ==
  ASSUME ProvTypeOK, ProvInv, result = "none", NEW i \in Instances, Overdue(i)
  PROVE  ProvTypeOK' /\ ProvInv'
<1>1. /\ session[i] \in Talking /\ session' = [session EXCEPT ![i] = "ending"] /\ FailsWith(i, "config", TRUE)
      /\ guilty' = guilty \cup {i} /\ UNCHANGED <<got, wire, proc, root, result, signal>>
      /\ got \in [Instances -> 0..References] /\ "config" \in Causes /\ TRUE \in BOOLEAN
  BY DEF Overdue, Causes, ProvTypeOK
<1> QED BY <1>1, FailedSession

\* Who is stopped is not.
LEMMA HaltedKeeps ==
  ASSUME ProvTypeOK, ProvInv, result = "none", NEW i \in Instances, Halted(i)
  PROVE  ProvTypeOK' /\ ProvInv'
<1>1. /\ session[i] \in Talking /\ session' = [session EXCEPT ![i] = "ending"] /\ FailsWith(i, "config", FALSE)
      /\ halt # "none" /\ UNCHANGED <<got, wire, proc, root, result, guilty, signal>>
      /\ got \in [Instances -> 0..References] /\ "config" \in Causes /\ FALSE \in BOOLEAN
  BY DEF Halted, Causes, ProvTypeOK
<1> QED BY <1>1, FailedSession

\* The end of a session is the end of its provider.
LEMMA WindDownKeeps ==
  ASSUME ProvTypeOK, ProvInv, result = "none", NEW i \in Instances, WindDown(i)
  PROVE  ProvTypeOK' /\ ProvInv'
<1>1. /\ session[i] = "ending" /\ session' = [session EXCEPT ![i] = "over"]
      /\ proc' = [proc EXCEPT ![i] = "gone"] /\ wire' = [wire EXCEPT ![i] = "none"]
      /\ UNCHANGED <<got, failed, induced, halt, root, result, signal, guilty>>
  BY DEF WindDown
<1>2. Progress(i) /\ Ended(i) /\ Blame(i)
  BY DEF ProvInv
<1>3. ProvTypeOK'
  BY <1>1 DEF ProvTypeOK
<1>4. session'[i] = "over" /\ proc'[i] = "gone" /\ wire'[i] = "none"
  BY <1>1 DEF ProvTypeOK
<1>5. Progress(i)' /\ Ended(i)'
  BY <1>1, <1>2, <1>4 DEF Progress, Ended
<1>6. Blame(i)'
  BY <1>1, <1>2, <1>4 DEF Blame, Failing, Talking
<1> QED BY <1>1, <1>3, <1>5, <1>6, OneSession DEF ProvTypeOK

\* The first session joined that failed by itself is the root.
LEMMA JoinKeeps ==
  ASSUME ProvTypeOK, ProvInv, result = "none", NEW i \in Instances, Join(i)
  PROVE  ProvTypeOK' /\ ProvInv'
<1>1. /\ session[i] = "over" /\ session' = [session EXCEPT ![i] = "joined"]
      /\ root' = IF Failing(i) /\ root = "none" THEN failed[i] ELSE root
      /\ UNCHANGED <<got, wire, proc, failed, induced, halt, result, guilty, signal>>
  BY DEF Join, Failing
<1>2. /\ Progress(i) /\ Ended(i) /\ Blame(i) /\ HaltHasCause /\ RootHasCause
      /\ \A j \in Instances : Progress(j) /\ Ended(j) /\ Blame(j)
  BY DEF ProvInv
<1>3. ProvTypeOK'
  BY <1>1 DEF ProvTypeOK
<1>4. session'[i] = "joined"
  BY <1>1 DEF ProvTypeOK
<1>5. Progress(i)' /\ Ended(i)'
  BY <1>1, <1>2, <1>4 DEF Progress, Ended
<1>6. \A j \in Instances : Failing(j)' <=> Failing(j)
  BY <1>1 DEF Failing
<1>7. Failing(i) => root' # "none"
  BY <1>1 DEF Failing
<1>8. Blame(i)'
  BY <1>1, <1>2, <1>4, <1>6, <1>7 DEF Blame, Talking
<1>9. \A j \in Instances \ {i} : Progress(j)' /\ Ended(j)' /\ Blame(j)'
  BY <1>1, <1>2, OthersKeep DEF ProvTypeOK
<1>10. HaltHasCause'
  BY <1>1, <1>2, <1>6 DEF HaltHasCause
<1>11. RootHasCause'
  BY <1>1, <1>2, <1>6 DEF RootHasCause
<1>12. Answered'
  BY <1>1, StillUnanswered
<1> QED BY <1>3, <1>5, <1>8, <1>9, <1>10, <1>11, <1>12 DEF ProvInv

\* A provider answers, refuses or finishes.
LEMMA ServeKeeps ==
  ASSUME ProvTypeOK, ProvInv, result = "none", NEW i \in Instances, Serve(i)
  PROVE  ProvTypeOK' /\ ProvInv'
<1>1. /\ proc[i] = "up" /\ wire[i] = "none"
      /\ UNCHANGED <<session, got, failed, induced, halt, root, result, signal>>
  BY DEF Serve
<1>2. Progress(i) /\ Ended(i) /\ Blame(i)
  BY DEF ProvInv
<1>3. Ended(i)'
  BY <1>1, <1>2 DEF Ended
<1>4. CASE /\ session[i] = "resolving" /\ wire' = [wire EXCEPT ![i] = "value"] /\ UNCHANGED <<guilty, proc>>
  <2>1. ProvTypeOK'
    BY <1>1, <1>4 DEF ProvTypeOK
  <2>2. wire'[i] = "value"
    BY <1>4 DEF ProvTypeOK
  <2>3. Progress(i)'
    BY <1>1, <1>2, <1>4, <2>2 DEF Progress
  <2>4. Blame(i)'
    BY <1>1, <1>2, <1>4, <2>2 DEF Blame, Failing
  <2> QED BY <1>1, <1>3, <1>4, <2>1, <2>3, <2>4, OneSession DEF ProvTypeOK
<1>5. CASE /\ session[i] = "resolving" /\ wire' = [wire EXCEPT ![i] = "refusal"]
           /\ guilty' = guilty \cup {i} /\ UNCHANGED proc
  <2>1. ProvTypeOK'
    BY <1>1, <1>5 DEF ProvTypeOK
  <2>2. wire'[i] = "refusal" /\ i \in guilty'
    BY <1>5 DEF ProvTypeOK
  <2>3. Progress(i)'
    BY <1>1, <1>2, <1>5, <2>2 DEF Progress
  <2>4. Blame(i)'
    BY <1>1, <1>2, <1>5, <2>2 DEF Blame, Failing
  <2> QED BY <1>1, <1>3, <1>5, <2>1, <2>3, <2>4, OneSession DEF ProvTypeOK
<1>6. CASE /\ session[i] = "closing" /\ wire' = [wire EXCEPT ![i] = "finished"]
           /\ proc' = [proc EXCEPT ![i] = "gone"] /\ UNCHANGED guilty
  <2>1. ProvTypeOK'
    BY <1>1, <1>6 DEF ProvTypeOK
  <2>2. wire'[i] = "finished" /\ proc'[i] = "gone"
    BY <1>6 DEF ProvTypeOK
  <2>3. Progress(i)'
    BY <1>1, <1>2, <1>6, <2>2 DEF Progress
  <2>4. Blame(i)'
    BY <1>1, <1>2, <1>6, <2>2 DEF Blame, Failing
  <2> QED BY <1>1, <1>3, <1>6, <2>1, <2>3, <2>4, OneSession DEF ProvTypeOK
<1> QED BY <1>4, <1>5, <1>6 DEF Serve

\* A provider breaks, and is to blame for it.
LEMMA ProviderBreaksKeeps ==
  ASSUME ProvTypeOK, ProvInv, result = "none", NEW i \in Instances, ProviderBreaks(i)
  PROVE  ProvTypeOK' /\ ProvInv'
<1>1. /\ session[i] \in Talking /\ guilty' = guilty \cup {i}
      /\ UNCHANGED <<session, got, wire, failed, induced, halt, root, result, signal>>
  BY DEF ProviderBreaks
<1>2. PICK how \in {"hung", "gone"} : proc' = [proc EXCEPT ![i] = how]
  BY DEF ProviderBreaks
<1>3. Progress(i) /\ Ended(i) /\ Blame(i)
  BY DEF ProvInv
<1>4. ProvTypeOK'
  BY <1>1, <1>2 DEF ProvTypeOK
<1>5. proc'[i] = how /\ i \in guilty'
  BY <1>1, <1>2 DEF ProvTypeOK
<1>6. Progress(i)' /\ Ended(i)'
  BY <1>1, <1>3, <1>5 DEF Progress, Ended, Talking
<1>7. Blame(i)'
  BY <1>1, <1>3, <1>5 DEF Blame, Failing, Talking
<1> QED BY <1>1, <1>2, <1>4, <1>6, <1>7, OneSession DEF ProvTypeOK

\* The sessions begin together, when every binary was found.
LEMMA BeginKeeps ==
  ASSUME ProvTypeOK, ProvInv, result = "none", Begin
  PROVE  ProvTypeOK' /\ ProvInv'
<1>1. /\ \A i \in Instances : session[i] = "idle"
      /\ UNCHANGED <<got, wire, proc, failed, induced, halt, root, guilty, signal>>
  BY DEF Begin
<1>2. /\ HaltHasCause /\ RootHasCause
      /\ \A i \in Instances : Progress(i) /\ Ended(i) /\ Blame(i)
  BY DEF ProvInv
<1>3. HaltHasCause' /\ RootHasCause'
  BY <1>1, <1>2, NobodyFails
<1>4. CASE UNCHANGED session /\ result' \in {"resolved", "interrupted", "not_found"}
           /\ (result' = "resolved" => Instances = {}) /\ (result' = "interrupted" => signal)
  <2>1. ProvTypeOK'
    BY <1>1, <1>4 DEF ProvTypeOK, Results
  <2>2. ASSUME NEW i \in Instances PROVE Progress(i)' /\ Ended(i)' /\ Blame(i)'
    BY <1>1, <1>2, <1>4 DEF Progress, Ended, Blame, Failing
  <2>3. Answered'
    BY <1>1, <1>4 DEF Answered, RootIsReal, Causes, Complete
  <2> QED BY <1>3, <2>1, <2>2, <2>3 DEF ProvInv
<1>5. CASE session' = [i \in Instances |-> "spawning"] /\ UNCHANGED result
  <2>1. ProvTypeOK'
    BY <1>1, <1>5 DEF ProvTypeOK
  <2>2. ASSUME NEW i \in Instances PROVE Progress(i)' /\ Ended(i)' /\ Blame(i)'
    <3>1. session'[i] = "spawning"
      BY <1>5
    <3> QED BY <1>1, <1>2, <3>1 DEF Progress, Ended, Blame, Failing, Talking
  <2>3. Answered'
    BY <1>5, StillUnanswered
  <2> QED BY <1>3, <2>1, <2>2, <2>3 DEF ProvInv
<1> QED BY <1>4, <1>5 DEF Begin

\* The operator's signal stops the sessions.
LEMMA ForwardSignalKeeps ==
  ASSUME ProvTypeOK, ProvInv, result = "none", ForwardSignal
  PROVE  ProvTypeOK' /\ ProvInv'
<1>1. /\ signal /\ halt = "none" /\ halt' = "signal"
      /\ UNCHANGED <<session, got, wire, proc, failed, induced, root, result, guilty, signal>>
  BY DEF ForwardSignal
<1>2. /\ HaltHasCause /\ RootHasCause
      /\ \A i \in Instances : Progress(i) /\ Ended(i) /\ Blame(i)
  BY DEF ProvInv
<1>3. ProvTypeOK'
  BY <1>1 DEF ProvTypeOK
<1>4. ASSUME NEW i \in Instances PROVE Progress(i)' /\ Ended(i)' /\ Blame(i)'
  BY <1>1, <1>2 DEF Progress, Ended, Blame, Failing
<1>5. HaltHasCause' /\ RootHasCause'
  BY <1>1, <1>2 DEF HaltHasCause, RootHasCause, Failing
<1>6. Answered'
  BY <1>1, StillUnanswered
<1> QED BY <1>3, <1>4, <1>5, <1>6 DEF ProvInv

\* What is reported: without a signal, and with every session joined, either
\* one failed by itself, or none did, and then nobody was stopped.
LEMMA ResolvedKeeps ==
  ASSUME ProvTypeOK, ProvInv, result = "none", Resolved
  PROVE  ProvTypeOK' /\ ProvInv'
<1>1. /\ \A i \in Instances : session[i] = "joined"
      /\ result' = IF signal THEN "interrupted" ELSE IF root # "none" THEN root
                   ELSE IF Complete THEN "resolved" ELSE "nobody"
      /\ UNCHANGED <<session, got, wire, proc, failed, induced, halt, root, guilty, signal>>
  BY DEF Resolved
<1>2. /\ HaltHasCause /\ RootHasCause
      /\ \A i \in Instances : Progress(i) /\ Ended(i) /\ Blame(i)
  BY DEF ProvInv
<1>3. ProvTypeOK'
  BY <1>1 DEF ProvTypeOK, Results
<1>4. ASSUME NEW i \in Instances PROVE Progress(i)' /\ Ended(i)' /\ Blame(i)'
  BY <1>1, <1>2 DEF Progress, Ended, Blame, Failing
<1>5. HaltHasCause' /\ RootHasCause'
  BY <1>1, <1>2, NobodyFails
<1>6. ~signal /\ root = "none" => Complete
  <2> SUFFICES ASSUME ~signal, root = "none", NEW i \in Instances
               PROVE  failed[i] = "none" /\ got[i] = References
    BY DEF Complete
  <2>1. \A j \in Instances : ~Failing(j)
    BY <1>1, <1>2 DEF Blame
  <2>2. halt = "none"
    BY <1>2, <2>1 DEF HaltHasCause, ProvTypeOK
  <2>3. failed[i] = "none"
    BY <1>2, <2>1, <2>2 DEF Blame, Failing
  <2> QED BY <1>1, <1>2, <2>3 DEF Ended
<1>7. root # "none" => \E i \in guilty : failed[i] = root /\ ~induced[i]
  BY <1>2 DEF RootHasCause, Blame, Failing
<1>8. Complete' <=> Complete
  BY <1>1 DEF Complete
<1>9. Answered'
  <2>1. result' # "nobody"
    BY <1>1, <1>6 DEF ProvTypeOK, Causes
  <2>2. result' \in Causes => root # "none" /\ result' = root
    BY <1>1 DEF ProvTypeOK, Causes
  <2>3. RootIsReal'
    BY <1>1, <1>7, <2>1, <2>2 DEF RootIsReal
  <2>4. (result' = "resolved" => Complete') /\ (result' = "interrupted" => signal')
    BY <1>1, <1>8 DEF ProvTypeOK, Causes
  <2> QED BY <1>1, <2>3, <2>4 DEF Answered
<1> QED BY <1>3, <1>4, <1>5, <1>9 DEF ProvInv

\* Every step of the resolution.
LEMMA ResolutionKeeps ==
  ASSUME ProvTypeOK, ProvInv, result = "none", ProvNext
  PROVE  ProvTypeOK' /\ ProvInv'
<1>1. CASE Begin
  BY <1>1, BeginKeeps
<1>2. CASE ForwardSignal
  BY <1>2, ForwardSignalKeeps
<1>3. CASE Resolved
  BY <1>3, ResolvedKeeps
<1>4. ASSUME NEW i \in Instances, SessionStep(i) PROVE ProvTypeOK' /\ ProvInv'
  BY <1>4, SpawnKeeps, SetUpKeeps, HearKeeps, SeesEndKeeps, OverdueKeeps, HaltedKeeps, WindDownKeeps,
     JoinKeeps, ServeKeeps DEF SessionStep
<1>5. ASSUME NEW i \in Instances, ProviderBreaks(i) PROVE ProvTypeOK' /\ ProvInv'
  BY <1>5, ProviderBreaksKeeps
<1> QED BY <1>1, <1>2, <1>3, <1>4, <1>5 DEF ProvNext

\* Nothing has happened yet.
LEMMA ResolutionBegins == ProvInit => ProvTypeOK /\ ProvInv /\ Untouched
<1> SUFFICES ASSUME ProvInit PROVE ProvTypeOK /\ ProvInv /\ Untouched
  OBVIOUS
<1>1. ProvTypeOK
  <2>1. induced \in [Instances -> BOOLEAN] /\ signal \in BOOLEAN
    BY Zenon DEF ProvInit
  <2>2. got \in [Instances -> 0..References]
    BY ProvidersAssumption DEF ProvInit
  <2> QED BY <2>1, <2>2 DEF ProvInit, ProvTypeOK, Talking, Results
<1>2. ASSUME NEW i \in Instances PROVE Progress(i) /\ Ended(i) /\ Blame(i)
  BY DEF ProvInit, Progress, Ended, Blame, Failing, Talking
<1>3. HaltHasCause /\ RootHasCause
  BY DEF ProvInit, HaltHasCause, RootHasCause
<1>4. Answered
  BY DEF ProvInit, Answered, RootIsReal, Causes
<1> QED BY <1>1, <1>2, <1>3, <1>4 DEF ProvInv, ProvInit, Untouched

\* What leaves the resolution alone leaves what is known of it alone.
LEMMA ResolutionStays ==
  ASSUME ProvTypeOK, ProvInv, UNCHANGED sessionVars, signal => signal', signal' \in BOOLEAN
  PROVE  ProvTypeOK' /\ ProvInv'
<1>1. UNCHANGED <<session, got, wire, proc, failed, induced, halt, root, result, guilty>>
  BY DEF sessionVars
<1>2. ProvTypeOK'
  BY <1>1 DEF ProvTypeOK
<1>3. ASSUME NEW i \in Instances PROVE Progress(i)' /\ Ended(i)' /\ Blame(i)'
  BY <1>1 DEF ProvInv, Progress, Ended, Blame, Failing
<1>4. HaltHasCause' /\ RootHasCause'
  BY <1>1 DEF ProvInv, HaltHasCause, RootHasCause, Failing
<1>5. Answered'
  BY <1>1 DEF ProvInv, Answered, RootIsReal, Complete
<1> QED BY <1>2, <1>3, <1>4, <1>5 DEF ProvInv

----------------------------------------------------------------------------
(* The command: its stages, and what most of its steps leave alone *)

StageNames ==
  {"read", "resolve", "begin", "data", "abort", "await", "backoff", "report", "over", "lock", "prepare",
   "spawn", "configure", "gates", "sink", "producer", "drift", "state", "destination"}

AttemptTypes ==
  /\ stage \in StageNames
  /\ lock \in {"free", "run", "task"} /\ live \subseteq {"source", "parser", "destination", "sink"}
  /\ sinkTask \in {"none", "running", "ok", "failed"} /\ stateTask \in {"none", "running", "ok", "failed"}
  /\ trigger \in BOOLEAN /\ outcome \in {"held", "ok", "failed"} /\ failure \in Errors \cup {"none"}
  /\ late \in BOOLEAN /\ staging \in {"none", "there", "removed"}
  /\ downloads \in {"none", "empty", "files", "removed"} /\ flowing \in BOOLEAN /\ status \in Statuses

LoopTypes ==
  /\ attempt \in 1..MaxAttempts /\ idle \in 0..MaxAttempts /\ wait \in 0..3600
  /\ history \in Seq(BOOLEAN) /\ Len(history) < MaxAttempts

EndTypes == exit \in Exits \cup {"none"} /\ document \in {"none", "success", "cancelled", "error"}

\* The names of the setup's steps.
LEMMA StepNames ==
  {Steps[i] : i \in 1..Len(Steps)} =
    {"lock", "prepare", "spawn", "configure", "gates", "sink", "producer", "drift", "state", "destination"}
BY DEF Steps

\* The type invariant, by what the steps change of it.
LEMMA TypeParts ==
  TypeOK <=> ProvTypeOK /\ shape \subseteq Parts /\ LoopTypes /\ AttemptTypes /\ EndTypes
<1>1. stage \in StageNames <=>
        stage \in {"read", "resolve", "begin", "data", "abort", "await", "backoff", "report", "over"}
                  \cup {Steps[i] : i \in 1..Len(Steps)}
  BY StepNames DEF StageNames
<1>2. {sinkTask, stateTask} \subseteq {"none", "running", "ok", "failed"}
        <=> sinkTask \in {"none", "running", "ok", "failed"} /\ stateTask \in {"none", "running", "ok", "failed"}
  OBVIOUS
<1>3. TypeOK => ProvTypeOK /\ shape \subseteq Parts /\ LoopTypes /\ AttemptTypes /\ EndTypes
  BY <1>1, <1>2 DEF TypeOK, LoopTypes, AttemptTypes, EndTypes
<1>4. ProvTypeOK /\ shape \subseteq Parts /\ LoopTypes /\ AttemptTypes /\ EndTypes => TypeOK
  BY <1>1, <1>2 DEF TypeOK, LoopTypes, AttemptTypes, EndTypes
<1> QED BY <1>3, <1>4

\* The same of the state a step leads to.
LEMMA TypePartsNext ==
  ASSUME ProvTypeOK', (shape \subseteq Parts)', LoopTypes', AttemptTypes', EndTypes'
  PROVE  TypeOK'
<1>1. (stage \in {"read", "resolve", "begin", "data", "abort", "await", "backoff", "report", "over"}
                  \cup {Steps[i] : i \in 1..Len(Steps)})'
  BY StepNames DEF StageNames, AttemptTypes
<1>2. ({sinkTask, stateTask} \subseteq {"none", "running", "ok", "failed"})'
  BY DEF AttemptTypes
<1> QED BY <1>1, <1>2 DEF TypeOK, LoopTypes, AttemptTypes, EndTypes

\* The order of the setup.
LEMMA StepOrder ==
  /\ StepAfter("lock") = "prepare" /\ StepAfter("prepare") = "spawn" /\ StepAfter("spawn") = "configure"
  /\ StepAfter("configure") = "gates" /\ StepAfter("gates") = "sink" /\ StepAfter("sink") = "producer"
  /\ StepAfter("producer") = "drift" /\ StepAfter("drift") = "state" /\ StepAfter("state") = "destination"
  /\ StepAfter("destination") = "data"
<1> DEFINE N(s) == CHOOSE i \in 1..Len(Steps) : Steps[i] = s
<1>1. /\ N("lock") = 1 /\ N("prepare") = 2 /\ N("spawn") = 3 /\ N("configure") = 4 /\ N("gates") = 5
      /\ N("sink") = 6 /\ N("producer") = 7 /\ N("drift") = 8 /\ N("state") = 9 /\ N("destination") = 10
  BY DEF Steps
<1> QED BY <1>1 DEF StepAfter, Steps

\* Outside the loop nothing is counted.
LEMMA CountedStays ==
  ASSUME Counted, UNCHANGED <<attempt, idle, wait, history>>,
         stage' \in {stage, "over"} \/ {stage, stage'} \cap {"backoff", "over"} = {}
  PROVE  Counted'
<1>1. Wrote' = Wrote /\ Backoff(idle)' = Backoff(idle)
  BY DEF Wrote, Backoff, Lesser
<1>2. /\ history' = <<>> => idle' = 0
      /\ history' # <<>> =>
           /\ wait' = Backoff(idle)'
           /\ \/ Wrote' = {} /\ idle' = Len(history')
              \/ \E k \in Wrote' : (\A m \in Wrote' : m <= k) /\ idle' = Len(history') - k + 1
  BY <1>1 DEF Counted
<1>3. /\ stage' \notin {"backoff", "over"} => Len(history') = attempt' - 1
      /\ stage' = "backoff" => Len(history') = attempt'
  BY DEF Counted
<1> QED BY <1>2, <1>3 DEF Counted

\* A step inside an attempt: what is to be shown is the attempt's part.
LEMMA InsideAttempt ==
  ASSUME TypeOK, CommandInv, UNCHANGED <<provVars, shape, loopVars, exit, document>>,
         stage \notin {"read", "resolve", "backoff", "over"}, stage' \notin {"read", "resolve", "backoff", "over"},
         stage' \in {"begin", "lock"} => Fresh', AttemptTypes', AttemptInv'
  PROVE  TypeOK' /\ CommandInv'
<1>1. ProvTypeOK /\ shape \subseteq Parts /\ LoopTypes /\ AttemptTypes /\ EndTypes
  BY TypeParts
<1>2. /\ UNCHANGED sessionVars /\ signal' = signal /\ result' = result /\ shape' = shape
      /\ UNCHANGED <<attempt, idle, wait, history>> /\ UNCHANGED <<exit, document>>
  BY DEF provVars, sessionVars, loopVars
<1>3. signal' \in BOOLEAN
  BY <1>1, <1>2, Zenon DEF ProvTypeOK
<1>4. ProvTypeOK' /\ ProvInv'
  BY <1>1, <1>2, <1>3, ResolutionStays DEF CommandInv
<1>5. LoopTypes' /\ EndTypes' /\ shape' \subseteq Parts
  BY <1>1, <1>2 DEF LoopTypes, EndTypes
<1>6. TypeOK'
  BY <1>4, <1>5, TypePartsNext
<1>7. Valid(shape)' /\ result' = "resolved"
  BY <1>2 DEF CommandInv, Before, Valid
<1>8. Before'
  BY <1>7 DEF Before
<1>9. exit' = "none"
  BY <1>2 DEF CommandInv, Told
<1>10. Told'
  BY <1>9 DEF Told, ExitTellsTheTruth
<1>11. Counted'
  BY <1>2, CountedStays DEF CommandInv
<1> QED BY <1>4, <1>6, <1>8, <1>10, <1>11 DEF CommandInv

----------------------------------------------------------------------------
(* The command: every step of an attempt keeps its invariant *)

\* An attempt begins, unless the signal came before it.
LEMMA BeginAttemptKeeps ==
  ASSUME TypeOK, CommandInv, BeginAttempt
  PROVE  TypeOK' /\ CommandInv'
<1>1. AttemptTypes /\ Before /\ AttemptInv
  BY TypeParts DEF CommandInv
<1>2. UNCHANGED <<provVars, shape, loopVars, exit, document>>
  BY DEF BeginAttempt
<1>3. /\ stage \notin {"read", "resolve", "backoff", "over"}
      /\ stage' \notin {"read", "resolve", "backoff", "over"}
  BY <1>1, StepOrder DEF BeginAttempt, Return, Before, Fresh, Tasks, AttemptInv, Closed
<1>4. stage' \in {"begin", "lock"} => Fresh'
  BY <1>1, StepOrder DEF BeginAttempt, Return, Before, Fresh, attemptVars, Tasks, AttemptInv
<1>5. AttemptTypes'
  BY <1>1, StepOrder DEF BeginAttempt, Return, attemptVars, AttemptTypes, StageNames, Errors, Statuses
<1>6. AttemptInv'
  BY <1>1, <1>2, StepOrder DEF BeginAttempt, Return, attemptVars, Before, Fresh, AttemptTypes, AttemptInv,
     Living, Tasks, Guarded, Flowed, Reported, Kept, Closed, provVars
<1> QED BY <1>2, <1>3, <1>4, <1>5, <1>6, InsideAttempt

\* The run has the lock, or the attempt ends with nothing launched.
LEMMA LockKeeps ==
  ASSUME TypeOK, CommandInv, Lock
  PROVE  TypeOK' /\ CommandInv'
<1>1. AttemptTypes /\ Before /\ AttemptInv
  BY TypeParts DEF CommandInv
<1>2. UNCHANGED <<provVars, shape, loopVars, exit, document>>
  BY DEF Lock
<1>3. /\ stage \notin {"read", "resolve", "backoff", "over"}
      /\ stage' \notin {"read", "resolve", "backoff", "over"}
  BY <1>1, StepOrder DEF Lock, Return, Before, Fresh, Tasks, AttemptInv, Closed
<1>4. stage' \in {"begin", "lock"} => Fresh'
  BY <1>1, StepOrder DEF Lock, Return, Before, Fresh, attemptVars, Tasks, AttemptInv
<1>5. AttemptTypes'
  BY <1>1, StepOrder DEF Lock, Return, attemptVars, AttemptTypes, StageNames, Errors, Statuses
<1>6. Living'
  BY <1>1, <1>2, StepOrder DEF Lock, Return, attemptVars, Before, Fresh, AttemptTypes, AttemptInv, Living,
     Tasks, Guarded, Flowed, Reported, Kept, Closed, provVars
<1>7. Tasks'
  BY <1>1, <1>2, StepOrder DEF Lock, Return, attemptVars, Before, Fresh, AttemptTypes, AttemptInv, Living,
     Tasks, Guarded, Flowed, Reported, Kept, Closed, provVars
<1>8. Guarded'
  BY <1>1, <1>2, StepOrder DEF Lock, Return, attemptVars, Before, Fresh, AttemptTypes, AttemptInv, Living,
     Tasks, Guarded, Flowed, Reported, Kept, Closed, provVars
<1>9. Flowed'
  BY <1>1, <1>2, StepOrder DEF Lock, Return, attemptVars, Before, Fresh, AttemptTypes, AttemptInv, Living,
     Tasks, Guarded, Flowed, Reported, Kept, Closed, provVars
<1>10. Reported'
  BY <1>1, <1>2, StepOrder DEF Lock, Return, attemptVars, Before, Fresh, AttemptTypes, AttemptInv, Living,
     Tasks, Guarded, Flowed, Reported, Kept, Closed, provVars
<1>11. Kept'
  BY <1>1, <1>2, StepOrder DEF Lock, Return, attemptVars, Before, Fresh, AttemptTypes, AttemptInv, Living,
     Tasks, Guarded, Flowed, Reported, Kept, Closed, provVars
<1>12. AttemptInv'
  BY <1>6, <1>7, <1>8, <1>9, <1>10, <1>11 DEF AttemptInv
<1> QED BY <1>2, <1>3, <1>4, <1>5, <1>12, InsideAttempt

\* The directory is made under the lock, or the lock is dropped.
LEMMA PrepareKeeps ==
  ASSUME TypeOK, CommandInv, Prepare
  PROVE  TypeOK' /\ CommandInv'
<1>1. AttemptTypes /\ Before /\ AttemptInv
  BY TypeParts DEF CommandInv
<1>2. UNCHANGED <<provVars, shape, loopVars, exit, document>>
  BY DEF Prepare
<1>3. /\ stage \notin {"read", "resolve", "backoff", "over"}
      /\ stage' \notin {"read", "resolve", "backoff", "over"}
  BY <1>1, StepOrder DEF Prepare, Return, Before, Fresh, Tasks, AttemptInv, Closed
<1>4. stage' \in {"begin", "lock"} => Fresh'
  BY <1>1, StepOrder DEF Prepare, Return, Before, Fresh, attemptVars, Tasks, AttemptInv
<1>5. AttemptTypes'
  BY <1>1, StepOrder DEF Prepare, Return, attemptVars, AttemptTypes, StageNames, Errors, Statuses
<1>6. Living'
  BY <1>1, <1>2, StepOrder DEF Prepare, Return, attemptVars, Before, Fresh, AttemptTypes, AttemptInv, Living,
     Tasks, Guarded, Flowed, Reported, Kept, Closed, provVars
<1>7. Tasks'
  BY <1>1, <1>2, StepOrder DEF Prepare, Return, attemptVars, Before, Fresh, AttemptTypes, AttemptInv, Living,
     Tasks, Guarded, Flowed, Reported, Kept, Closed, provVars
<1>8. Guarded'
  BY <1>1, <1>2, StepOrder DEF Prepare, Return, attemptVars, Before, Fresh, AttemptTypes, AttemptInv, Living,
     Tasks, Guarded, Flowed, Reported, Kept, Closed, provVars
<1>9. Flowed'
  BY <1>1, <1>2, StepOrder DEF Prepare, Return, attemptVars, Before, Fresh, AttemptTypes, AttemptInv, Living,
     Tasks, Guarded, Flowed, Reported, Kept, Closed, provVars
<1>10. Reported'
  BY <1>1, <1>2, StepOrder DEF Prepare, Return, attemptVars, Before, Fresh, AttemptTypes, AttemptInv, Living,
     Tasks, Guarded, Flowed, Reported, Kept, Closed, provVars
<1>11. Kept'
  BY <1>1, <1>2, StepOrder DEF Prepare, Return, attemptVars, Before, Fresh, AttemptTypes, AttemptInv, Living,
     Tasks, Guarded, Flowed, Reported, Kept, Closed, provVars
<1>12. AttemptInv'
  BY <1>6, <1>7, <1>8, <1>9, <1>10, <1>11 DEF AttemptInv
<1> QED BY <1>2, <1>3, <1>4, <1>5, <1>12, InsideAttempt

\* The plugins are spawned under the lock, or none of them lives.
LEMMA SpawnPluginsKeeps ==
  ASSUME TypeOK, CommandInv, SpawnPlugins
  PROVE  TypeOK' /\ CommandInv'
<1>1. AttemptTypes /\ Before /\ AttemptInv
  BY TypeParts DEF CommandInv
<1>2. UNCHANGED <<provVars, shape, loopVars, exit, document>>
  BY DEF SpawnPlugins
<1>3. /\ stage \notin {"read", "resolve", "backoff", "over"}
      /\ stage' \notin {"read", "resolve", "backoff", "over"}
  BY <1>1, StepOrder DEF SpawnPlugins, Return, Spawned, Data, Before, Fresh, Tasks, AttemptInv, Closed
<1>4. stage' \in {"begin", "lock"} => Fresh'
  BY <1>1, StepOrder DEF SpawnPlugins, Return, Spawned, Data, Before, Fresh, attemptVars, Tasks, AttemptInv
<1>5. AttemptTypes'
  BY <1>1, StepOrder DEF SpawnPlugins, Return, Spawned, Data, attemptVars, AttemptTypes, StageNames, Errors,
     Statuses
<1>6. AttemptInv'
  BY <1>1, <1>2, StepOrder DEF SpawnPlugins, Return, Spawned, Data, attemptVars, Before, Fresh, AttemptTypes,
     AttemptInv, Living, Tasks, Guarded, Flowed, Reported, Kept, Closed, provVars
<1> QED BY <1>2, <1>3, <1>4, <1>5, <1>6, InsideAttempt

\* A plugin that cannot be configured ends the setup.
LEMMA ConfigurePluginsKeeps ==
  ASSUME TypeOK, CommandInv, ConfigurePlugins
  PROVE  TypeOK' /\ CommandInv'
<1>1. AttemptTypes /\ Before /\ AttemptInv
  BY TypeParts DEF CommandInv
<1>2. UNCHANGED <<provVars, shape, loopVars, exit, document>>
  BY DEF ConfigurePlugins
<1>3. /\ stage \notin {"read", "resolve", "backoff", "over"}
      /\ stage' \notin {"read", "resolve", "backoff", "over"}
  BY <1>1, StepOrder DEF ConfigurePlugins, FailedStep, Abort, Refusals, Before, Fresh, Tasks, AttemptInv, Closed
<1>4. stage' \in {"begin", "lock"} => Fresh'
  BY <1>1, StepOrder DEF ConfigurePlugins, FailedStep, Abort, Refusals, Before, Fresh, attemptVars, Tasks,
     AttemptInv
<1>5. AttemptTypes'
  BY <1>1, StepOrder DEF ConfigurePlugins, FailedStep, Abort, Refusals, attemptVars, AttemptTypes, StageNames,
     Errors, Statuses
<1>6. AttemptInv'
  BY <1>1, <1>2, StepOrder DEF ConfigurePlugins, FailedStep, Abort, Refusals, attemptVars, Before, Fresh,
     AttemptTypes, AttemptInv, Living, Tasks, Guarded, Flowed, Reported, Kept, Closed, provVars
<1> QED BY <1>2, <1>3, <1>4, <1>5, <1>6, InsideAttempt

\* A plugin that is not able to what the pipeline needs ends the setup.
LEMMA GatesKeeps ==
  ASSUME TypeOK, CommandInv, Gates
  PROVE  TypeOK' /\ CommandInv'
<1>1. AttemptTypes /\ Before /\ AttemptInv
  BY TypeParts DEF CommandInv
<1>2. UNCHANGED <<provVars, shape, loopVars, exit, document>>
  BY DEF Gates
<1>3. /\ stage \notin {"read", "resolve", "backoff", "over"}
      /\ stage' \notin {"read", "resolve", "backoff", "over"}
  BY <1>1, StepOrder DEF Gates, ParserGate, Abort, Before, Fresh, Tasks, AttemptInv, Closed
<1>4. stage' \in {"begin", "lock"} => Fresh'
  BY <1>1, StepOrder DEF Gates, ParserGate, Abort, Before, Fresh, attemptVars, Tasks, AttemptInv
<1>5. AttemptTypes'
  BY <1>1, StepOrder DEF Gates, ParserGate, Abort, attemptVars, AttemptTypes, StageNames, Errors, Statuses
<1>6. AttemptInv'
  BY <1>1, <1>2, StepOrder DEF Gates, ParserGate, Abort, attemptVars, Before, Fresh, AttemptTypes, AttemptInv,
     Living, Tasks, Guarded, Flowed, Reported, Kept, Closed, provVars
<1> QED BY <1>2, <1>3, <1>4, <1>5, <1>6, InsideAttempt

\* The sink task is launched when there is a sink.
LEMMA LaunchSinkKeeps ==
  ASSUME TypeOK, CommandInv, LaunchSink
  PROVE  TypeOK' /\ CommandInv'
<1>1. AttemptTypes /\ Before /\ AttemptInv
  BY TypeParts DEF CommandInv
<1>2. UNCHANGED <<provVars, shape, loopVars, exit, document>>
  BY DEF LaunchSink
<1>3. /\ stage \notin {"read", "resolve", "backoff", "over"}
      /\ stage' \notin {"read", "resolve", "backoff", "over"}
  BY <1>1, StepOrder DEF LaunchSink, Before, Fresh, Tasks, AttemptInv, Closed
<1>4. stage' \in {"begin", "lock"} => Fresh'
  BY <1>1, StepOrder DEF LaunchSink, Before, Fresh, attemptVars, Tasks, AttemptInv
<1>5. AttemptTypes'
  BY <1>1, StepOrder DEF LaunchSink, attemptVars, AttemptTypes, StageNames, Errors, Statuses
<1>6. AttemptInv'
  BY <1>1, <1>2, StepOrder DEF LaunchSink, attemptVars, Before, Fresh, AttemptTypes, AttemptInv, Living,
     Tasks, Guarded, Flowed, Reported, Kept, Closed, provVars
<1> QED BY <1>2, <1>3, <1>4, <1>5, <1>6, InsideAttempt

\* A producer that does not start ends the setup.
LEMMA StartProducerKeeps ==
  ASSUME TypeOK, CommandInv, StartProducer
  PROVE  TypeOK' /\ CommandInv'
<1>1. AttemptTypes /\ Before /\ AttemptInv
  BY TypeParts DEF CommandInv
<1>2. UNCHANGED <<provVars, shape, loopVars, exit, document>>
  BY DEF StartProducer
<1>3. /\ stage \notin {"read", "resolve", "backoff", "over"}
      /\ stage' \notin {"read", "resolve", "backoff", "over"}
  BY <1>1, StepOrder DEF StartProducer, FailedStep, Abort, Before, Fresh, Tasks, AttemptInv, Closed
<1>4. stage' \in {"begin", "lock"} => Fresh'
  BY <1>1, StepOrder DEF StartProducer, FailedStep, Abort, Before, Fresh, attemptVars, Tasks, AttemptInv
<1>5. AttemptTypes'
  BY <1>1, StepOrder DEF StartProducer, FailedStep, Abort, attemptVars, AttemptTypes, StageNames, Errors,
     Statuses
<1>6. AttemptInv'
  BY <1>1, <1>2, StepOrder DEF StartProducer, FailedStep, Abort, attemptVars, Before, Fresh, AttemptTypes,
     AttemptInv, Living, Tasks, Guarded, Flowed, Reported, Kept, Closed, provVars
<1> QED BY <1>2, <1>3, <1>4, <1>5, <1>6, InsideAttempt

\* A schema that drifted ends the setup, with the lock still the run's.
LEMMA CheckDriftKeeps ==
  ASSUME TypeOK, CommandInv, CheckDrift
  PROVE  TypeOK' /\ CommandInv'
<1>1. AttemptTypes /\ Before /\ AttemptInv
  BY TypeParts DEF CommandInv
<1>2. UNCHANGED <<provVars, shape, loopVars, exit, document>>
  BY DEF CheckDrift
<1>3. /\ stage \notin {"read", "resolve", "backoff", "over"}
      /\ stage' \notin {"read", "resolve", "backoff", "over"}
  BY <1>1, StepOrder DEF CheckDrift, Abort, Before, Fresh, Tasks, AttemptInv, Closed
<1>4. stage' \in {"begin", "lock"} => Fresh'
  BY <1>1, StepOrder DEF CheckDrift, Abort, Before, Fresh, attemptVars, Tasks, AttemptInv
<1>5. AttemptTypes'
  BY <1>1, StepOrder DEF CheckDrift, Abort, attemptVars, AttemptTypes, StageNames, Errors, Statuses
<1>6. AttemptInv'
  BY <1>1, <1>2, StepOrder DEF CheckDrift, Abort, attemptVars, Before, Fresh, AttemptTypes, AttemptInv,
     Living, Tasks, Guarded, Flowed, Reported, Kept, Closed, provVars
<1> QED BY <1>2, <1>3, <1>4, <1>5, <1>6, InsideAttempt

\* The lock goes to the state task.
LEMMA LaunchStateKeeps ==
  ASSUME TypeOK, CommandInv, LaunchState
  PROVE  TypeOK' /\ CommandInv'
<1>1. AttemptTypes /\ Before /\ AttemptInv
  BY TypeParts DEF CommandInv
<1>2. UNCHANGED <<provVars, shape, loopVars, exit, document>>
  BY DEF LaunchState
<1>3. /\ stage \notin {"read", "resolve", "backoff", "over"}
      /\ stage' \notin {"read", "resolve", "backoff", "over"}
  BY <1>1, StepOrder DEF LaunchState, Before, Fresh, Tasks, AttemptInv, Closed
<1>4. stage' \in {"begin", "lock"} => Fresh'
  BY <1>1, StepOrder DEF LaunchState, Before, Fresh, attemptVars, Tasks, AttemptInv
<1>5. AttemptTypes'
  BY <1>1, StepOrder DEF LaunchState, attemptVars, AttemptTypes, StageNames, Errors, Statuses
<1>6. AttemptInv'
  BY <1>1, <1>2, StepOrder DEF LaunchState, attemptVars, Before, Fresh, AttemptTypes, AttemptInv, Living,
     Tasks, Guarded, Flowed, Reported, Kept, Closed, provVars
<1> QED BY <1>2, <1>3, <1>4, <1>5, <1>6, InsideAttempt

\* Data flows once both tasks are launched.
LEMMA StartDestinationKeeps ==
  ASSUME TypeOK, CommandInv, StartDestination
  PROVE  TypeOK' /\ CommandInv'
<1>1. AttemptTypes /\ Before /\ AttemptInv
  BY TypeParts DEF CommandInv
<1>2. UNCHANGED <<provVars, shape, loopVars, exit, document>>
  BY DEF StartDestination
<1>3. /\ stage \notin {"read", "resolve", "backoff", "over"}
      /\ stage' \notin {"read", "resolve", "backoff", "over"}
  BY <1>1, StepOrder DEF StartDestination, FailedStep, Abort, Before, Fresh, Tasks, AttemptInv, Closed
<1>4. stage' \in {"begin", "lock"} => Fresh'
  BY <1>1, StepOrder DEF StartDestination, FailedStep, Abort, Before, Fresh, attemptVars, Tasks, AttemptInv
<1>5. AttemptTypes'
  BY <1>1, StepOrder DEF StartDestination, FailedStep, Abort, attemptVars, AttemptTypes, StageNames, Errors,
     Statuses
<1>6. Living'
  BY <1>1, <1>2, StepOrder DEF StartDestination, FailedStep, Abort, attemptVars, Before, Fresh, AttemptTypes,
     AttemptInv, Living, Tasks, Guarded, Flowed, Reported, Kept, Closed, provVars
<1>7. Tasks'
  BY <1>1, <1>2, StepOrder DEF StartDestination, FailedStep, Abort, attemptVars, Before, Fresh, AttemptTypes,
     AttemptInv, Living, Tasks, Guarded, Flowed, Reported, Kept, Closed, provVars
<1>8. Guarded'
  BY <1>1, <1>2, StepOrder DEF StartDestination, FailedStep, Abort, attemptVars, Before, Fresh, AttemptTypes,
     AttemptInv, Living, Tasks, Guarded, Flowed, Reported, Kept, Closed, provVars
<1>9. Flowed'
  BY <1>1, <1>2, StepOrder DEF StartDestination, FailedStep, Abort, attemptVars, Before, Fresh, AttemptTypes,
     AttemptInv, Living, Tasks, Guarded, Flowed, Reported, Kept, Closed, provVars
<1>10. Reported'
  BY <1>1, <1>2, StepOrder DEF StartDestination, FailedStep, Abort, attemptVars, Before, Fresh, AttemptTypes,
     AttemptInv, Living, Tasks, Guarded, Flowed, Reported, Kept, Closed, provVars
<1>11. Kept'
  BY <1>1, <1>2, StepOrder DEF StartDestination, FailedStep, Abort, attemptVars, Before, Fresh, AttemptTypes,
     AttemptInv, Living, Tasks, Guarded, Flowed, Reported, Kept, Closed, provVars
<1>12. AttemptInv'
  BY <1>6, <1>7, <1>8, <1>9, <1>10, <1>11 DEF AttemptInv
<1> QED BY <1>2, <1>3, <1>4, <1>5, <1>12, InsideAttempt

\* The state task ends when no plugin is left that could write: a parser has no
\* state beside it.
LEMMA StateEndsKeeps ==
  ASSUME TypeOK, CommandInv, StateEnds
  PROVE  TypeOK' /\ CommandInv'
<1>1. AttemptTypes /\ Before /\ AttemptInv
  BY TypeParts DEF CommandInv
<1>2. UNCHANGED <<provVars, shape, loopVars, exit, document>>
  BY DEF StateEnds
<1>3. /\ stage \notin {"read", "resolve", "backoff", "over"}
      /\ stage' \notin {"read", "resolve", "backoff", "over"}
  BY <1>1, StepOrder DEF StateEnds, Before, Fresh, Tasks, AttemptInv, Closed
<1>4. stage' \in {"begin", "lock"} => Fresh'
  BY <1>1, StepOrder DEF StateEnds, Before, Fresh, attemptVars, Tasks, AttemptInv
<1>5. AttemptTypes'
  BY <1>1, StepOrder DEF StateEnds, attemptVars, AttemptTypes, StageNames, Errors, Statuses, Valid
<1>6. AttemptInv'
  BY <1>1, <1>2, StepOrder DEF StateEnds, attemptVars, Before, Fresh, AttemptTypes, AttemptInv, Living, Tasks,
     Guarded, Flowed, Reported, Kept, Closed, Valid, provVars
<1> QED BY <1>2, <1>3, <1>4, <1>5, <1>6, InsideAttempt

\* A persist that failed is the one way the lock goes early.
LEMMA PersistFailsKeeps ==
  ASSUME TypeOK, CommandInv, PersistFails
  PROVE  TypeOK' /\ CommandInv'
<1>1. AttemptTypes /\ Before /\ AttemptInv
  BY TypeParts DEF CommandInv
<1>2. UNCHANGED <<provVars, shape, loopVars, exit, document>>
  BY DEF PersistFails
<1>3. /\ stage \notin {"read", "resolve", "backoff", "over"}
      /\ stage' \notin {"read", "resolve", "backoff", "over"}
  BY <1>1, StepOrder DEF PersistFails, Before, Fresh, Tasks, AttemptInv, Closed
<1>4. stage' \in {"begin", "lock"} => Fresh'
  BY <1>1, StepOrder DEF PersistFails, Before, Fresh, attemptVars, Tasks, AttemptInv
<1>5. AttemptTypes'
  BY <1>1, StepOrder DEF PersistFails, attemptVars, AttemptTypes, StageNames, Errors, Statuses
<1>6. AttemptInv'
  BY <1>1, <1>2, StepOrder DEF PersistFails, attemptVars, Before, Fresh, AttemptTypes, AttemptInv, Living,
     Tasks, Guarded, Flowed, Reported, Kept, Closed, provVars
<1> QED BY <1>2, <1>3, <1>4, <1>5, <1>6, InsideAttempt

\* The sink lives while its task runs.
LEMMA SinkSpawnsKeeps ==
  ASSUME TypeOK, CommandInv, SinkSpawns
  PROVE  TypeOK' /\ CommandInv'
<1>1. AttemptTypes /\ Before /\ AttemptInv
  BY TypeParts DEF CommandInv
<1>2. UNCHANGED <<provVars, shape, loopVars, exit, document>>
  BY DEF SinkSpawns
<1>3. /\ stage \notin {"read", "resolve", "backoff", "over"}
      /\ stage' \notin {"read", "resolve", "backoff", "over"}
  BY <1>1, StepOrder DEF SinkSpawns, Spawned, Before, Fresh, Tasks, AttemptInv, Closed
<1>4. stage' \in {"begin", "lock"} => Fresh'
  BY <1>1, StepOrder DEF SinkSpawns, Spawned, Before, Fresh, attemptVars, Tasks, AttemptInv
<1>5. AttemptTypes'
  BY <1>1, StepOrder DEF SinkSpawns, Spawned, attemptVars, AttemptTypes, StageNames, Errors, Statuses
<1>6. AttemptInv'
  BY <1>1, <1>2, StepOrder DEF SinkSpawns, Spawned, attemptVars, Before, Fresh, AttemptTypes, AttemptInv,
     Living, Tasks, Guarded, Flowed, Reported, Kept, Closed, provVars
<1> QED BY <1>2, <1>3, <1>4, <1>5, <1>6, InsideAttempt

\* The sink is gone with its task.
LEMMA SinkEndsKeeps ==
  ASSUME TypeOK, CommandInv, SinkEnds
  PROVE  TypeOK' /\ CommandInv'
<1>1. AttemptTypes /\ Before /\ AttemptInv
  BY TypeParts DEF CommandInv
<1>2. UNCHANGED <<provVars, shape, loopVars, exit, document>>
  BY DEF SinkEnds
<1>3. /\ stage \notin {"read", "resolve", "backoff", "over"}
      /\ stage' \notin {"read", "resolve", "backoff", "over"}
  BY <1>1, StepOrder DEF SinkEnds, Before, Fresh, Tasks, AttemptInv, Closed
<1>4. stage' \in {"begin", "lock"} => Fresh'
  BY <1>1, StepOrder DEF SinkEnds, Before, Fresh, attemptVars, Tasks, AttemptInv
<1>5. AttemptTypes'
  BY <1>1, StepOrder DEF SinkEnds, attemptVars, AttemptTypes, StageNames, Errors, Statuses
<1>6. AttemptInv'
  BY <1>1, <1>2, StepOrder DEF SinkEnds, attemptVars, Before, Fresh, AttemptTypes, AttemptInv, Living, Tasks,
     Guarded, Flowed, Reported, Kept, Closed, provVars
<1> QED BY <1>2, <1>3, <1>4, <1>5, <1>6, InsideAttempt

\* What ended the data phase is known when the tasks are told.
LEMMA DataEndsKeeps ==
  ASSUME TypeOK, CommandInv, DataEnds
  PROVE  TypeOK' /\ CommandInv'
<1>1. AttemptTypes /\ Before /\ AttemptInv
  BY TypeParts DEF CommandInv
<1>2. UNCHANGED <<provVars, shape, loopVars, exit, document>>
  BY DEF DataEnds
<1>3. /\ stage \notin {"read", "resolve", "backoff", "over"}
      /\ stage' \notin {"read", "resolve", "backoff", "over"}
  BY <1>1, StepOrder DEF DataEnds, Before, Fresh, Tasks, AttemptInv, Closed
<1>4. stage' \in {"begin", "lock"} => Fresh'
  BY <1>1, StepOrder DEF DataEnds, Before, Fresh, attemptVars, Tasks, AttemptInv
<1>5. AttemptTypes'
  <2>1. trigger' = trigger \/ trigger' = TRUE
    BY DEF DataEnds
  <2>2. trigger' \in BOOLEAN
    BY <1>1, <2>1, Zenon DEF AttemptTypes
  <2>3. downloads' \in {"none", "empty", "files", "removed"}
    BY <1>1 DEF DataEnds, AttemptTypes
  <2>4. failure' \in Errors \cup {"none"} /\ outcome' \in {"held", "ok", "failed"}
    BY <1>1 DEF DataEnds, Errors
  <2>5. stage' \in StageNames /\ UNCHANGED <<lock, live, sinkTask, stateTask, late, staging, flowing, status>>
    BY DEF DataEnds, StageNames
  <2> QED BY <1>1, <2>2, <2>3, <2>4, <2>5 DEF AttemptTypes
<1>6. AttemptInv'
  BY <1>1, <1>2, StepOrder DEF DataEnds, attemptVars, Before, Fresh, AttemptTypes, AttemptInv, Living, Tasks,
     Guarded, Flowed, Reported, Kept, Closed, provVars
<1> QED BY <1>2, <1>3, <1>4, <1>5, <1>6, InsideAttempt

\* Behind the teardown only the sink may live.
LEMMA PluginsGoneKeeps ==
  ASSUME TypeOK, CommandInv, PluginsGone
  PROVE  TypeOK' /\ CommandInv'
<1>1. AttemptTypes /\ Before /\ AttemptInv
  BY TypeParts DEF CommandInv
<1>2. UNCHANGED <<provVars, shape, loopVars, exit, document>>
  BY DEF PluginsGone
<1>3. /\ stage \notin {"read", "resolve", "backoff", "over"}
      /\ stage' \notin {"read", "resolve", "backoff", "over"}
  BY <1>1, StepOrder DEF PluginsGone, Before, Fresh, Tasks, AttemptInv, Closed
<1>4. stage' \in {"begin", "lock"} => Fresh'
  BY <1>1, StepOrder DEF PluginsGone, Before, Fresh, attemptVars, Tasks, AttemptInv
<1>5. AttemptTypes'
  BY <1>1, StepOrder DEF PluginsGone, attemptVars, AttemptTypes, StageNames, Errors, Statuses
<1>6. AttemptInv'
  BY <1>1, <1>2, StepOrder DEF PluginsGone, attemptVars, Before, Fresh, AttemptTypes, AttemptInv, Living,
     Tasks, Guarded, Flowed, Reported, Kept, Closed, provVars
<1> QED BY <1>2, <1>3, <1>4, <1>5, <1>6, InsideAttempt

\* A failed setup is over when its tasks are.
LEMMA SetupFailedKeeps ==
  ASSUME TypeOK, CommandInv, SetupFailed
  PROVE  TypeOK' /\ CommandInv'
<1>1. AttemptTypes /\ Before /\ AttemptInv
  BY TypeParts DEF CommandInv
<1>2. UNCHANGED <<provVars, shape, loopVars, exit, document>>
  BY DEF SetupFailed
<1>3. /\ stage \notin {"read", "resolve", "backoff", "over"}
      /\ stage' \notin {"read", "resolve", "backoff", "over"}
  BY <1>1, StepOrder DEF SetupFailed, Before, Fresh, Tasks, AttemptInv, Closed
<1>4. stage' \in {"begin", "lock"} => Fresh'
  BY <1>1, StepOrder DEF SetupFailed, Before, Fresh, attemptVars, Tasks, AttemptInv
<1>5. AttemptTypes'
  BY <1>1, StepOrder DEF SetupFailed, attemptVars, AttemptTypes, StageNames, Errors, Statuses
<1>6. AttemptInv'
  BY <1>1, <1>2, StepOrder DEF SetupFailed, attemptVars, Before, Fresh, AttemptTypes, AttemptInv, Living,
     Tasks, Guarded, Flowed, Reported, Kept, Closed, provVars
<1> QED BY <1>2, <1>3, <1>4, <1>5, <1>6, InsideAttempt

\* An attempt that succeeded has nothing that failed.
LEMMA TeardownKeeps ==
  ASSUME TypeOK, CommandInv, Teardown
  PROVE  TypeOK' /\ CommandInv'
<1>1. AttemptTypes /\ Before /\ AttemptInv
  BY TypeParts DEF CommandInv
<1>2. UNCHANGED <<provVars, shape, loopVars, exit, document>>
  BY DEF Teardown
<1>3. /\ stage \notin {"read", "resolve", "backoff", "over"}
      /\ stage' \notin {"read", "resolve", "backoff", "over"}
  BY <1>1, StepOrder DEF Teardown, LateFailure, Release, Before, Fresh, Tasks, AttemptInv, Closed
<1>4. stage' \in {"begin", "lock"} => Fresh'
  BY <1>1, StepOrder DEF Teardown, LateFailure, Release, Before, Fresh, attemptVars, Tasks, AttemptInv
<1>5. AttemptTypes'
  BY <1>1, StepOrder DEF Teardown, LateFailure, Release, attemptVars, AttemptTypes, StageNames, Errors, Statuses
<1>6. AttemptInv'
  BY <1>1, <1>2, StepOrder DEF Teardown, LateFailure, Release, attemptVars, Before, Fresh, AttemptTypes,
     AttemptInv, Living, Tasks, Guarded, Flowed, Reported, Kept, Closed, provVars
<1> QED BY <1>2, <1>3, <1>4, <1>5, <1>6, InsideAttempt

----------------------------------------------------------------------------
(* The command: its beginning, its attempts and its end *)

\* A step that leaves the attempt alone, while none is under way.
LEMMA BesideAttempt ==
  ASSUME TypeOK, CommandInv, UNCHANGED <<shape, loopVars, attemptVars>>, ProvTypeOK', ProvInv',
         stage' \in StageNames, EndTypes', Before', AttemptInv', Told', Counted'
  PROVE  TypeOK' /\ CommandInv'
<1>1. ProvTypeOK /\ shape \subseteq Parts /\ LoopTypes /\ AttemptTypes /\ EndTypes
  BY TypeParts
<1>2. LoopTypes' /\ (shape \subseteq Parts)'
  BY <1>1 DEF LoopTypes, loopVars
<1>3. AttemptTypes'
  BY <1>1 DEF AttemptTypes, attemptVars
<1>4. TypeOK'
  BY <1>2, <1>3, TypePartsNext
<1> QED BY <1>4 DEF CommandInv

\* The end of the command, with this code: its attempt stays what it was.
LEMMA EndKeeps ==
  ASSUME TypeOK, CommandInv, NEW code \in Exits, End(code),
         UNCHANGED <<provVars, shape, loopVars, attemptVars>>, Untouched \/ result # "none",
         live = {}, lock = "free", sinkTask # "running", stateTask # "running",
         status \in {"success", "error", "err", "cancelled", "none"},
         status = "success" <=> (code = "success" /\ status # "none"), status = "cancelled" => code = "signal",
         status = "error" => code # "signal",
         code = "success" => Complete, code = "signal" => signal
  PROVE  TypeOK' /\ CommandInv'
<1>1. ProvTypeOK /\ ProvInv /\ LoopTypes /\ AttemptTypes /\ EndTypes /\ Before
      /\ AttemptInv /\ Counted
  BY TypeParts DEF CommandInv
<1>2. /\ stage' = "over" /\ document' = DocumentOf(code)
      /\ exit' = code \/ (code = "success" /\ exit' = "run_failed")
  BY DEF End
<1>3. DocumentOf(code) = "success" <=> code = "success"
  BY DEF DocumentOf, Exits
<1>4. DocumentOf(code) = "cancelled" <=> code = "signal"
  BY DEF DocumentOf, Exits
<1>5. DocumentOf(code) \in {"success", "cancelled", "error"}
  BY DEF DocumentOf
<1>6. EndTypes' /\ stage' \in StageNames
  BY <1>2, <1>5 DEF EndTypes, Exits, StageNames
<1>7. UNCHANGED sessionVars /\ signal' = signal /\ signal' \in BOOLEAN
  <2>1. UNCHANGED sessionVars /\ signal' = signal
    BY DEF provVars
  <2> QED BY <1>1, <2>1, Zenon DEF ProvTypeOK
<1>8. ProvTypeOK' /\ ProvInv'
  BY <1>1, <1>7, ResolutionStays
<1>9. AttemptInv'
  BY <1>1, <1>2, <1>7 DEF AttemptInv, Living, Tasks, Guarded, Flowed, Reported, Kept, Closed, attemptVars
<1>10. Before'
  BY <1>1, <1>2, <1>7 DEF Before, Untouched, sessionVars, attemptVars, Fresh
<1>11. Told'
  <2>1. exit' = "success" => code = "success"
    BY <1>2
  <2>2. exit' = "signal" => code = "signal"
    BY <1>2
  <2>3. code = "success" => \A i \in Instances : got'[i] = References /\ failed'[i] = "none"
    BY <1>7 DEF Complete, sessionVars
  <2>4. code = "success" /\ status' # "none" => status' = "success"
    BY DEF attemptVars
  <2>5. status' = "success" => /\ flowing' /\ failure' = "none"
                               /\ "state" \in shape' => stateTask' = "ok"
                               /\ "sink" \in shape' => sinkTask' = "ok"
    BY <1>9 DEF AttemptInv, Reported
  <2>6. document' = "success" => exit' \in {"success", "run_failed"}
    BY <1>2, <1>3
  <2>7. (document' = "cancelled") = (exit' = "signal")
    BY <1>2, <1>4
  <2> QED BY <1>2, <1>3, <1>7, <2>1, <2>2, <2>3, <2>4, <2>5, <2>6, <2>7 DEF Told, ExitTellsTheTruth
<1>12. Counted'
  BY <1>1, <1>2, CountedStays DEF loopVars
<1> QED BY <1>6, <1>8, <1>9, <1>10, <1>11, <1>12, BesideAttempt

----------------------------------------------------------------------------
(* The wait and the attempts it is counted from *)

\* The powers the backoff is computed from.
LEMMA PowersOfTwo == \A n \in 0..20 : 2 ^ n \in Nat
<1>1. /\ 2 ^ 0 \in Nat /\ 2 ^ 1 \in Nat /\ 2 ^ 2 \in Nat /\ 2 ^ 3 \in Nat /\ 2 ^ 4 \in Nat
      /\ 2 ^ 5 \in Nat /\ 2 ^ 6 \in Nat /\ 2 ^ 7 \in Nat /\ 2 ^ 8 \in Nat /\ 2 ^ 9 \in Nat
      /\ 2 ^ 10 \in Nat /\ 2 ^ 11 \in Nat /\ 2 ^ 12 \in Nat /\ 2 ^ 13 \in Nat /\ 2 ^ 14 \in Nat
      /\ 2 ^ 15 \in Nat /\ 2 ^ 16 \in Nat /\ 2 ^ 17 \in Nat /\ 2 ^ 18 \in Nat /\ 2 ^ 19 \in Nat
      /\ 2 ^ 20 \in Nat
  OBVIOUS
<1>2. ASSUME NEW n \in 0..20 PROVE 2 ^ n \in Nat
  <2>1. \/ n = 0 \/ n = 1 \/ n = 2 \/ n = 3 \/ n = 4 \/ n = 5 \/ n = 6 \/ n = 7 \/ n = 8 \/ n = 9 \/ n = 10
        \/ n = 11 \/ n = 12 \/ n = 13 \/ n = 14 \/ n = 15 \/ n = 16 \/ n = 17 \/ n = 18 \/ n = 19 \/ n = 20
    OBVIOUS
  <2> QED BY <1>1, <2>1, Zenon
<1> QED BY <1>2

Hour == 3600

\* At most an hour.
LEMMA BackoffBounds == \A f \in Nat : Backoff(f) \in 0..Hour
<1> TAKE f \in Nat
<1> DEFINE n == Lesser(IF f = 0 THEN 0 ELSE f - 1, 20)
           p == 2 ^ n
           w == BackoffBase * p
<1>1. n \in 0..20
  BY DEF Lesser
<1>2. p \in Nat
  BY <1>1, PowersOfTwo
<1>3. Backoff(f) = Lesser(w, Hour)
  BY DEF Backoff, Hour
<1> HIDE DEF p
<1>4. w \in Nat
  BY <1>2, CommandAssumption
<1> HIDE DEF w
<1>5. Hour \in Nat
  BY DEF Hour
<1> QED BY <1>3, <1>4, <1>5 DEF Lesser

\* What is counted never exceeds the attempts made.
LEMMA CountedBounds ==
  ASSUME LoopTypes, Counted
  PROVE  idle <= Len(history)
<1>1. Len(history) \in Nat
  BY DEF LoopTypes
<1>2. CASE history = <<>>
  BY <1>1, <1>2 DEF Counted
<1>3. CASE Wrote = {} /\ idle = Len(history)
  BY <1>1, <1>3
<1>4. CASE \E k \in Wrote : idle = Len(history) - k + 1
  BY <1>1, <1>4 DEF Wrote
<1> QED BY <1>2, <1>3, <1>4 DEF Counted

\* One more attempt behind the last that wrote rows, or one that wrote some.
LEMMA CountsOn ==
  ASSUME LoopTypes, Counted, stage = "report", NEW progressed \in BOOLEAN,
         idle' = IdleAfter(progressed), wait' = Backoff(IdleAfter(progressed)),
         history' = Append(history, progressed), stage' = "backoff", attempt' = attempt
  PROVE  Counted'
<1> DEFINE n == Len(history)
<1>1. /\ n \in Nat /\ n = attempt - 1 /\ attempt \in Nat /\ idle \in Nat
      /\ history \in Seq(BOOLEAN)
  BY DEF Counted, LoopTypes
<1>2. /\ Len(history') = n + 1 /\ history' # <<>>
  BY <1>1
<1>3. \A k \in 1..n : history'[k] <=> history[k]
  BY <1>1
<1>4. history'[n + 1] <=> progressed
  BY <1>1
<1>5. wait' = Backoff(idle)'
  BY DEF Backoff, Lesser
<1>6. CASE progressed
  <2>1. n + 1 \in Wrote'
    BY <1>1, <1>2, <1>4, <1>6 DEF Wrote
  <2>2. \A m \in Wrote' : m <= n + 1
    BY <1>1, <1>2 DEF Wrote
  <2>3. idle' = Len(history') - (n + 1) + 1
    BY <1>1, <1>2, <1>6 DEF IdleAfter
  <2> QED BY <1>1, <1>2, <1>5, <2>1, <2>2, <2>3 DEF Counted
<1>7. CASE ~progressed
  <2>1. Wrote' = Wrote
    BY <1>1, <1>2, <1>3, <1>4, <1>7 DEF Wrote
  <2>2. idle' = idle + 1
    BY <1>7 DEF IdleAfter
  <2>3. CASE history = <<>>
    <3>1. Wrote = {} /\ idle = 0 /\ n = 0
      BY <2>3 DEF Wrote, Counted
    <3> QED BY <1>1, <1>2, <1>5, <2>1, <2>2, <3>1 DEF Counted
  <2>4. CASE Wrote = {} /\ idle = Len(history)
    BY <1>1, <1>2, <1>5, <2>1, <2>2, <2>4 DEF Counted
  <2>5. ASSUME NEW k \in Wrote, \A m \in Wrote : m <= k, idle = Len(history) - k + 1
        PROVE  Counted'
    <3>1. k \in Nat
      BY <1>1 DEF Wrote
    <3>2. idle' = Len(history') - k + 1
      BY <1>1, <1>2, <2>2, <2>5, <3>1
    <3> QED BY <1>1, <1>2, <1>5, <2>1, <2>5, <3>2 DEF Counted
  <2> QED BY <2>3, <2>4, <2>5 DEF Counted
<1> QED BY <1>6, <1>7

\* The count is the property's.
LEMMA CountIsSince ==
  ASSUME LoopTypes, Counted, history # <<>>
  PROVE  idle = Since /\ idle \in Nat \ {0}
<1>1. Len(history) \in Nat \ {0}
  BY DEF LoopTypes
<1>2. CASE Wrote = {} /\ idle = Len(history)
  BY <1>1, <1>2 DEF Since, Wrote
<1>3. ASSUME NEW k \in Wrote, \A m \in Wrote : m <= k, idle = Len(history) - k + 1
      PROVE  idle = Since /\ idle \in Nat \ {0}
  <2>1. \A c \in Wrote : c \in 1..Len(history)
    BY DEF Wrote
  <2>2. \A c \in Wrote : (\A m \in Wrote : m <= c) => c = k
    BY <1>1, <1>3, <2>1
  <2>3. (CHOOSE c \in Wrote : \A m \in Wrote : m <= c) = k
    BY <1>3, <2>2
  <2>4. Since = Len(history) - k + 1
    BY <2>3 DEF Since, Wrote
  <2> QED BY <1>1, <1>3, <2>1, <2>4
<1> QED BY <1>2, <1>3 DEF Counted

\* A pipeline that is not valid is not resolved.
LEMMA ReadSourceKeeps ==
  ASSUME TypeOK, CommandInv, ReadSource
  PROVE  TypeOK' /\ CommandInv'
<1>1. /\ ProvTypeOK /\ ProvInv /\ LoopTypes /\ AttemptTypes /\ EndTypes /\ Before /\ AttemptInv /\ Told /\ Counted
  BY TypeParts DEF CommandInv
<1>2. stage = "read" /\ UNCHANGED <<provVars, shape, loopVars, attemptVars>> /\ Untouched /\ Fresh
  BY <1>1 DEF ReadSource, Before
<1>3. CASE \E code \in {"usage", "config"} : End(code)
  <2>1. PICK code \in {"usage", "config"} : End(code)
    BY <1>3
  <2>2. code \in Exits /\ code # "success" /\ code # "signal"
    BY DEF Exits
  <2> QED BY <1>2, <2>1, <2>2, EndKeeps DEF Fresh
<1>4. CASE stage' = "resolve" /\ Valid(shape) /\ UNCHANGED <<exit, document>>
  <2>1. UNCHANGED sessionVars /\ signal' = signal /\ signal' \in BOOLEAN /\ shape' = shape
    <3>1. UNCHANGED sessionVars /\ signal' = signal /\ shape' = shape
      BY <1>2 DEF provVars
    <3> QED BY <1>1, <3>1, Zenon DEF ProvTypeOK
  <2>2. ProvTypeOK' /\ ProvInv'
    BY <1>1, <2>1, ResolutionStays
  <2>3. AttemptInv'
    BY <1>1, <1>2, <1>4, <2>1 DEF AttemptInv, Living, Tasks, Guarded, Flowed, Reported, Kept, Closed, Fresh, attemptVars
  <2>4. Before'
    BY <1>1, <1>2, <1>4, <2>1 DEF Before, Fresh, attemptVars, Valid
  <2>5. Told' /\ EndTypes' /\ stage' \in StageNames
    BY <1>1, <1>2, <1>4 DEF Told, ExitTellsTheTruth, EndTypes, StageNames
  <2>6. Counted'
    BY <1>1, <1>2, <1>4, CountedStays DEF loopVars
  <2> QED BY <1>2, <2>2, <2>3, <2>4, <2>5, <2>6, BesideAttempt
<1>5. \/ \E code \in {"usage", "config"} : End(code)
      \/ stage' = "resolve" /\ Valid(shape) /\ UNCHANGED <<exit, document>>
  BY DEF ReadSource
<1> QED BY <1>3, <1>4, <1>5

\* The resolution goes on, and no attempt is under way.
LEMMA ResolveKeeps ==
  ASSUME TypeOK, CommandInv, Resolve
  PROVE  TypeOK' /\ CommandInv'
<1>1. /\ ProvTypeOK /\ ProvInv /\ LoopTypes /\ AttemptTypes /\ EndTypes /\ Before /\ AttemptInv /\ Told /\ Counted
  BY TypeParts DEF CommandInv
<1>2. /\ stage = "resolve" /\ result = "none" /\ ProvNext
      /\ UNCHANGED <<shape, stage, loopVars, attemptVars, exit, document>> /\ Fresh
  BY <1>1 DEF Resolve, Before
<1>3. ProvTypeOK' /\ ProvInv'
  BY <1>1, <1>2, ResolutionKeeps
<1>4. AttemptInv'
  BY <1>1, <1>2 DEF AttemptInv, Living, Tasks, Guarded, Flowed, Reported, Kept, Closed, Fresh, attemptVars
<1>5. Before'
  BY <1>1, <1>2 DEF Before, Fresh, attemptVars, Valid
<1>6. Told' /\ EndTypes' /\ stage' \in StageNames
  BY <1>1, <1>2 DEF Told, ExitTellsTheTruth, EndTypes, StageNames
<1>7. Counted'
  BY <1>1, <1>2, CountedStays DEF loopVars
<1> QED BY <1>2, <1>3, <1>4, <1>5, <1>6, <1>7, BesideAttempt

\* A resolution that failed ends the command with its own code.
LEMMA AfterResolveKeeps ==
  ASSUME TypeOK, CommandInv, AfterResolve
  PROVE  TypeOK' /\ CommandInv'
<1>1. /\ ProvTypeOK /\ ProvInv /\ LoopTypes /\ AttemptTypes /\ EndTypes /\ Before /\ AttemptInv /\ Told /\ Counted
  BY TypeParts DEF CommandInv
<1>2. stage = "resolve" /\ result # "none" /\ UNCHANGED <<provVars, shape, loopVars, attemptVars>> /\ Fresh
  BY <1>1 DEF AfterResolve, Before
<1>3. (result = "resolved" => Complete) /\ (result = "interrupted" => signal)
  BY <1>1 DEF ProvInv, Answered
<1>4. CASE result = "resolved" /\ stage' = "begin" /\ UNCHANGED <<exit, document>>
  <2>1. UNCHANGED sessionVars /\ signal' = signal /\ signal' \in BOOLEAN /\ shape' = shape
    <3>1. UNCHANGED sessionVars /\ signal' = signal /\ shape' = shape
      BY <1>2 DEF provVars
    <3> QED BY <1>1, <3>1, Zenon DEF ProvTypeOK
  <2>2. ProvTypeOK' /\ ProvInv'
    BY <1>1, <2>1, ResolutionStays
  <2>3. AttemptInv'
    BY <1>1, <1>2, <1>4, <2>1 DEF AttemptInv, Living, Tasks, Guarded, Flowed, Reported, Kept, Closed, Fresh, attemptVars
  <2>4. Before'
    BY <1>1, <1>2, <1>4, <2>1 DEF Before, Fresh, attemptVars, Valid, sessionVars
  <2>5. Told' /\ EndTypes' /\ stage' \in StageNames
    BY <1>1, <1>2, <1>4 DEF Told, ExitTellsTheTruth, EndTypes, StageNames
  <2>6. Counted'
    BY <1>1, <1>2, <1>4, CountedStays DEF loopVars
  <2> QED BY <1>2, <2>2, <2>3, <2>4, <2>5, <2>6, BesideAttempt
<1>5. CASE result = "resolved" /\ \E code \in {"success", "config"} : End(code)
  <2>1. PICK code \in {"success", "config"} : End(code)
    BY <1>5
  <2>2. code \in Exits /\ code # "signal"
    BY DEF Exits
  <2> QED BY <1>2, <1>3, <1>5, <2>1, <2>2, EndKeeps DEF Fresh
<1>6. CASE result # "resolved" /\ End(Classify(result))
  <2>1. Classify(result) \in Exits /\ Classify(result) # "success" /\ (Classify(result) = "signal" => result = "interrupted")
    BY DEF Classify, Exits
  <2> QED BY <1>2, <1>3, <1>6, <2>1, EndKeeps DEF Fresh
<1> QED BY <1>4, <1>5, <1>6 DEF AfterResolve

\* The signal may come at any time.
LEMMA SignalKeeps ==
  ASSUME TypeOK, CommandInv, Signal
  PROVE  TypeOK' /\ CommandInv'
<1>1. /\ ProvTypeOK /\ ProvInv /\ LoopTypes /\ AttemptTypes /\ EndTypes /\ Before /\ AttemptInv /\ Told /\ Counted
  BY TypeParts DEF CommandInv
<1>2. /\ signal' = TRUE /\ stage # "over"
      /\ UNCHANGED <<sessionVars, shape, stage, loopVars, attemptVars, exit, document>>
  BY DEF Signal
<1>3. signal' \in BOOLEAN
  BY <1>2, Zenon
<1>4. ProvTypeOK' /\ ProvInv'
  BY <1>1, <1>2, <1>3, ResolutionStays
<1>5. AttemptInv'
  BY <1>1, <1>2 DEF AttemptInv, Living, Tasks, Guarded, Flowed, Reported, Kept, Closed, attemptVars, TryAgain, Retryable
<1>6. Before'
  BY <1>1, <1>2 DEF Before, Fresh, attemptVars, Valid, sessionVars, Untouched
<1>7. Told' /\ EndTypes' /\ stage' \in StageNames
  BY <1>1, <1>2 DEF Told, ExitTellsTheTruth, EndTypes, AttemptTypes
<1>8. Counted'
  BY <1>1, <1>2, CountedStays DEF loopVars
<1> QED BY <1>2, <1>4, <1>5, <1>6, <1>7, <1>8, BesideAttempt

\* An attempt that ended, well or not, ends the command with its own code.
LEMMA LastAttemptKeeps ==
  ASSUME TypeOK, CommandInv, stage \in {"report", "backoff"}, End(ExitOf),
         UNCHANGED <<provVars, shape, loopVars, attemptVars>>
  PROVE  TypeOK' /\ CommandInv'
<1>1. ProvTypeOK /\ AttemptTypes /\ Before /\ AttemptInv
  BY TypeParts DEF CommandInv
<1>2. result = "resolved" /\ Complete
  BY <1>1 DEF Before, CommandInv, ProvInv, Answered
<1>3. status \in {"success", "error", "err", "cancelled"}
  BY <1>1 DEF AttemptInv, Reported, AttemptTypes, Statuses
<1>4. /\ ExitOf \in Exits /\ (status = "success" <=> ExitOf = "success")
      /\ status = "cancelled" => ExitOf = "signal"
      /\ status = "error" => ExitOf = "run_failed"
      /\ ExitOf = "signal" => status = "cancelled" \/ failure = "interrupted"
  BY <1>3 DEF ExitOf, Exits, Classify
<1>5. ExitOf = "signal" => signal
  BY <1>1, <1>4 DEF AttemptInv, Reported, Flowed
<1>6. live = {} /\ lock = "free" /\ sinkTask # "running" /\ stateTask # "running"
  BY <1>1 DEF AttemptInv, Living, Guarded, Tasks, Closed
<1> QED BY <1>2, <1>3, <1>4, <1>5, <1>6, EndKeeps

\* Another attempt after a wait, or the end.
LEMMA ReportKeeps ==
  ASSUME TypeOK, CommandInv, Report
  PROVE  TypeOK' /\ CommandInv'
<1>1. /\ ProvTypeOK /\ ProvInv /\ LoopTypes /\ AttemptTypes /\ EndTypes /\ Before /\ AttemptInv /\ Told /\ Counted
      /\ shape \subseteq Parts
  BY TypeParts DEF CommandInv
<1>2. stage = "report" /\ UNCHANGED <<provVars, shape, attempt, attemptVars>>
  BY DEF Report
<1>3. CASE TryAgain /\ attempt < MaxAttempts /\ ~signal
  <2>1. PICK progressed \in (IF status = "error" THEN BOOLEAN ELSE {FALSE}) :
          /\ idle' = IdleAfter(progressed) /\ wait' = Backoff(IdleAfter(progressed))
          /\ history' = Append(history, progressed)
          /\ stage' = "backoff" /\ UNCHANGED <<exit, document>>
    BY <1>3 DEF Report
  <2>2. progressed \in BOOLEAN
    BY <2>1, Zenon
  <2>3. Counted'
    BY <1>1, <1>2, <2>1, <2>2, CountsOn
  <2>4. UNCHANGED sessionVars /\ signal' = signal /\ signal' \in BOOLEAN /\ shape' = shape
    <3>1. UNCHANGED sessionVars /\ signal' = signal /\ shape' = shape
      BY <1>2 DEF provVars
    <3> QED BY <1>1, <3>1, Zenon DEF ProvTypeOK
  <2>5. ProvTypeOK' /\ ProvInv'
    BY <1>1, <2>4, ResolutionStays
  <2>6. LoopTypes'
    <3>1. Len(history) = attempt - 1 /\ idle <= Len(history) /\ idle \in Nat /\ attempt \in Nat
      BY <1>1, <1>2, CountedBounds DEF Counted, LoopTypes
    <3>2. idle' \in 0..MaxAttempts
      BY <1>3, <2>1, <3>1, CommandAssumption DEF IdleAfter
    <3>3. IdleAfter(progressed) \in Nat
      BY <3>1 DEF IdleAfter
    <3>4. wait' \in 0..Hour
      <4>1. PICK f \in Nat : f = IdleAfter(progressed)
        BY <3>3
      <4>2. wait' = Backoff(f)
        BY <2>1, <4>1 DEF Backoff, Lesser
      <4> QED BY <4>2, BackoffBounds
    <3>7. wait' \in 0..3600
      BY <3>4 DEF Hour
    <3>5. history' \in Seq(BOOLEAN) /\ Len(history') = Len(history) + 1
      BY <1>1, <2>1, <2>2 DEF LoopTypes
    <3>6. Len(history') < MaxAttempts
      BY <1>3, <3>1, <3>5, CommandAssumption
    <3> QED BY <1>1, <1>2, <3>2, <3>5, <3>6, <3>7 DEF LoopTypes
  <2>7. AttemptTypes' /\ EndTypes'
    BY <1>1, <1>2, <2>1 DEF AttemptTypes, attemptVars, EndTypes, StageNames
  <2>8. TypeOK'
    BY <1>1, <2>4, <2>5, <2>6, <2>7, TypePartsNext
  <2>9. AttemptInv'
    BY <1>1, <1>2, <1>3, <2>1, <2>4 DEF AttemptInv, Living, Tasks, Guarded, Flowed, Reported, Kept, Closed,
       attemptVars, TryAgain, Retryable
  <2>10. Before'
    BY <1>1, <1>2, <2>1, <2>4 DEF Before, Fresh, attemptVars, Valid, sessionVars
  <2>11. Told'
    BY <1>1, <1>2, <2>1 DEF Told, ExitTellsTheTruth
  <2> QED BY <2>3, <2>5, <2>8, <2>9, <2>10, <2>11 DEF CommandInv
<1>4. CASE ~(TryAgain /\ attempt < MaxAttempts /\ ~signal)
  <2>1. End(ExitOf) /\ UNCHANGED <<idle, wait, history>>
    BY <1>4 DEF Report
  <2> QED BY <1>2, <2>1, LastAttemptKeeps DEF loopVars
<1> QED BY <1>3, <1>4

\* The next attempt begins with nothing of the last.
LEMMA WaitEndsKeeps ==
  ASSUME TypeOK, CommandInv, WaitEnds
  PROVE  TypeOK' /\ CommandInv'
<1>1. /\ ProvTypeOK /\ ProvInv /\ LoopTypes /\ AttemptTypes /\ EndTypes /\ Before /\ AttemptInv /\ Told /\ Counted
      /\ shape \subseteq Parts
  BY TypeParts DEF CommandInv
<1>2. stage = "backoff" /\ UNCHANGED <<provVars, shape, idle, wait, history>>
  BY DEF WaitEnds
<1>3. CASE /\ attempt' = attempt + 1 /\ stage' = "begin" /\ UNCHANGED <<exit, document>> /\ Fresh'
  <2>1. UNCHANGED sessionVars /\ signal' = signal /\ signal' \in BOOLEAN /\ shape' = shape
    <3>1. UNCHANGED sessionVars /\ signal' = signal /\ shape' = shape
      BY <1>2 DEF provVars
    <3> QED BY <1>1, <3>1, Zenon DEF ProvTypeOK
  <2>2. ProvTypeOK' /\ ProvInv'
    BY <1>1, <2>1, ResolutionStays
  <2>3. AttemptTypes'
    <3>1. trigger' \in BOOLEAN /\ late' \in BOOLEAN /\ flowing' \in BOOLEAN
      BY <1>3, Zenon DEF Fresh
    <3> QED BY <1>3, <3>1 DEF AttemptTypes, Fresh, StageNames, Statuses
  <2>4. Len(history) = attempt
    BY <1>1, <1>2 DEF Counted
  <2>5. LoopTypes' /\ EndTypes'
    BY <1>1, <1>2, <1>3, <2>4, CommandAssumption DEF LoopTypes, EndTypes
  <2>6. TypeOK'
    BY <1>1, <2>1, <2>2, <2>3, <2>5, TypePartsNext
  <2>7. AttemptInv'
    BY <1>3 DEF AttemptInv, Living, Tasks, Guarded, Flowed, Reported, Kept, Closed, Fresh
  <2>8. Before'
    BY <1>1, <1>2, <1>3, <2>1 DEF Before, Fresh, Valid, sessionVars
  <2>9. Told'
    BY <1>1, <1>2, <1>3 DEF Told, ExitTellsTheTruth
  <2>10. Wrote' = Wrote /\ Backoff(idle)' = Backoff(idle)
    BY <1>2 DEF Wrote, Backoff, Lesser
  <2>11. Counted'
    BY <1>1, <1>2, <1>3, <2>4, <2>10 DEF Counted, LoopTypes
  <2> QED BY <2>2, <2>6, <2>7, <2>8, <2>9, <2>11 DEF CommandInv
<1>4. CASE signal /\ End(ExitOf) /\ UNCHANGED <<attempt, attemptVars>>
  BY <1>2, <1>4, LastAttemptKeeps DEF loopVars
<1>5. \/ /\ attempt' = attempt + 1 /\ stage' = "begin" /\ UNCHANGED <<exit, document>> /\ Fresh'
      \/ signal /\ End(ExitOf) /\ UNCHANGED <<attempt, attemptVars>>
  BY Zenon DEF WaitEnds, Fresh
<1> QED BY <1>3, <1>4, <1>5

\* The command waits.
LEMMA StutterKeeps ==
  ASSUME TypeOK, CommandInv, UNCHANGED vars
  PROVE  TypeOK' /\ CommandInv'
<1>1. /\ ProvTypeOK /\ ProvInv /\ LoopTypes /\ AttemptTypes /\ EndTypes /\ Before /\ AttemptInv /\ Told /\ Counted
  BY TypeParts DEF CommandInv
<1>2. /\ UNCHANGED sessionVars /\ signal' = signal /\ shape' = shape /\ UNCHANGED loopVars
      /\ UNCHANGED attemptVars /\ UNCHANGED <<stage, exit, document>>
  BY DEF vars, provVars
<1>3. signal' \in BOOLEAN
  BY <1>1, <1>2, Zenon DEF ProvTypeOK
<1>4. ProvTypeOK' /\ ProvInv'
  BY <1>1, <1>2, <1>3, ResolutionStays
<1>5. AttemptInv'
  BY <1>1, <1>2 DEF AttemptInv, Living, Tasks, Guarded, Flowed, Reported, Kept, Closed, attemptVars, TryAgain, Retryable
<1>6. Before'
  BY <1>1, <1>2 DEF Before, Fresh, attemptVars, Valid, sessionVars, Untouched
<1>7. Told' /\ EndTypes' /\ stage' \in StageNames
  BY <1>1, <1>2 DEF Told, ExitTellsTheTruth, EndTypes, AttemptTypes, sessionVars, attemptVars
<1>8. Counted'
  BY <1>1, <1>2, CountedStays DEF loopVars
<1> QED BY <1>2, <1>4, <1>5, <1>6, <1>7, <1>8, BesideAttempt

----------------------------------------------------------------------------
(* Theorems *)

\* What holds of the command in every state.
THEOREM CommandSafe == Spec => [](TypeOK /\ CommandInv)
<1>1. Init => TypeOK /\ CommandInv
  <2> SUFFICES ASSUME Init PROVE TypeOK /\ CommandInv
    OBVIOUS
  <2>1. ProvTypeOK /\ ProvInv /\ Untouched /\ result = "none"
    BY ResolutionBegins DEF Init, ProvInit
  <2>2. AttemptTypes
    <3>1. trigger \in BOOLEAN /\ late \in BOOLEAN /\ flowing \in BOOLEAN
      BY Zenon DEF Init, Fresh
    <3> QED BY <3>1 DEF Init, Fresh, AttemptTypes, StageNames, Statuses
  <2>3. LoopTypes /\ EndTypes /\ shape \subseteq Parts
    BY CommandAssumption DEF Init, LoopTypes, EndTypes
  <2>4. TypeOK
    BY <2>1, <2>2, <2>3, TypeParts
  <2>5. AttemptInv /\ Before
    BY <2>1 DEF Init, Fresh, AttemptInv, Living, Tasks, Guarded, Flowed, Reported, Kept, Closed, Before
  <2>6. Told
    BY DEF Init, Told, ExitTellsTheTruth
  <2>7. Counted
    BY DEF Init, Counted
  <2> QED BY <2>1, <2>4, <2>5, <2>6, <2>7 DEF CommandInv
<1>2. TypeOK /\ CommandInv /\ [Next]_vars => (TypeOK /\ CommandInv)'
  <2> SUFFICES ASSUME TypeOK, CommandInv, [Next]_vars PROVE TypeOK' /\ CommandInv'
    OBVIOUS
  <2>1. CASE ReadSource \/ Resolve \/ AfterResolve \/ Signal
    BY <2>1, ReadSourceKeeps, ResolveKeeps, AfterResolveKeeps, SignalKeeps
  <2>2. CASE AttemptStep
    BY <2>2, BeginAttemptKeeps, LockKeeps, PrepareKeeps, SpawnPluginsKeeps, ConfigurePluginsKeeps, GatesKeeps,
       LaunchSinkKeeps, StartProducerKeeps, CheckDriftKeeps, LaunchStateKeeps, StartDestinationKeeps,
       DataEndsKeeps, PluginsGoneKeeps, SetupFailedKeeps, TeardownKeeps, ReportKeeps, WaitEndsKeeps
       DEF AttemptStep
  <2>3. CASE StateEnds \/ PersistFails \/ SinkSpawns \/ SinkEnds
    BY <2>3, StateEndsKeeps, PersistFailsKeeps, SinkSpawnsKeeps, SinkEndsKeeps
  <2>4. CASE UNCHANGED vars
    BY <2>4, StutterKeeps
  <2> QED BY <2>1, <2>2, <2>3, <2>4 DEF Next, Rest
<1> QED BY <1>1, <1>2, PTL DEF Spec

\* A failed resolution is reported as what a provider did by itself.
THEOREM CommandRootIsReal == Spec => []RootIsReal
<1>1. CommandInv => RootIsReal
  BY DEF CommandInv, ProvInv, Answered
<1> QED BY <1>1, CommandSafe, PTL

\* Nothing is left behind an attempt, or behind the command.
THEOREM CommandLeavesNothing == Spec => []NothingLeft
<1>1. TypeOK /\ CommandInv => NothingLeft
  <2> SUFFICES ASSUME TypeOK, CommandInv, stage \in {"report", "backoff", "begin", "over"} PROVE NothingLeft
    BY DEF NothingLeft
  <2>1. ProvInv /\ Before /\ AttemptInv
    BY DEF CommandInv
  <2>2. live = {} /\ lock = "free" /\ sinkTask # "running" /\ stateTask # "running"
    BY <2>1 DEF AttemptInv, Living, Tasks, Guarded, Closed, Before, Fresh
  <2>3. \A i \in Instances : session[i] \in {"idle", "joined"}
    BY <2>1 DEF Before, ProvInv, Answered, Untouched
  <2>4. \A i \in Instances : proc[i] \notin {"up", "hung"}
    BY <2>1, <2>3 DEF ProvInv, Progress
  <2>5. (staging = "removed" => sinkTask = "ok") /\ (downloads = "removed" => status = "success")
    BY <2>1 DEF AttemptInv, Kept
  <2> QED BY <2>2, <2>4, <2>5 DEF NothingLeft
<1> QED BY <1>1, CommandSafe, PTL

\* The exit code and the document say how the run went.
THEOREM CommandTellsTheTruth == Spec => []ExitTellsTheTruth
<1>1. CommandInv => ExitTellsTheTruth
  BY DEF CommandInv, Told
<1> QED BY <1>1, CommandSafe, PTL

\* The lock covers every plugin of a run with state.
THEOREM CommandHoldsTheLock == Spec => []LockCoversTheRun
<1>1. TypeOK /\ CommandInv => LockCoversTheRun
  <2> SUFFICES ASSUME TypeOK, CommandInv, "state" \in shape, live # {}, stateTask # "failed"
               PROVE  lock # "free"
    BY DEF LockCoversTheRun
  <2>1. AttemptTypes /\ Before /\ AttemptInv
    BY TypeParts DEF CommandInv
  <2>2. stage \notin Closed \cup {"read", "resolve", "begin", "lock"}
    BY <2>1 DEF AttemptInv, Living, Before, Fresh
  <2>3. stateTask \in {"none", "running"}
    BY <2>1 DEF AttemptTypes, AttemptInv, Living
  <2> QED BY <2>1, <2>2, <2>3 DEF AttemptInv, Guarded
<1> QED BY <1>1, CommandSafe, PTL

\* What an attempt behind another one was made for, and the wait between them.
LEMMA NextAttempt ==
  ASSUME TypeOK, CommandInv, [Next]_vars, attempt' # attempt
  PROVE  /\ flowing \/ failure \in {"failed", "process", "rejected", "timeout"}
         /\ wait = Backoff(idle) /\ idle = Since /\ idle \in 1 .. MaxAttempts - 1
<1>1. LoopTypes /\ Counted /\ AttemptInv
  BY TypeParts DEF CommandInv
<1>2. WaitEnds
  BY DEF Next, ReadSource, Resolve, AfterResolve, Signal, AttemptStep, BeginAttempt, Lock, Prepare, SpawnPlugins,
     ConfigurePlugins, Gates, LaunchSink, StartProducer, CheckDrift, LaunchState, StartDestination, DataEnds,
     PluginsGone, SetupFailed, Teardown, Report, StateEnds, PersistFails, SinkSpawns, SinkEnds, Rest, vars, loopVars
<1>3. stage = "backoff"
  BY <1>2 DEF WaitEnds
<1>4. flowing \/ failure \in {"failed", "process", "rejected", "timeout"}
  BY <1>1, <1>3 DEF AttemptInv, Reported, TryAgain, Retryable
<1>5. Len(history) = attempt /\ attempt \in Nat \ {0} /\ attempt < MaxAttempts
  BY <1>1, <1>3, CommandAssumption DEF Counted, LoopTypes
<1>6. history # <<>>
  BY <1>1, <1>5 DEF LoopTypes
<1>7. wait = Backoff(idle)
  BY <1>1, <1>6 DEF Counted
<1>8. idle = Since /\ idle \in Nat \ {0} /\ idle <= Len(history)
  BY <1>1, <1>6, CountIsSince, CountedBounds
<1> QED BY <1>4, <1>5, <1>7, <1>8, CommandAssumption

\* Whatever the number of attempts, one is made again only for a cause that may
\* pass, and the wait before it is computed from the attempts behind the last
\* that wrote rows.
THEOREM CommandCountsAttempts ==
  Spec => [][attempt' # attempt =>
               /\ flowing \/ failure \in {"failed", "process", "rejected", "timeout"}
               /\ wait = Backoff(Since)]_vars
<1>1. TypeOK /\ CommandInv /\ [Next]_vars =>
        [attempt' # attempt =>
           /\ flowing \/ failure \in {"failed", "process", "rejected", "timeout"}
           /\ wait = Backoff(Since)]_vars
  BY NextAttempt
<1> QED BY <1>1, CommandSafe, PTL DEF Spec

\* With up to 22 attempts the exponent is never cut, and the wait is the one
\* that doubles with every attempt.
THEOREM CommandRetries ==
  ASSUME MaxAttempts <= 22
  PROVE  Spec => RetriedForACause
<1>1. ASSUME TypeOK, CommandInv, [Next]_vars, attempt' # attempt
      PROVE  /\ flowing \/ failure \in {"failed", "process", "rejected", "timeout"}
             /\ wait = Lesser(3600, BackoffBase * 2 ^ (Since - 1))
  <2>1. /\ flowing \/ failure \in {"failed", "process", "rejected", "timeout"}
        /\ wait = Backoff(idle) /\ idle = Since /\ idle \in 1 .. MaxAttempts - 1
    BY <1>1, NextAttempt
  <2>2. idle - 1 \in 0..20 /\ idle # 0
    BY <2>1, CommandAssumption
  <2>3. Lesser(IF idle = 0 THEN 0 ELSE idle - 1, 20) = idle - 1
    BY <2>2 DEF Lesser
  <2> DEFINE p == 2 ^ (idle - 1)
             w == BackoffBase * p
  <2>4. p \in Nat
    BY <2>2, PowersOfTwo
  <2>5. Backoff(idle) = Lesser(w, 3600)
    BY <2>3 DEF Backoff
  <2>6. BackoffBase * 2 ^ (Since - 1) = w
    BY <2>1
  <2> HIDE DEF p
  <2>7. w \in Nat
    BY <2>4, CommandAssumption
  <2> HIDE DEF w
  <2>8. Lesser(w, 3600) = Lesser(3600, w)
    BY <2>7 DEF Lesser
  <2> QED BY <2>1, <2>5, <2>6, <2>8
<1>2. TypeOK /\ CommandInv /\ [Next]_vars =>
        [attempt' # attempt =>
           /\ flowing \/ failure \in {"failed", "process", "rejected", "timeout"}
           /\ wait = Lesser(3600, BackoffBase * 2 ^ (Since - 1))]_vars
  BY <1>1
<1> QED BY <1>2, CommandSafe, PTL DEF Spec, RetriedForACause
=============================================================================
