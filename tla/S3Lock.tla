------------------------------- MODULE S3Lock -------------------------------
(***************************************************************************)
(* The lease over the S3 store (state_s3.rs): the lock is one object, made *)
(* with PUT If-None-Match and replaced with PUT If-Match, a compare-and-   *)
(* swap, and removed with an unconditional DELETE.  The client             *)
(* (loadsmith-aws/src/s3.rs) repeats a request that got no answer, applied *)
(* or not, with the same condition.                                        *)
(***************************************************************************)
EXTENDS Lease

CONSTANT MaxRepeats   \* max_attempts - 1: repetitions of one request

ASSUME RepeatAssumption == MaxRepeats \in Nat

VARIABLE repeats      \* how often each run has repeated the request it is making

s3Vars == <<vars, repeats>>

S3TypeOK == TypeOK /\ repeats \in [Runs -> 0..MaxRepeats]

S3Init == Init /\ repeats = [r \in Runs |-> 0]

\* What a request that is applied when its condition holds does, and what the
\* caller is told: a request that fails is not applied, or was by one of its
\* earlier tries; one that is applied may stay without an answer and be
\* repeated, until the tries are used up.
Request(r, holds) ==
  {[applied |-> holds, answer |-> IF holds THEN "done" ELSE "precondition"]}
    \cup (IF "writeError" \in Faults THEN {[applied |-> FALSE, answer |-> "error"]} ELSE {})
    \cup (IF "lostAnswer" \in Faults /\ holds
          THEN {[applied |-> TRUE, answer |-> IF repeats[r] < MaxRepeats THEN "lost" ELSE "error"]}
          ELSE {})

\* A lost answer has the same request made once more.
Answered(r, answer, place) ==
  IF answer = "lost"
  THEN repeats' = [repeats EXCEPT ![r] = @ + 1] /\ UNCHANGED pc
  ELSE repeats' = [repeats EXCEPT ![r] = 0] /\ Go(r, place)

\* Mutant: replaces the object whatever its version.
AnyVersion(r) == lock # NoLock

\* The version a run saw, its ETag, is still the object's.
Matches(r) == lock # NoLock /\ r \in fresh

Create(r) ==
  /\ pc[r] = "create"
  /\ \E put \in Request(r, lock = NoLock) :
       /\ IF put.applied THEN Write(Fresh(r), {}) ELSE Unwritten
       /\ Answered(r, put.answer, CASE put.answer = "done" -> "holding"
                                    [] put.answer = "precondition" -> "look"
                                    [] OTHER -> "over")
       /\ IF put.answer = "lost" THEN UNCHANGED timer ELSE Restart(r)
  /\ UNCHANGED <<lost, view>>

\* The PUT If-Match of a taker or a renewal.  A lease that lapsed may be that of
\* a run that works on.
Swap(r, applied) ==
  IF applied
  THEN Write(Fresh(r), IF Lapsed(r) THEN LosesTo(r) ELSE {})
  ELSE Unwritten

Steal(r) ==
  /\ pc[r] = "stealing"
  /\ \E put \in Request(r, Matches(r)) :
       /\ Swap(r, put.applied)
       /\ Answered(r, put.answer, IF put.answer = "done" THEN "holding" ELSE "over")
       /\ IF put.answer = "lost" THEN UNCHANGED timer ELSE Restart(r)
  /\ UNCHANGED <<lost, view>>

\* A renewal refused with 412 is a lost lease.  If-Match on an object that is
\* gone is a 404: an error like any other, and the next renewal tries again.
RenewWrite(r) ==
  /\ pc[r] = "renewing"
  /\ \E put \in Request(r, Matches(r)) :
       /\ Swap(r, put.applied)
       /\ Answered(r, put.answer, "holding")
       /\ lost' = [lost EXCEPT ![r] = @ \/ (put.answer = "precondition" /\ lock # NoLock)]
  /\ UNCHANGED <<timer, view>>

\* An unconditional DELETE, whatever the object holds by now.
Remove(r) ==
  /\ pc[r] = "removing"
  /\ \E delete \in Request(r, TRUE) :
       /\ IF delete.applied
          THEN Write(NoLock, IF r \in fresh THEN {} ELSE LosesTo(r))
          ELSE Unwritten
       /\ Answered(r, delete.answer, "over")
  /\ UNCHANGED <<timer, lost, view>>

RequestStep(r) == Create(r) \/ Steal(r) \/ RenewWrite(r) \/ Remove(r)

Next ==
  \/ (Tick \/ \E r \in Runs : SharedStep(r)) /\ UNCHANGED repeats
  \/ \E r \in Runs : Crash(r) /\ repeats' = [repeats EXCEPT ![r] = 0]
  \/ \E r \in Runs : RequestStep(r)

Spec == S3Init /\ [][Next]_s3Vars

============================================================================
