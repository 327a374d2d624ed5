----------------------------- MODULE AtomicLoad -----------------------------
(***************************************************************************)
(* What a pipeline promises about one load, whatever fails: the target     *)
(* takes the data as a whole, after the producer brought all of it to an   *)
(* end, or not at all (the abort rules, loadsmith-core/src/runner.rs).     *)
(***************************************************************************)
EXTENDS Naturals

VARIABLES
  produced,  \* batches the producer delivered so far
  producer,  \* "producing", then "complete" or "broken"
  target     \* "open", then "holds" or "discarded"

load == <<produced, producer, target>>

LoadInit == produced = 0 /\ producer = "producing" /\ target = "open"

Produce ==
  /\ producer = "producing"
  /\ produced' = produced + 1
  /\ UNCHANGED <<producer, target>>

ProducerEnds ==
  /\ producer = "producing"
  /\ producer' \in {"complete", "broken"}
  /\ UNCHANGED <<produced, target>>

Hold ==
  /\ producer = "complete" /\ target = "open"
  /\ target' = "holds"
  /\ UNCHANGED <<produced, producer>>

Discard ==
  /\ target = "open"
  /\ target' = "discarded"
  /\ UNCHANGED <<produced, producer>>

LoadNext == Produce \/ ProducerEnds \/ Hold \/ Discard

LoadSpec == LoadInit /\ [][LoadNext]_load
============================================================================
