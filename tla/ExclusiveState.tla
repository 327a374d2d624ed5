--------------------------- MODULE ExclusiveState ---------------------------
(***************************************************************************)
(* What the state lock promises to the runs of one pipeline.  A run that   *)
(* takes the state document owns it alone, but for owners that were        *)
(* overtaken, which do not know it.  As long as nobody was, every owner    *)
(* works on the document as it is stored: what it persists takes the       *)
(* watermark on from where it stands.                                      *)
(***************************************************************************)
CONSTANT Runs

VARIABLES
  owners,     \* the runs that work on the document
  overtaken,  \* the runs that lost it unnoticed
  behind      \* the owners that know an older document than the stored one

vars == <<owners, overtaken, behind>>

Init == owners = {} /\ overtaken = {} /\ behind = {}

\* A run becomes an owner: of the owners that were not overtaken there is one.
Acquire(r) ==
  /\ r \notin owners
  /\ owners' = owners \cup {r}
  /\ overtaken \subseteq overtaken'
  /\ \A p, q \in owners' \ overtaken' : p = q
  /\ UNCHANGED behind

Overtake ==
  /\ overtaken \subseteq overtaken'
  /\ UNCHANGED <<owners, behind>>

\* An owner stores the document, which leaves the owners beside it behind.
Persist(r) ==
  /\ r \in owners
  /\ behind' \subseteq owners \ {r}
  /\ overtaken = {} => behind' = {}
  /\ UNCHANGED <<owners, overtaken>>

\* An owner ends its run, or dies.
Release(r) ==
  /\ owners' = owners \ {r}
  /\ behind' = behind \ {r}
  /\ UNCHANGED overtaken

Next == Overtake \/ \E r \in Runs : Acquire(r) \/ Persist(r) \/ Release(r)

Spec == Init /\ [][Next]_vars
============================================================================
