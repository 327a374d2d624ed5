------------------------------- MODULE Lease -------------------------------
(***************************************************************************)
(* The lease on a pipeline's state lock, as loadsmith-core/src/state.rs    *)
(* implements it over any LockStore: acquire, Lease::renew and             *)
(* Lease::release, with the state document the lock protects.              *)
(*                                                                         *)
(* A member of Runs is one acquisition, with a holder token of its own     *)
(* (holder_id): a process that is started again, or the next attempt of a  *)
(* pipeline with recovery, is another member.  This module has what the    *)
(* code shares between the backends.  Creating, replacing and removing the *)
(* lock are the store's own and are added by S3Lock and LocalLock.         *)
(*                                                                         *)
(* Time is counted in ticks.  No clock is read: the lock carries its age   *)
(* and a run carries a timer, both advanced by Tick.  A run's wall clock   *)
(* may differ from another's by the constant Skew.  Nothing ties a run to  *)
(* the time: between any two of its steps any number of ticks may pass.    *)
(*                                                                         *)
(* A lease that is not renewed in time is lost while its holder works on:  *)
(* the history variable overtaken, which no guard reads, records who lost  *)
(* its lease so, and the properties say what holds of the others.          *)
(***************************************************************************)
EXTENDS Integers, FiniteSets

CONSTANTS
  Runs,         \* acquisitions of the pipeline's lock
  Crashed,      \* those that crashed before the first state, a lease left or not
  NoRun,        \* no run
  TTL,          \* LEASE_TTL: a lease is honoured this long by the clock it records
  Observe,      \* how long an unchanged lease is watched before it is taken
  RenewEvery,   \* LEASE_RENEW_INTERVAL
  Skew,         \* what each run's wall clock is ahead by
  Faults,       \* the faults of the store that may happen (FaultKinds)
  MaxAge        \* bound: ages beyond this one are not told apart

FaultKinds == {"readError", "writeError", "lostAnswer", "shortWrite"}

ASSUME RunAssumption ==
  /\ NoRun \notin Runs
  /\ Crashed \subseteq Runs
  /\ Skew \in [Runs -> Int]
  /\ Faults \subseteq FaultKinds

\* The times of state.rs (5s to renew, 15s to watch, 15s of lease) in ticks.
\* MaxAge only has to lie beyond every age that is compared.
ASSUME TimeAssumption ==
  /\ RenewEvery \in Nat \ {0}
  /\ TTL \in Nat
  /\ Observe \in Nat
  /\ MaxAge \in Nat /\ MaxAge > TTL /\ MaxAge >= Observe /\ MaxAge >= RenewEvery

VARIABLES
  pc,       \* where each run is
  lock,     \* the lock: a lease, or NoLock
  fresh,    \* the runs whose last look at the lock shows it as it still is
  timer,    \* ticks since a run began to watch, made the lease that it writes,
            \* or was last due to renew it
  lost,     \* Lease.lost
  overtaken,\* history: the working runs whose lease another replaced or removed
  view      \* what each run knows of the state document, if it loaded it

leaseVars == <<pc, lock, fresh, timer, lost, overtaken>>
vars      == <<leaseVars, view>>

NoLock == [holder |-> NoRun, torn |-> FALSE, age |-> 0]
Views == {"none", "current", "stale"}

\* A run that holds its guard: it loads and persists the document.
Working == {"holding", "renewing", "rewriting"}
\* A run that has the guard, or is about to.
Guarding == Working \cup {"writing", "releasing", "removing"}
Places ==
  Guarding \cup {"idle", "create", "look", "watching", "stealing", "renaming", "over"}

Holding(r) == pc[r] \in Working
\* It has the lock, though the file may not hold its lease yet.
Claims(r) == Holding(r) \/ pc[r] = "writing"
Go(r, place) == pc' = [pc EXCEPT ![r] = place]

\* Seen::holder: nobody when the lease is torn.
SeenHolder == IF lock.torn THEN NoRun ELSE lock.holder

\* now_unix_ms().saturating_sub(renewed_at_unix_ms), on r's clock; 0 for a
\* lease that cannot be read.
AgeSeenBy(r) ==
  LET age == lock.age + Skew[r] - Skew[lock.holder]
  IN  IF lock.torn \/ age < 0 THEN 0 ELSE age

\* The lease is as old as a watcher waits, or it expired by r's clock.
Lapsed(r) == lock.age >= Observe \/ AgeSeenBy(r) > TTL

\* Every write changes the version that the watchers compare.
Write(lease, victims) ==
  /\ lock' = lease
  /\ fresh' = {}
  /\ overtaken' = overtaken \cup victims

Unwritten == UNCHANGED <<lock, fresh, overtaken>>

\* Who loses the lock when the lease becomes that of another run than r.
LosesTo(r) == {q \in Runs \ {r} : lock.holder = q /\ Claims(q)}

\* LockFile::fresh: the lease bears the time it was made at, not that at which
\* it was written.
Fresh(r) == [holder |-> r, torn |-> FALSE, age |-> timer[r]]

Restart(r) == timer' = [timer EXCEPT ![r] = 0]

\* A run that is over has no memory.
Forget(r) ==
  /\ fresh' = fresh \ {r}
  /\ lost' = [lost EXCEPT ![r] = FALSE]
  /\ view' = [view EXCEPT ![r] = "none"]
  /\ Restart(r)

TypeOK ==
  /\ pc \in [Runs -> Places]
  /\ lock \in [holder : Runs \cup {NoRun}, torn : BOOLEAN, age : 0..MaxAge]
  /\ fresh \subseteq Runs
  /\ timer \in [Runs -> 0..MaxAge]
  /\ lost \in [Runs -> BOOLEAN]
  /\ overtaken \subseteq Runs
  /\ view \in [Runs -> Views]

Init ==
  /\ pc = [r \in Runs |-> IF r \in Crashed THEN "over" ELSE "idle"]
  /\ lock \in {NoLock} \cup [holder : Crashed, torn : BOOLEAN, age : 0..MaxAge]
  /\ fresh = {}
  /\ timer = [r \in Runs |-> 0]
  /\ lost = [r \in Runs |-> FALSE]
  /\ overtaken = {}
  /\ view = [r \in Runs |-> "none"]

----------------------------------------------------------------------------
(* acquire *)

Start(r) ==
  /\ pc[r] = "idle"
  /\ Go(r, "create")
  /\ UNCHANGED <<lock, fresh, timer, lost, overtaken, view>>

\* Mutant: takes the lease of a live holder without watching it.
LookEager(r) ==
  /\ pc[r] = "look"
  /\ \/ lock = NoLock /\ Go(r, "create") /\ UNCHANGED fresh
     \/ lock # NoLock /\ Go(r, "stealing") /\ fresh' = fresh \cup {r}
  /\ Restart(r)
  /\ UNCHANGED <<lock, lost, overtaken, view>>

\* The lock exists: an expired lease is taken at once, another is watched.
Look(r) ==
  /\ pc[r] = "look"
  /\ \/ /\ lock = NoLock
        /\ Go(r, "create")
        /\ UNCHANGED fresh
     \/ /\ lock # NoLock
        /\ fresh' = fresh \cup {r}
        /\ Go(r, IF AgeSeenBy(r) > TTL THEN "stealing" ELSE "watching")
     \/ /\ "readError" \in Faults
        /\ Go(r, "over")
        /\ UNCHANGED fresh
  /\ Restart(r)
  /\ UNCHANGED <<lock, lost, overtaken, view>>

\* Mutant: waits for the holder for ever.
PollOnly(r) ==
  /\ pc[r] = "watching"
  /\ \/ lock = NoLock /\ Go(r, "create")
     \/ lock # NoLock /\ r \notin fresh /\ Go(r, "over")
  /\ Restart(r)
  /\ UNCHANGED <<lock, fresh, lost, overtaken, view>>

\* One poll of the watch loop that changes something.  A lock that cannot be
\* read this time counts as unchanged.
Poll(r) ==
  /\ pc[r] = "watching"
  /\ \/ /\ lock = NoLock
        /\ Go(r, "create")
     \/ /\ lock # NoLock
        /\ r \notin fresh
        /\ Go(r, "over")
     \/ /\ r \in fresh \/ "readError" \in Faults
        /\ timer[r] >= Observe
        /\ Go(r, "stealing")
  /\ Restart(r)
  /\ UNCHANGED <<lock, fresh, lost, overtaken, view>>

----------------------------------------------------------------------------
(* Lease::renew and Lease::release: the look that each begins with *)

\* A renewal that a transient error spoils leaves all as it is: the next one
\* tries again.
RenewRead(r) ==
  /\ pc[r] = "holding"
  /\ timer[r] >= RenewEvery
  /\ ~lost[r]
  /\ Restart(r)
  /\ \/ /\ SeenHolder = r
        /\ fresh' = fresh \cup {r}
        /\ Go(r, "renewing")
        /\ UNCHANGED lost
     \/ /\ SeenHolder # r
        /\ lost' = [lost EXCEPT ![r] = TRUE]
        /\ UNCHANGED <<pc, fresh>>
     \/ /\ "readError" \in Faults
        /\ UNCHANGED <<pc, fresh, lost>>
  /\ UNCHANGED <<lock, overtaken, view>>

\* The run ends and drops its guard.  The mutex lets a renewal in flight end
\* first, so the guard is dropped from "holding" only.
Finish(r) ==
  /\ pc[r] = "holding"
  /\ Go(r, "releasing")
  /\ Forget(r)
  /\ UNCHANGED <<lock, overtaken>>

ReleaseRead(r) ==
  /\ pc[r] = "releasing"
  /\ \/ /\ SeenHolder = r
        /\ fresh' = fresh \cup {r}
        /\ Go(r, "removing")
     \/ /\ SeenHolder # r \/ "readError" \in Faults
        /\ Go(r, "over")
        /\ UNCHANGED fresh
  /\ UNCHANGED <<lock, timer, lost, overtaken, view>>

----------------------------------------------------------------------------
(* The document, the clock and the crash *)

\* Mutant: loads the document before it has the lock.
LoadEarly(r) ==
  /\ pc[r] = "create" \/ Holding(r)
  /\ view[r] = "none"
  /\ view' = [view EXCEPT ![r] = "current"]
  /\ UNCHANGED leaseVars

\* The run loads the document under its lock, before it spawns a plugin.
Load(r) ==
  /\ Holding(r)
  /\ view[r] = "none"
  /\ view' = [view EXCEPT ![r] = "current"]
  /\ UNCHANGED leaseVars

\* The state supervisor stores the document with a later watermark than the one
\* it knows.  It looks at neither the lease nor Lease.lost, and not at the
\* document, which another run may have stored since.
Persist(r) ==
  /\ Holding(r)
  /\ view[r] # "none"
  /\ view' = [q \in Runs |-> IF q = r THEN "current"
                             ELSE IF view[q] = "current" THEN "stale" ELSE view[q]]
  /\ UNCHANGED leaseVars

Crash(r) ==
  /\ pc[r] \notin {"idle", "over"}
  /\ Go(r, "over")
  /\ Forget(r)
  /\ UNCHANGED <<lock, overtaken>>

Aged(lease) ==
  [lease EXCEPT !.age = IF lease # NoLock /\ @ < MaxAge THEN @ + 1 ELSE @]

\* How far a run's timer is followed at each place.
Horizon(place) ==
  CASE place \in {"create", "writing", "stealing", "renaming", "renewing", "rewriting"} -> MaxAge
    [] place = "watching" -> Observe
    [] place = "holding" -> RenewEvery
    [] OTHER -> 0

Tick ==
  /\ lock' = Aged(lock)
  /\ timer' = [r \in Runs |-> IF timer[r] < Horizon(pc[r]) THEN timer[r] + 1 ELSE timer[r]]
  /\ UNCHANGED <<pc, fresh, lost, overtaken, view>>

SharedStep(r) ==
  \/ Start(r) \/ Look(r) \/ Poll(r)
  \/ RenewRead(r) \/ Finish(r) \/ ReleaseRead(r)
  \/ Load(r) \/ Persist(r)

----------------------------------------------------------------------------
(* Properties *)

\* Two runs work under the pipeline's lock at the same time only when one of
\* them was overtaken: its lease was left unrenewed, or expired, before another
\* run took it, or it was replaced or removed in the window that the store
\* leaves between another run's look and its write.
AloneUnlessOvertaken ==
  \A r, q \in Runs : Holding(r) /\ Holding(q) /\ r # q => r \in overtaken \/ q \in overtaken

\* The owners of the state document are the runs that work under the lock; those
\* behind know an older document than the one that is stored.
Owners == {r \in Runs : Holding(r)}
Behind == {r \in Runs : Holding(r) /\ view[r] = "stale"}

Exclusive == INSTANCE ExclusiveState WITH owners <- Owners, behind <- Behind

\* The lock implements the ownership of the state document (ExclusiveState), over
\* either store: who takes the lock owns the document alone but for owners that
\* were overtaken, and as long as nobody was, no owner works on an old one.
ImplementsExclusiveState == Exclusive!Spec

\* A renewal over the object store replaces the run's own lease, never that of
\* a run that took the lock in between ("a holder never renews ... a lock whose
\* token is not its own"): while a run renews, the lock does not pass to it.
RenewsOwnOnly ==
  [][\A r \in Runs :
       pc[r] = "renewing" /\ lock' # lock /\ lock'.holder = r => lock.holder = r]_vars

\* A run stops renewing its lease only when the lock holds no lease of its own
\* any more ("set once a renewal found another holder's token").
LostMeansTaken == \A r \in Runs : Holding(r) /\ lost[r] => SeenHolder # r

\* A run that wants the lock gets it or is told that it is busy: the watch
\* loop and the race to create the lock come to an end.
AcquireEnds == \A r \in Runs : pc[r] = "create" ~> pc[r] \in Guarding \cup {"over"}
============================================================================
