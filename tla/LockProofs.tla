----------------------------- MODULE LockProofs -----------------------------
(***************************************************************************)
(* What the lease on the state lock guarantees over either store, for any  *)
(* number of runs, any times, any clocks and any faults: nothing is        *)
(* assumed of how fast a run is, how often it misses a renewal, how many   *)
(* runs want the lock or how often a request is repeated.                  *)
(***************************************************************************)
EXTENDS S3Lock, LocalLock, TLAPS

\* A run that has the lock and was not overtaken finds its own lease in it.
Held == \A r \in Runs : Claims(r) /\ r \notin overtaken => lock.holder = r

\* A lock is somebody's.
Owned == lock # NoLock => lock.holder \in Runs

\* What the last look of a run showed is so for as long as nobody writes the
\* lock: a renewal or a release replaces the run's own lease, and the lease it
\* watches is as old as the watch.
LookStands(r) ==
  /\ pc[r] \in {"renewing", "rewriting", "removing"} => lock.holder = r
  /\ pc[r] = "watching" => lock # NoLock /\ timer[r] <= lock.age
  /\ pc[r] \in {"stealing", "renaming"} => Lapsed(r)

Looked == \A r \in fresh : LookStands(r)

\* Only a run that works knows the document, and as long as nobody was overtaken
\* it knows the one that is stored.
Known ==
  /\ \A r \in Runs : ~Holding(r) => view[r] = "none"
  /\ overtaken = {} => \A r \in Runs : view[r] # "stale"

LockInv == Held /\ Owned /\ Looked /\ Known

----------------------------------------------------------------------------
(* Type correctness *)

\* A lease that a run writes is one.
LEMMA FreshType ==
  ASSUME TypeOK, NEW r \in Runs
  PROVE  Fresh(r) \in [holder : Runs, torn : {FALSE}, age : 0..MaxAge]
BY DEF Fresh, TypeOK

\* Those who lose the lock are runs.
LEMMA LosesToRuns ==
  \A r : LosesTo(r) \subseteq Runs
BY DEF LosesTo

\* Type correctness of the steps that the stores share.
LEMMA SharedType ==
  ASSUME TypeOK, NEW r \in Runs, SharedStep(r) \/ Crash(r)
  PROVE  TypeOK'
<1> USE TimeAssumption DEF TypeOK, Places, Guarding, Working, Views, Go, Restart, Forget
<1>1. CASE Start(r)
  BY <1>1 DEF Start
<1>2. CASE Look(r)
  BY <1>2 DEF Look
<1>3. CASE Poll(r)
  BY <1>3 DEF Poll
<1>4. CASE RenewRead(r)
  <2>1. lost' \in [Runs -> BOOLEAN]
    BY <1>4, Zenon DEF RenewRead
  <2>2. pc' \in [Runs -> Places] /\ fresh' \subseteq Runs
    BY <1>4 DEF RenewRead
  <2>3. UNCHANGED <<lock, overtaken, view>> /\ timer' \in [Runs -> 0..MaxAge]
    BY <1>4 DEF RenewRead
  <2> QED
    BY <2>1, <2>2, <2>3
<1>5. CASE Finish(r)
  BY <1>5 DEF Finish
<1>6. CASE ReleaseRead(r)
  BY <1>6 DEF ReleaseRead
<1>7. CASE Load(r)
  BY <1>7 DEF Load, leaseVars
<1>8. CASE Persist(r)
  BY <1>8 DEF Persist, leaseVars
<1>9. CASE Crash(r)
  BY <1>9 DEF Crash
<1> QED
  BY <1>1, <1>2, <1>3, <1>4, <1>5, <1>6, <1>7, <1>8, <1>9 DEF SharedStep

\* A lease that ages stays one, of the same holder, and gets no younger.
LEMMA AgedFacts ==
  ASSUME NEW lease \in [holder : Runs \cup {NoRun}, torn : BOOLEAN, age : 0..MaxAge]
  PROVE  /\ Aged(lease) \in [holder : Runs \cup {NoRun}, torn : BOOLEAN, age : 0..MaxAge]
         /\ Aged(lease).holder = lease.holder
         /\ Aged(lease).torn = lease.torn
         /\ Aged(lease).age >= lease.age
         /\ lease # NoLock => Aged(lease).age = MaxAge \/ Aged(lease).age = lease.age + 1
BY TimeAssumption DEF Aged

\* How far a timer is followed is a time.
LEMMA HorizonFacts ==
  \A place : Horizon(place) \in 0..MaxAge
BY TimeAssumption DEF Horizon

\* Type correctness of the clock.
LEMMA TickType ==
  ASSUME TypeOK, Tick
  PROVE  TypeOK'
<1>1. lock' \in [holder : Runs \cup {NoRun}, torn : BOOLEAN, age : 0..MaxAge]
  BY AgedFacts DEF Tick, TypeOK
<1>2. timer' \in [Runs -> 0..MaxAge]
  <2> SUFFICES ASSUME NEW r \in Runs
               PROVE  (IF timer[r] < Horizon(pc[r]) THEN timer[r] + 1 ELSE timer[r]) \in 0..MaxAge
    BY DEF Tick
  <2> QED
    BY HorizonFacts, TimeAssumption DEF TypeOK
<1> QED
  BY <1>1, <1>2 DEF Tick, TypeOK

\* The states a run may begin in.
LEMMA InitType == Init => TypeOK
<1> SUFFICES ASSUME Init
             PROVE  TypeOK
  OBVIOUS
<1>1. lock \in [holder : Runs \cup {NoRun}, torn : BOOLEAN, age : 0..MaxAge]
  <2>1. CASE lock = NoLock
    BY <2>1, TimeAssumption DEF NoLock
  <2>2. CASE lock \in [holder : Crashed, torn : BOOLEAN, age : 0..MaxAge]
    BY <2>2, RunAssumption
  <2> QED
    BY <2>1, <2>2 DEF Init
<1>2. timer \in [Runs -> 0..MaxAge]
  BY TimeAssumption DEF Init
<1> QED
  BY <1>1, <1>2 DEF Init, TypeOK, Places, Guarding, Working, Views

----------------------------------------------------------------------------
(* The invariant *)

\* A run that has the lock and was not overtaken has it alone.
LEMMA OneClaims ==
  ASSUME Held, NEW r \in Runs, NEW q \in Runs,
         Claims(r), Claims(q), r \notin overtaken, q \notin overtaken
  PROVE  r = q
BY DEF Held

\* Where nobody has a lease, nobody that has the lock was left alone.
LEMMA NobodyHoldsNoLock ==
  ASSUME Held, lock = NoLock, NEW q \in Runs, Claims(q)
  PROVE  q \in overtaken
BY RunAssumption DEF Held, NoLock

\* It holds at the start, whatever lease a crashed run left.
LEMMA InitLockInv == Init => LockInv
BY RunAssumption DEF Init, LockInv, Held, Owned, Looked, Known, Claims, Holding, Working

\* A step of r that writes no lock keeps the invariant, when it gives r no lock,
\* and what r saw, if it looked, is what the place it goes to relies on.
LEMMA MoveKeeps ==
  ASSUME TypeOK, LockInv, NEW r \in Runs, NEW place, Go(r, place), Restart(r) \/ UNCHANGED timer,
         UNCHANGED <<lock, overtaken, view>>,
         place \in Working \cup {"writing"} => Claims(r),
         Holding(r) => place \in Working,
         fresh' \subseteq fresh \cup {r},
         r \in fresh' => LookStands(r)'
  PROVE  LockInv'
<1>1. pc'[r] = place /\ \A q \in Runs \ {r} : pc'[q] = pc[q] /\ timer'[q] = timer[q]
  BY DEF Go, Restart, TypeOK
<1>2. \A q \in Runs : Claims(q)' => Claims(q)
  BY <1>1 DEF Claims, Holding
<1>3. \A q \in Runs : Holding(q) => Holding(q)'
  BY <1>1 DEF Holding
<1>4. Held'
  BY <1>2 DEF LockInv, Held
<1>5. Looked'
  <2> SUFFICES ASSUME NEW q \in fresh', q # r
               PROVE  LookStands(q)'
    BY DEF Looked
  <2>1. q \in fresh /\ q \in Runs
    BY DEF TypeOK
  <2>2. Lapsed(q)' <=> Lapsed(q)
    BY DEF Lapsed, AgeSeenBy
  <2>3. LookStands(q)
    BY <2>1 DEF LockInv, Looked
  <2> QED
    BY <1>1, <2>1, <2>2, <2>3 DEF LookStands
<1>6. Known'
  BY <1>3 DEF LockInv, Known
<1> QED
  BY <1>4, <1>5, <1>6 DEF LockInv, Owned

\* A step that changes nothing keeps it.
LEMMA SameInv ==
  ASSUME LockInv, UNCHANGED vars
  PROVE  LockInv'
BY DEF LockInv, Held, Owned, Looked, Known, LookStands, Lapsed, AgeSeenBy, Claims, Holding, vars, leaseVars

\* A step of r that writes the lock keeps it, when the lease it writes is that of
\* every run that has the lock then and was not overtaken.
LEMMA WriteKeeps ==
  ASSUME TypeOK, LockInv, NEW r \in Runs, NEW lease, NEW victims, NEW place,
         Write(lease, victims), pc' = pc \/ Go(r, place), UNCHANGED view,
         Holding(r) => pc' = pc \/ place \in Working,
         lease # NoLock => lease.holder \in Runs,
         \A q \in Runs : Claims(q)' /\ q \notin overtaken \cup victims => lease.holder = q
  PROVE  LockInv'
<1>1. \A q \in Runs : Holding(q) => Holding(q)'
  BY DEF Holding, Go, TypeOK
<1>2. overtaken \subseteq overtaken'
  BY DEF Write
<1>3. Held'
  BY DEF Held, Write
<1>4. Looked'
  BY DEF Looked, Write
<1>5. Known'
  BY <1>1, <1>2 DEF LockInv, Known
<1> QED
  BY <1>3, <1>4, <1>5 DEF LockInv, Owned, Write

\* A run that is over keeps it: it has no lock, has seen nothing and knows nothing.
LEMMA ForgetKeeps ==
  ASSUME TypeOK, LockInv, NEW r \in Runs, NEW place \in {"releasing", "over"},
         Go(r, place), Forget(r), UNCHANGED <<lock, overtaken>>
  PROVE  LockInv'
<1>1. pc'[r] = place /\ \A q \in Runs \ {r} : pc'[q] = pc[q] /\ timer'[q] = timer[q] /\ view'[q] = view[q]
  BY DEF Go, Forget, Restart, TypeOK
<1>2. view'[r] = "none"
  BY DEF Forget, TypeOK
<1>3. \A q \in Runs : Claims(q)' => Claims(q) /\ q # r
  BY <1>1 DEF Claims, Holding, Working
<1>4. Held'
  BY <1>3 DEF LockInv, Held
<1>5. Looked'
  <2> SUFFICES ASSUME NEW q \in fresh'
               PROVE  LookStands(q)'
    BY DEF Looked
  <2>1. q \in fresh /\ q \in Runs /\ q # r
    BY DEF TypeOK, Forget
  <2>2. Lapsed(q)' <=> Lapsed(q)
    BY DEF Lapsed, AgeSeenBy
  <2>3. LookStands(q)
    BY <2>1 DEF LockInv, Looked
  <2> QED
    BY <1>1, <2>1, <2>2, <2>3 DEF LookStands
<1>6. Known'
  BY <1>1, <1>2 DEF LockInv, Known, Holding
<1> QED
  BY <1>4, <1>5, <1>6 DEF LockInv, Owned

\* The steps that the stores share preserve the invariant.
LEMMA SharedInv ==
  ASSUME TypeOK, LockInv, NEW r \in Runs, SharedStep(r) \/ Crash(r)
  PROVE  LockInv'
<1>1. CASE Start(r)
  <2>1. pc[r] = "idle" /\ Go(r, "create") /\ UNCHANGED <<timer, lock, overtaken, view, fresh>>
    BY <1>1 DEF Start
  <2>2. LookStands(r)'
    BY <2>1 DEF LookStands, Go, TypeOK
  <2> QED
    BY <2>1, <2>2, MoveKeeps DEF Working, Holding
<1>2. CASE Look(r)
  <2>1. pc[r] = "look" /\ Restart(r) /\ UNCHANGED <<lock, overtaken, view>>
    BY <1>2 DEF Look
  <2>2. PICK place \in {"create", "watching", "stealing", "over"} :
          /\ Go(r, place)
          /\ fresh' \subseteq fresh \cup {r}
          /\ place = "watching" => lock # NoLock
          /\ place = "stealing" => AgeSeenBy(r) > TTL
    BY <1>2, <2>1, TimeAssumption DEF Look, AgeSeenBy
  <2>3. pc'[r] = place /\ timer'[r] = 0
    BY <2>1, <2>2 DEF Go, Restart, TypeOK
  <2>4. LookStands(r)'
    <3>1. lock.age \in Nat
      BY DEF TypeOK
    <3>2. CASE place = "watching"
      BY <2>1, <2>2, <2>3, <3>1, <3>2 DEF LookStands, NoLock
    <3>3. CASE place = "stealing"
      BY <2>1, <2>2, <2>3, <3>3 DEF LookStands, Lapsed, AgeSeenBy
    <3>4. CASE place \in {"create", "over"}
      BY <2>3, <3>4 DEF LookStands
    <3> QED
      BY <3>2, <3>3, <3>4
  <2> QED
    BY <2>1, <2>2, <2>4, MoveKeeps DEF Working, Holding
<1>3. CASE Poll(r)
  <2>1. pc[r] = "watching" /\ Restart(r) /\ UNCHANGED <<lock, overtaken, view, fresh>>
    BY <1>3 DEF Poll
  <2>2. PICK place \in {"create", "stealing", "over"} :
          /\ Go(r, place)
          /\ place = "stealing" => timer[r] >= Observe
    BY <1>3 DEF Poll
  <2>3. pc'[r] = place
    BY <2>2 DEF Go, TypeOK
  <2>4. r \in fresh => LookStands(r)'
    <3>1. r \in fresh => timer[r] <= lock.age
      BY <2>1 DEF LockInv, Looked, LookStands
    <3>2. timer[r] \in Nat /\ lock.age \in Nat
      BY DEF TypeOK
    <3>3. r \in fresh /\ place = "stealing" => Lapsed(r)'
      BY <2>1, <2>2, <3>1, <3>2, TimeAssumption DEF Lapsed
    <3> QED
      BY <2>2, <2>3, <3>3 DEF LookStands
  <2> QED
    BY <2>1, <2>2, <2>4, MoveKeeps DEF Working, Holding
<1>4. CASE RenewRead(r)
  <2>1. pc[r] = "holding" /\ Restart(r) /\ UNCHANGED <<lock, overtaken, view>>
    BY <1>4 DEF RenewRead
  <2>2. PICK place \in {"holding", "renewing"} :
          /\ Go(r, place)
          /\ place = "renewing" => SeenHolder = r
          /\ fresh' \subseteq fresh \cup {r}
    BY <1>4 DEF RenewRead, Go, TypeOK
  <2>3. pc'[r] = place
    BY <2>2 DEF Go, TypeOK
  <2>4. LookStands(r)'
    BY <2>1, <2>2, <2>3, RunAssumption DEF LookStands, SeenHolder
  <2> QED
    BY <2>1, <2>2, <2>4, MoveKeeps DEF Working, Holding, Claims
<1>5. CASE Finish(r) \/ Crash(r)
  BY <1>5, ForgetKeeps DEF Finish, Crash
<1>6. CASE ReleaseRead(r)
  <2>1. pc[r] = "releasing" /\ UNCHANGED <<timer, lock, overtaken, view>>
    BY <1>6 DEF ReleaseRead
  <2>2. PICK place \in {"removing", "over"} :
          /\ Go(r, place)
          /\ place = "removing" => SeenHolder = r
          /\ fresh' \subseteq fresh \cup {r}
    BY <1>6 DEF ReleaseRead
  <2>3. pc'[r] = place
    BY <2>2 DEF Go, TypeOK
  <2>4. LookStands(r)'
    BY <2>1, <2>2, <2>3, RunAssumption DEF LookStands, SeenHolder
  <2> QED
    BY <2>1, <2>2, <2>4, MoveKeeps DEF Working, Holding
<1>7. CASE Load(r)
  <2>1. Holding(r) /\ UNCHANGED leaseVars /\ view' = [view EXCEPT ![r] = "current"]
    BY <1>7 DEF Load
  <2>2. Known'
    BY <2>1 DEF LockInv, Known, Holding, leaseVars, TypeOK
  <2>3. Held' /\ Owned' /\ Looked'
    BY <2>1 DEF LockInv, Held, Owned, Looked, Claims, Holding, LookStands, Lapsed, AgeSeenBy, leaseVars
  <2> QED
    BY <2>2, <2>3 DEF LockInv
<1>8. CASE Persist(r)
  <2>1. /\ Holding(r) /\ UNCHANGED leaseVars
        /\ view' = [q \in Runs |-> IF q = r THEN "current"
                                   ELSE IF view[q] = "current" THEN "stale" ELSE view[q]]
    BY <1>8 DEF Persist
  <2>2. Held' /\ Owned' /\ Looked'
    BY <2>1 DEF LockInv, Held, Owned, Looked, Claims, Holding, LookStands, Lapsed, AgeSeenBy, leaseVars
  <2>3. ASSUME NEW q \in Runs, ~Holding(q)
        PROVE  view'[q] = "none"
    BY <2>1, <2>3 DEF LockInv, Known
  <2>4. ASSUME NEW q \in Runs, overtaken = {}
        PROVE  view'[q] # "stale"
    <3>1. q # r => ~Holding(q)
      BY <2>1, <2>4, OneClaims DEF LockInv, Claims
    <3> QED
      BY <2>1, <2>3, <3>1
  <2>5. Known'
    BY <2>1, <2>3, <2>4 DEF Known, Holding, leaseVars
  <2> QED
    BY <2>2, <2>5 DEF LockInv
<1> QED
  BY <1>1, <1>2, <1>3, <1>4, <1>5, <1>6, <1>7, <1>8 DEF SharedStep

\* So does the clock: a lease ages with those who watch it.
LEMMA TickInv ==
  ASSUME TypeOK, LockInv, Tick
  PROVE  LockInv'
<1>1. UNCHANGED <<pc, fresh, overtaken, view>> /\ lock'.holder = lock.holder /\ lock'.torn = lock.torn
      /\ lock' = Aged(lock) /\ lock'.age >= lock.age /\ lock.age \in Nat /\ lock'.age \in Nat
  BY AgedFacts DEF Tick, TypeOK
<1>2. Held' /\ Owned' /\ Known'
  BY <1>1, RunAssumption DEF LockInv, Held, Owned, Known, Claims, Holding, Aged, NoLock
<1>3. ASSUME NEW r \in fresh
      PROVE  LookStands(r)'
  <2>1. r \in Runs /\ LookStands(r)
    BY DEF LockInv, Looked, TypeOK
  <2>2. Lapsed(r) => Lapsed(r)'
    <3>1. CASE lock.age >= Observe
      BY <1>1, <3>1, TimeAssumption DEF Lapsed
    <3>2. CASE AgeSeenBy(r) > TTL
      <4>1. lock.age + Skew[r] - Skew[lock.holder] > TTL /\ ~lock.torn
        BY <3>2, TimeAssumption DEF AgeSeenBy
      <4>2. Skew[r] \in Int /\ (lock # NoLock => Skew[lock.holder] \in Int)
        BY <2>1, RunAssumption DEF LockInv, Owned
      <4>3. CASE lock = NoLock
        BY <1>1, <3>2, <4>3 DEF Lapsed, AgeSeenBy, Aged
      <4>4. CASE lock # NoLock
        <5>1. lock'.age + Skew[r] - Skew[lock'.holder] > TTL
          BY <1>1, <4>1, <4>2, <4>4, TimeAssumption
        <5>2. lock'.age + Skew[r] - Skew[lock'.holder] \in Int /\ TTL \in Nat
          BY <1>1, <4>2, <4>4, TimeAssumption
        <5>3. ~lock'.torn
          BY <1>1, <4>1
        <5>4. AgeSeenBy(r)' > TTL
          BY <5>1, <5>2, <5>3 DEF AgeSeenBy
        <5> QED
          BY <5>4 DEF Lapsed
      <4> QED
        BY <4>3, <4>4
    <3> QED
      BY <3>1, <3>2 DEF Lapsed
  <2>3. pc[r] = "watching" => lock' # NoLock /\ timer'[r] <= lock'.age
    <3> SUFFICES ASSUME pc[r] = "watching"
                 PROVE  lock' # NoLock /\ timer'[r] <= lock'.age
      OBVIOUS
    <3>1. lock # NoLock /\ timer[r] <= lock.age /\ timer[r] \in Nat
      BY <2>1 DEF LookStands, TypeOK
    <3>2. timer'[r] = IF timer[r] < Observe THEN timer[r] + 1 ELSE timer[r]
      BY <2>1 DEF Tick, Horizon
    <3>3. lock'.age = MaxAge \/ lock'.age = lock.age + 1
      BY <1>1, <3>1, AgedFacts DEF TypeOK
    <3>4. timer'[r] <= lock'.age
      BY <1>1, <3>1, <3>2, <3>3, TimeAssumption DEF TypeOK
    <3>5. lock'.age # 0
      BY <1>1, <3>3, TimeAssumption
    <3> QED
      BY <3>4, <3>5 DEF NoLock
  <2> QED
    BY <1>1, <2>1, <2>2, <2>3 DEF LookStands
<1> QED
  BY <1>1, <1>2, <1>3 DEF LockInv, Looked

----------------------------------------------------------------------------
(* Who owns the state document *)

\* A step of r that ends no run and stores no document is one of ExclusiveState:
\* r comes to own the document, or somebody is overtaken, or nothing is seen.
LEMMA TakesOrNotMaps ==
  ASSUME TypeOK, LockInv, LockInv', NEW r \in Runs, NEW place,
         pc' = pc \/ Go(r, place), Holding(r) => pc' = pc \/ place \in Working,
         UNCHANGED view, overtaken \subseteq overtaken'
  PROVE  [Exclusive!Next]_(Exclusive!vars)
<1>1. \A q \in Runs \ {r} : Holding(q)' <=> Holding(q)
  BY DEF Holding, Go, TypeOK
<1>2. Holding(r) => Holding(r)'
  BY DEF Holding, Go, TypeOK
<1>3. CASE Holding(r) <=> Holding(r)'
  <2>1. Owners' = Owners /\ Behind' = Behind
    BY <1>1, <1>3 DEF Owners, Behind
  <2> QED
    BY <2>1 DEF Exclusive!Next, Exclusive!Overtake
<1>4. CASE ~Holding(r) /\ Holding(r)'
  <2>1. Owners' = Owners \cup {r} /\ r \notin Owners
    BY <1>1, <1>4 DEF Owners
  <2>2. view[r] # "stale"
    BY <1>4 DEF LockInv, Known
  <2>3. Behind' = Behind
    BY <1>1, <2>2 DEF Behind
  <2>4. \A p, q \in Owners' \ overtaken' : p = q
    BY DEF Owners, LockInv, Held, Claims
  <2>5. Exclusive!Acquire(r)
    BY <2>1, <2>3, <2>4 DEF Exclusive!Acquire
  <2> QED
    BY <2>5 DEF Exclusive!Next
<1> QED
  BY <1>2, <1>3, <1>4

\* A run that ends, or is killed, owns the document no more.
LEMMA EndMaps ==
  ASSUME TypeOK, NEW r \in Runs, NEW place \in {"releasing", "over"},
         Go(r, place), Forget(r), UNCHANGED <<lock, overtaken>>
  PROVE  [Exclusive!Next]_(Exclusive!vars)
<1>1. ~Holding(r)'
  BY DEF Holding, Working, Go, TypeOK
<1>2. \A q \in Runs \ {r} : (Holding(q)' <=> Holding(q)) /\ view'[q] = view[q]
  BY DEF Holding, Go, Forget, TypeOK
<1>3. Owners' = Owners \ {r} /\ Behind' = Behind \ {r}
  BY <1>1, <1>2 DEF Owners, Behind
<1> QED
  BY <1>3 DEF Exclusive!Next, Exclusive!Release

\* The steps that the stores share, seen from the document.
LEMMA SharedMaps ==
  ASSUME TypeOK, LockInv, LockInv', NEW r \in Runs, SharedStep(r) \/ Crash(r)
  PROVE  [Exclusive!Next]_(Exclusive!vars)
<1>1. CASE Start(r) \/ Look(r) \/ Poll(r) \/ ReleaseRead(r)
  <2>1. PICK place : Go(r, place)
    BY <1>1 DEF Start, Look, Poll, ReleaseRead
  <2>2. ~Holding(r) /\ UNCHANGED <<view, overtaken>>
    BY <1>1 DEF Start, Look, Poll, ReleaseRead, Holding, Working
  <2> QED
    BY <2>1, <2>2, TakesOrNotMaps
<1>2. CASE RenewRead(r)
  <2>1. pc' = pc \/ Go(r, "renewing")
    BY <1>2 DEF RenewRead
  <2>2. UNCHANGED <<view, overtaken>>
    BY <1>2 DEF RenewRead
  <2> QED
    BY <2>1, <2>2, TakesOrNotMaps DEF Working
<1>3. CASE Finish(r) \/ Crash(r)
  BY <1>3, EndMaps DEF Finish, Crash
<1>4. CASE Load(r)
  <2>1. \A q \in Runs : (Holding(q)' <=> Holding(q)) /\ (view'[q] = "stale" <=> view[q] = "stale")
    BY <1>4 DEF Load, leaseVars, Holding, TypeOK
  <2>2. Owners' = Owners /\ Behind' = Behind /\ overtaken' = overtaken
    BY <1>4, <2>1 DEF Load, leaseVars, Owners, Behind
  <2> QED
    BY <2>2 DEF Exclusive!Next, Exclusive!Overtake
<1>5. CASE Persist(r)
  <2>1. /\ r \in Owners /\ Owners' = Owners /\ overtaken' = overtaken
        /\ \A q \in Runs : Holding(q)' <=> Holding(q)
    BY <1>5 DEF Persist, leaseVars, Owners, Holding
  <2>2. view'[r] # "stale"
    BY <1>5 DEF Persist
  <2>3. Behind' \subseteq Owners \ {r}
    BY <2>1, <2>2 DEF Behind, Owners
  <2>4. overtaken = {} => Behind' = {}
    BY <2>1 DEF LockInv, Known, Behind
  <2> QED
    BY <2>1, <2>3, <2>4 DEF Exclusive!Next, Exclusive!Persist, Owners
<1> QED
  BY <1>1, <1>2, <1>3, <1>4, <1>5 DEF SharedStep

\* Time does not change who owns the document.
LEMMA TickMaps ==
  ASSUME Tick \/ UNCHANGED vars
  PROVE  [Exclusive!Next]_(Exclusive!vars)
<1>1. Owners' = Owners /\ Behind' = Behind /\ overtaken' = overtaken
  BY DEF Tick, vars, leaseVars, Owners, Behind, Holding
<1> QED
  BY <1>1 DEF Exclusive!vars

\* At the start nobody owns it.
LEMMA InitMaps == Init => Exclusive!Init
BY DEF Init, Exclusive!Init, Owners, Behind, Holding, Working

----------------------------------------------------------------------------
(* The object store *)

\* What a request may do: it is applied only when its condition holds, and is
\* told to be done, or is made again, only when it was applied.
LEMMA RequestFacts ==
  ASSUME NEW r, NEW holds \in BOOLEAN, NEW req \in Request(r, holds)
  PROVE  /\ req.applied \in BOOLEAN
         /\ req.answer \in {"done", "precondition", "error", "lost"}
         /\ req.applied => holds
         /\ req.answer \in {"done", "lost"} => req.applied
         /\ req.answer = "lost" => repeats[r] < MaxRepeats
<1>1. \/ req = [applied |-> holds, answer |-> IF holds THEN "done" ELSE "precondition"]
      \/ req = [applied |-> FALSE, answer |-> "error"]
      \/ holds /\ req = [applied |-> TRUE, answer |-> IF repeats[r] < MaxRepeats THEN "lost" ELSE "error"]
  BY DEF Request
<1>2. CASE holds /\ req = [applied |-> TRUE, answer |-> "done"]
  BY <1>2
<1>3. CASE ~holds /\ req = [applied |-> FALSE, answer |-> "precondition"]
  BY <1>3
<1>4. CASE req = [applied |-> FALSE, answer |-> "error"]
  BY <1>4
<1>5. CASE holds /\ repeats[r] < MaxRepeats /\ req = [applied |-> TRUE, answer |-> "lost"]
  BY <1>5
<1>6. CASE holds /\ req = [applied |-> TRUE, answer |-> "error"]
  BY <1>6
<1>7. holds = TRUE \/ holds = FALSE
  OBVIOUS
<1> QED
  BY <1>1, <1>2, <1>3, <1>4, <1>5, <1>6, <1>7

\* An answer ends the request or has it made again.
LEMMA AnsweredFacts ==
  ASSUME S3TypeOK, NEW r \in Runs, NEW answer, NEW place \in Places,
         answer = "lost" => repeats[r] < MaxRepeats,
         Answered(r, answer, place)
  PROVE  /\ pc' \in [Runs -> Places] /\ repeats' \in [Runs -> 0..MaxRepeats]
         /\ IF answer = "lost" THEN pc' = pc ELSE Go(r, place)
<1>1. pc \in [Runs -> Places] /\ repeats \in [Runs -> 0..MaxRepeats] /\ MaxRepeats \in Nat
  BY RepeatAssumption DEF S3TypeOK, TypeOK
<1>2. CASE answer = "lost"
  <2>1. repeats[r] + 1 \in 0..MaxRepeats
    BY <1>1, <1>2
  <2>2. repeats' = [repeats EXCEPT ![r] = repeats[r] + 1] /\ pc' = pc
    BY <1>2 DEF Answered
  <2>3. repeats' \in [Runs -> 0..MaxRepeats]
    BY <1>1, <2>1, <2>2
  <2>4. pc' \in [Runs -> Places]
    BY <1>1, <2>2
  <2> QED
    BY <1>2, <2>2, <2>3, <2>4, Zenon
<1>3. CASE answer # "lost"
  <2>1. repeats' = [repeats EXCEPT ![r] = 0] /\ Go(r, place) /\ 0 \in 0..MaxRepeats
    BY <1>1, <1>3 DEF Answered
  <2> QED
    BY <1>1, <1>3, <2>1 DEF Go
<1> QED
  BY <1>2, <1>3

\* A write of the object leaves a lock, and who knows it.
LEMMA WriteType ==
  ASSUME TypeOK, NEW lease, NEW victims \in SUBSET Runs,
         lease \in [holder : Runs \cup {NoRun}, torn : BOOLEAN, age : 0..MaxAge],
         Write(lease, victims) \/ Unwritten
  PROVE  /\ lock' \in [holder : Runs \cup {NoRun}, torn : BOOLEAN, age : 0..MaxAge]
         /\ fresh' \subseteq Runs /\ overtaken' \subseteq Runs
BY DEF TypeOK, Write, Unwritten

\* Type correctness of the requests.
LEMMA RequestType ==
  ASSUME S3TypeOK, NEW r \in Runs, RequestStep(r)
  PROVE  S3TypeOK'
<1> TypeOK
  BY DEF S3TypeOK
<1> DEFINE Lock == [holder : Runs \cup {NoRun}, torn : BOOLEAN, age : 0..MaxAge]
<1>1. NoLock \in Lock /\ Fresh(r) \in Lock
  <2>1. NoLock \in Lock
    BY TimeAssumption DEF NoLock
  <2>2. Fresh(r) \in Lock
    BY FreshType
  <2> QED
    BY <2>1, <2>2
<1>2. {"holding", "look", "over"} \subseteq Places
  BY DEF Places, Guarding, Working
<1>3. \A applied \in BOOLEAN :
        (Swap(r, applied) => lock' \in Lock /\ fresh' \subseteq Runs /\ overtaken' \subseteq Runs)
  BY <1>1, WriteType, LosesToRuns DEF Swap
<1>4. Restart(r) \/ UNCHANGED timer => timer' \in [Runs -> 0..MaxAge]
  BY TimeAssumption DEF Restart, TypeOK
<1>5. CASE Create(r)
  <2>1. PICK put \in Request(r, lock = NoLock) :
          /\ IF put.applied THEN Write(Fresh(r), {}) ELSE Unwritten
          /\ Answered(r, put.answer, CASE put.answer = "done" -> "holding"
                                       [] put.answer = "precondition" -> "look"
                                       [] OTHER -> "over")
    BY <1>5 DEF Create
  <2>2. PICK place \in Places : Answered(r, put.answer, place)
    BY <1>2, <2>1
  <2>3. pc' \in [Runs -> Places] /\ repeats' \in [Runs -> 0..MaxRepeats]
    BY <2>2, RequestFacts, AnsweredFacts
  <2>4. lock' \in Lock /\ fresh' \subseteq Runs /\ overtaken' \subseteq Runs
    BY <1>1, <2>1, WriteType
  <2>5. timer' \in [Runs -> 0..MaxAge] /\ UNCHANGED <<lost, view>>
    BY <1>4, <1>5 DEF Create
  <2> QED
    BY <2>3, <2>4, <2>5 DEF S3TypeOK, TypeOK
<1>6. CASE Steal(r)
  <2>1. PICK put \in Request(r, Matches(r)) :
          /\ Swap(r, put.applied)
          /\ Answered(r, put.answer, IF put.answer = "done" THEN "holding" ELSE "over")
    BY <1>6 DEF Steal
  <2>2. PICK place \in Places : Answered(r, put.answer, place)
    BY <1>2, <2>1
  <2>3. /\ pc' \in [Runs -> Places] /\ repeats' \in [Runs -> 0..MaxRepeats]
        /\ put.applied \in BOOLEAN
    BY <2>2, RequestFacts, AnsweredFacts DEF Matches
  <2>4. timer' \in [Runs -> 0..MaxAge] /\ UNCHANGED <<lost, view>>
    BY <1>4, <1>6 DEF Steal
  <2> QED
    BY <1>3, <2>1, <2>3, <2>4 DEF S3TypeOK, TypeOK
<1>7. CASE RenewWrite(r)
  <2>1. PICK put \in Request(r, Matches(r)) :
          /\ Swap(r, put.applied)
          /\ Answered(r, put.answer, "holding")
          /\ lost' = [lost EXCEPT ![r] = @ \/ (put.answer = "precondition" /\ lock # NoLock)]
    BY <1>7 DEF RenewWrite
  <2>2. /\ pc' \in [Runs -> Places] /\ repeats' \in [Runs -> 0..MaxRepeats]
        /\ put.applied \in BOOLEAN
    BY <1>2, <2>1, RequestFacts, AnsweredFacts DEF Matches
  <2>3. lost' \in [Runs -> BOOLEAN]
    BY <2>1, Zenon DEF TypeOK
  <2>4. UNCHANGED <<timer, view>>
    BY <1>7 DEF RenewWrite
  <2> QED
    BY <1>3, <2>1, <2>2, <2>3, <2>4 DEF S3TypeOK, TypeOK
<1>8. CASE Remove(r)
  <2>1. PICK delete \in Request(r, TRUE) :
          /\ IF delete.applied THEN Write(NoLock, IF r \in fresh THEN {} ELSE LosesTo(r)) ELSE Unwritten
          /\ Answered(r, delete.answer, "over")
    BY <1>8 DEF Remove
  <2>2. pc' \in [Runs -> Places] /\ repeats' \in [Runs -> 0..MaxRepeats]
    BY <1>2, <2>1, RequestFacts, AnsweredFacts
  <2>3. lock' \in Lock /\ fresh' \subseteq Runs /\ overtaken' \subseteq Runs
    BY <1>1, <2>1, WriteType, LosesToRuns
  <2>4. UNCHANGED <<timer, lost, view>>
    BY <1>8 DEF Remove
  <2> QED
    BY <2>2, <2>3, <2>4 DEF S3TypeOK, TypeOK
<1> QED
  BY <1>5, <1>6, <1>7, <1>8 DEF RequestStep

\* The type invariant of the lease over the object store (S3Lock!S3TypeOK).
THEOREM S3TypeCorrect == Spec => []S3TypeOK
<1>1. S3Init => S3TypeOK
  BY InitType, RepeatAssumption DEF S3Init, S3TypeOK
<1>2. S3TypeOK /\ [Next]_s3Vars => S3TypeOK'
  <2> SUFFICES ASSUME S3TypeOK, [Next]_s3Vars
               PROVE  S3TypeOK'
    OBVIOUS
  <2>1. CASE (Tick \/ \E r \in Runs : SharedStep(r)) /\ UNCHANGED repeats
    BY <2>1, TickType, SharedType DEF S3TypeOK
  <2>2. ASSUME NEW r \in Runs, Crash(r), repeats' = [repeats EXCEPT ![r] = 0]
        PROVE  S3TypeOK'
    BY <2>2, SharedType, RepeatAssumption DEF S3TypeOK
  <2>3. CASE \E r \in Runs : RequestStep(r)
    BY <2>3, RequestType
  <2>4. CASE UNCHANGED s3Vars
    BY <2>4 DEF s3Vars, vars, leaseVars, S3TypeOK, TypeOK
  <2> QED
    BY <2>1, <2>2, <2>3, <2>4 DEF Next
<1> QED
  BY <1>1, <1>2, PTL DEF Spec

\* The requests preserve the invariant: a PUT is applied over no lock, over the
\* run's own lease, or over one that lapsed; a DELETE that removes another's
\* lease was not told of it.
LEMMA RequestInv ==
  ASSUME S3TypeOK, LockInv, NEW r \in Runs, RequestStep(r)
  PROVE  LockInv'
<1> TypeOK
  BY DEF S3TypeOK
<1>1. CASE Create(r)
  <2>1. PICK put \in Request(r, lock = NoLock) :
          /\ IF put.applied THEN Write(Fresh(r), {}) ELSE Unwritten
          /\ Answered(r, put.answer, CASE put.answer = "done" -> "holding"
                                       [] put.answer = "precondition" -> "look"
                                       [] OTHER -> "over")
          /\ IF put.answer = "lost" THEN UNCHANGED timer ELSE Restart(r)
    BY <1>1 DEF Create
  <2>2. pc[r] = "create" /\ UNCHANGED view /\ ~Holding(r) /\ ~Claims(r)
    BY <1>1 DEF Create, Holding, Claims, Working
  <2>3. PICK place \in {"holding", "look", "over"} :
          /\ Answered(r, put.answer, place)
          /\ place = "holding" => put.answer = "done"
    BY <2>1
  <2>4. /\ IF put.answer = "lost" THEN pc' = pc ELSE Go(r, place)
        /\ put.applied \in BOOLEAN
        /\ put.applied => lock = NoLock
        /\ put.answer \in {"done", "lost"} => put.applied
    BY <2>3, RequestFacts, AnsweredFacts DEF Places, Guarding, Working
  <2>5. \A q \in Runs \ {r} : Claims(q)' <=> Claims(q)
    BY <2>4 DEF Claims, Holding, Go, TypeOK
  <2>6. CASE put.applied
    BY <2>1, <2>2, <2>4, <2>5, <2>6, NobodyHoldsNoLock, WriteKeeps DEF LockInv, Fresh
  <2>7. CASE ~put.applied
    <3>1. place # "holding" /\ Unwritten /\ Go(r, place)
      BY <2>1, <2>3, <2>4, <2>7
    <3>2. LookStands(r)'
      BY <2>3, <3>1 DEF LookStands, Go, TypeOK
    <3> QED
      BY <2>1, <2>2, <2>3, <3>1, <3>2, MoveKeeps DEF Unwritten, Working
  <2> QED
    BY <2>4, <2>6, <2>7
<1>2. CASE Steal(r) \/ RenewWrite(r)
  <2>1. PICK put \in Request(r, Matches(r)), place \in {"holding", "over"} :
          /\ Swap(r, put.applied)
          /\ Answered(r, put.answer, place)
          /\ pc[r] = "stealing" /\ place = "holding" => put.answer = "done"
          /\ pc[r] = "renewing" => place = "holding"
    BY <1>2 DEF Steal, RenewWrite
  <2>2. pc[r] \in {"stealing", "renewing"} /\ UNCHANGED view /\ (Restart(r) \/ UNCHANGED timer)
    BY <1>2 DEF Steal, RenewWrite
  <2>3. /\ IF put.answer = "lost" THEN pc' = pc ELSE Go(r, place)
        /\ put.applied \in BOOLEAN
        /\ put.applied => Matches(r)
        /\ put.answer \in {"done", "lost"} => put.applied
    BY <2>1, RequestFacts, AnsweredFacts DEF Places, Guarding, Working, Matches
  <2>4. Holding(r) => pc[r] = "renewing" /\ place = "holding"
    BY <2>1, <2>2 DEF Holding, Working
  <2>5. \A q \in Runs \ {r} : Claims(q)' <=> Claims(q)
    BY <2>3 DEF Claims, Holding, Go, TypeOK
  <2>6. CASE put.applied
    <3>1. Write(Fresh(r), IF Lapsed(r) THEN LosesTo(r) ELSE {})
      BY <2>1, <2>3, <2>6 DEF Swap
    <3>2. LookStands(r)
      BY <2>3, <2>6 DEF Matches, LockInv, Looked
    <3>3. ASSUME NEW q \in Runs \ {r}, Claims(q)', q \notin overtaken
          PROVE  Lapsed(r) /\ q \in LosesTo(r)
      <4>1. lock.holder = q /\ Claims(q)
        BY <2>5, <3>3 DEF LockInv, Held
      <4>2. pc[r] # "renewing"
        BY <3>2, <4>1 DEF LookStands
      <4> QED
        BY <2>2, <3>2, <4>1, <4>2 DEF LookStands, LosesTo
    <3>4. \A q \in Runs : Claims(q)' /\ q \notin overtaken \cup (IF Lapsed(r) THEN LosesTo(r) ELSE {})
            => Fresh(r).holder = q
      BY <3>3 DEF Fresh
    <3>5. Fresh(r).holder \in Runs
      BY DEF Fresh
    <3> QED
      BY <2>2, <2>3, <2>4, <3>1, <3>4, <3>5, WriteKeeps DEF Working
  <2>7. CASE ~put.applied
    <3>1. Unwritten /\ Go(r, place) /\ pc'[r] = place
      BY <2>1, <2>3, <2>7 DEF Swap, Go, TypeOK
    <3>2. LookStands(r)'
      BY <2>1, <3>1 DEF LookStands
    <3>3. place = "holding" => Claims(r)
      BY <2>1, <2>2, <2>3, <2>7 DEF Claims, Holding, Working
    <3> QED
      BY <2>2, <2>4, <3>1, <3>2, <3>3, MoveKeeps DEF Unwritten, Working
  <2> QED
    BY <2>3, <2>6, <2>7
<1>3. CASE Remove(r)
  <2>1. PICK delete \in Request(r, TRUE) :
          /\ IF delete.applied THEN Write(NoLock, IF r \in fresh THEN {} ELSE LosesTo(r)) ELSE Unwritten
          /\ Answered(r, delete.answer, "over")
    BY <1>3 DEF Remove
  <2>2. pc[r] = "removing" /\ UNCHANGED <<view, timer>> /\ ~Holding(r) /\ ~Claims(r)
    BY <1>3 DEF Remove, Holding, Claims, Working
  <2>3. /\ IF delete.answer = "lost" THEN pc' = pc ELSE Go(r, "over")
        /\ delete.applied \in BOOLEAN
        /\ delete.answer \in {"done", "lost"} => delete.applied
    BY <2>1, RequestFacts, AnsweredFacts DEF Places
  <2> DEFINE victims == IF r \in fresh THEN {} ELSE LosesTo(r)
  <2>4. CASE delete.applied
    <3>1. Write(NoLock, victims)
      BY <2>1, <2>4
    <3>2. ASSUME NEW q \in Runs, Claims(q)', q \notin overtaken \cup victims
          PROVE  FALSE
      <4>1. q # r /\ Claims(q)
        BY <2>2, <2>3, <3>2 DEF Claims, Holding, Working, Go, TypeOK
      <4>2. lock.holder = q
        BY <3>2, <4>1 DEF LockInv, Held
      <4>3. r \notin fresh
        BY <2>2, <4>1, <4>2 DEF LockInv, Looked, LookStands
      <4> QED
        BY <3>2, <4>1, <4>2, <4>3 DEF LosesTo
    <3> HIDE DEF victims
    <3> QED
      BY <2>2, <2>3, <3>1, <3>2, WriteKeeps
  <2>5. CASE ~delete.applied
    <3>1. Unwritten /\ Go(r, "over") /\ pc'[r] = "over"
      BY <2>1, <2>3, <2>5 DEF Go, TypeOK
    <3>2. LookStands(r)'
      BY <3>1 DEF LookStands
    <3> QED
      BY <2>2, <3>1, <3>2, MoveKeeps DEF Unwritten, Working
  <2> QED
    BY <2>3, <2>4, <2>5
<1> QED
  BY <1>1, <1>2, <1>3 DEF RequestStep

\* The invariant over the object store.
LEMMA S3InvHolds == Spec => []LockInv
<1>1. S3Init => LockInv
  BY InitLockInv DEF S3Init
<1>2. S3TypeOK /\ LockInv /\ [Next]_s3Vars => LockInv'
  <2> SUFFICES ASSUME S3TypeOK, LockInv, [Next]_s3Vars
               PROVE  LockInv'
    OBVIOUS
  <2> TypeOK
    BY DEF S3TypeOK
  <2>1. CASE UNCHANGED s3Vars
    BY <2>1, SameInv DEF s3Vars
  <2> QED
    BY <2>1, TickInv, SharedInv, RequestInv DEF Next
<1> QED
  BY <1>1, <1>2, S3TypeCorrect, PTL DEF Spec

\* Two runs work at the same time only when one of them was overtaken, however
\* often a request is repeated or a renewal fails (Lease!AloneUnlessOvertaken).
THEOREM S3Alone == Spec => []AloneUnlessOvertaken
<1>1. LockInv => AloneUnlessOvertaken
  BY OneClaims DEF LockInv, AloneUnlessOvertaken, Claims
<1> QED
  BY <1>1, S3InvHolds, PTL

\* A renewal replaces the run's own lease, whatever happens in between
\* (Lease!RenewsOwnOnly): only the run itself writes its token, and it does so
\* while it renews over the version it read alone.
THEOREM S3RenewsOwnOnly == Spec => RenewsOwnOnly
<1>1. S3TypeOK /\ LockInv /\ [Next]_s3Vars
        => [\A r \in Runs :
              pc[r] = "renewing" /\ lock' # lock /\ lock'.holder = r => lock.holder = r]_vars
  <2> SUFFICES ASSUME S3TypeOK, LockInv, [Next]_s3Vars, NEW r \in Runs,
                      pc[r] = "renewing", lock' # lock, lock'.holder = r
               PROVE  lock.holder = r
    OBVIOUS
  <2> TypeOK
    BY DEF S3TypeOK
  <2>1. CASE Tick
    BY <2>1, AgedFacts DEF Tick, TypeOK
  <2>2. ASSUME NEW q \in Runs, SharedStep(q) \/ Crash(q)
        PROVE  FALSE
    BY <2>2 DEF SharedStep, Start, Look, Poll, RenewRead, Finish, ReleaseRead, Load, Persist, Crash, leaseVars
  <2>3. ASSUME NEW q \in Runs, Remove(q)
        PROVE  FALSE
    BY <2>3, RunAssumption DEF Remove, Write, Unwritten, NoLock
  <2>4. ASSUME NEW q \in Runs, Create(q)
        PROVE  FALSE
    BY <2>4 DEF Create, Write, Unwritten, Fresh
  <2>5. ASSUME NEW q \in Runs, Steal(q) \/ RenewWrite(q)
        PROVE  lock.holder = r
    <3>1. PICK put \in Request(q, Matches(q)) : Swap(q, put.applied)
      BY <2>5 DEF Steal, RenewWrite
    <3>2. put.applied /\ q = r
      BY <3>1 DEF Swap, Write, Unwritten, Fresh
    <3>3. r \in fresh
      BY <3>2, RequestFacts DEF Matches
    <3> QED
      BY <3>3 DEF LockInv, Looked, LookStands
  <2>6. CASE UNCHANGED s3Vars
    BY <2>6 DEF s3Vars, vars, leaseVars
  <2> QED
    BY <2>1, <2>2, <2>3, <2>4, <2>5, <2>6 DEF Next, RequestStep
<1> QED
  BY <1>1, S3TypeCorrect, S3InvHolds, PTL DEF Spec, RenewsOwnOnly

\* A request is a step of ExclusiveState.
LEMMA RequestMaps ==
  ASSUME S3TypeOK, LockInv, LockInv', NEW r \in Runs, RequestStep(r)
  PROVE  [Exclusive!Next]_(Exclusive!vars)
<1>1. PICK answer, place :
        /\ Answered(r, answer, place)
        /\ pc[r] = "renewing" => place = "holding"
  BY DEF RequestStep, Create, Steal, RenewWrite, Remove
<1>2. pc' = pc \/ Go(r, place)
  BY <1>1 DEF Answered
<1>3. pc[r] \in {"create", "stealing", "renewing", "removing"} /\ UNCHANGED view
  BY DEF RequestStep, Create, Steal, RenewWrite, Remove
<1>4. Holding(r) => place \in Working
  BY <1>1, <1>3 DEF Holding, Working
<1>5. overtaken \subseteq overtaken'
  BY DEF RequestStep, Create, Steal, RenewWrite, Remove, Swap, Write, Unwritten
<1> QED
  BY <1>2, <1>3, <1>4, <1>5, TakesOrNotMaps DEF S3TypeOK

\* The lease over the object store implements the ownership of the state document
\* (Lease!ImplementsExclusiveState), whatever requests are repeated or fail.
THEOREM S3ImplementsExclusiveState == Spec => ImplementsExclusiveState
<1>1. S3Init => Exclusive!Init
  BY InitMaps DEF S3Init
<1>2. S3TypeOK /\ LockInv /\ LockInv' /\ [Next]_s3Vars => [Exclusive!Next]_(Exclusive!vars)
  <2> SUFFICES ASSUME S3TypeOK, LockInv, LockInv', [Next]_s3Vars
               PROVE  [Exclusive!Next]_(Exclusive!vars)
    OBVIOUS
  <2> TypeOK
    BY DEF S3TypeOK
  <2>1. CASE UNCHANGED s3Vars
    BY <2>1, TickMaps DEF s3Vars
  <2> QED
    BY <2>1, TickMaps, SharedMaps, RequestMaps DEF Next
<1> QED
  BY <1>1, <1>2, S3TypeCorrect, S3InvHolds, PTL DEF Spec, ImplementsExclusiveState, Exclusive!Spec

----------------------------------------------------------------------------
(* The lock file *)

\* The temporary file holds a run's lease.
TmpOwned == tmp # NoLock => tmp.holder \in Runs

FileInv == LockInv /\ TmpOwned

\* Those who lose the lock to a rename are runs.
LEMMA RenameVictims ==
  ASSUME NEW r \in Runs, NEW holder
  PROVE  (IF r \in fresh /\ ~Lapsed(r) THEN {} ELSE LosesTo(holder)) \cup ({r} \ {holder}) \in SUBSET Runs
BY LosesToRuns

\* Type correctness of the steps of the file system.
LEMMA StoreType ==
  ASSUME LocalTypeOK, NEW r \in Runs, StoreStep(r)
  PROVE  LocalTypeOK'
<1> TypeOK
  BY DEF LocalTypeOK
<1> DEFINE Lock == [holder : Runs \cup {NoRun}, torn : BOOLEAN, age : 0..MaxAge]
<1> DEFINE Tmp == [holder : Runs \cup {NoRun}, torn : {FALSE}, age : 0..MaxAge]
<1>1. NoLock \in Tmp /\ NoLock \in Lock
  BY TimeAssumption DEF NoLock
<1>2. Fresh(r) \in Tmp /\ Fresh(r) \in Lock
  BY FreshType
<1>3. Torn(r) \in Lock
  <2>1. \A lease \in Tmp : [lease EXCEPT !.torn = TRUE] \in Lock
    OBVIOUS
  <2> QED
    BY <1>2, <2>1 DEF Torn
<1>4. tmp \in Tmp /\ tmp \in Lock
  BY DEF LocalTypeOK
<1>5. Restart(r) \/ UNCHANGED timer => timer' \in [Runs -> 0..MaxAge]
  BY TimeAssumption DEF Restart, TypeOK
<1>6. \A place \in Places : Go(r, place) => pc' \in [Runs -> Places]
  BY DEF Go, TypeOK
<1>7. {"holding", "look", "over", "writing", "renaming", "rewriting"} \subseteq Places
  BY DEF Places, Guarding, Working
<1>8. ASSUME NEW lease \in Lock, NEW victims \in SUBSET Runs, Write(lease, victims) \/ Unwritten
      PROVE  lock' \in Lock /\ fresh' \subseteq Runs /\ overtaken' \subseteq Runs
  BY <1>8, WriteType
<1>9. Rename(r) \/ RenamedAway
        => tmp' \in Tmp /\ lock' \in Lock /\ fresh' \subseteq Runs /\ overtaken' \subseteq Runs
  <2>1. CASE Rename(r)
    <3>1. PICK victims \in SUBSET Runs : Write(tmp, victims) /\ tmp' = NoLock
      BY <2>1, LosesToRuns, RenameVictims DEF Rename
    <3> QED
      BY <1>1, <1>4, <1>8, <3>1
  <2>2. CASE RenamedAway
    BY <1>1, <1>4, <1>8, <2>2 DEF RenamedAway
  <2> QED
    BY <2>1, <2>2
<1>10. UNCHANGED <<lost, view>>
  BY DEF StoreStep, CreateFile, WriteFile, StealTmp, RenewTmp, WriteTmp, StealRename, RenewRename, RemoveFile
<1>11. Restart(r) \/ UNCHANGED timer
  BY DEF StoreStep, CreateFile, WriteFile, StealTmp, RenewTmp, WriteTmp, StealRename, RenewRename, RemoveFile
<1>12. pc' \in [Runs -> Places]
  BY <1>6, <1>7
     DEF StoreStep, CreateFile, WriteFile, StealTmp, RenewTmp, WriteTmp, StealRename, RenewRename, RemoveFile
<1>13. tmp' \in Tmp
  BY <1>2, <1>4, <1>9
     DEF StoreStep, CreateFile, WriteFile, StealTmp, RenewTmp, WriteTmp, StealRename, RenewRename, RemoveFile
<1>14. lock' \in Lock /\ fresh' \subseteq Runs /\ overtaken' \subseteq Runs
  <2>1. CASE CreateFile(r) \/ WriteFile(r)
    BY <2>1, <1>2, <1>3, <1>8 DEF CreateFile, WriteFile
  <2>2. CASE StealTmp(r) \/ RenewTmp(r)
    BY <2>2, <1>1, <1>8 DEF StealTmp, RenewTmp, WriteTmp
  <2>3. CASE StealRename(r) \/ RenewRename(r)
    BY <2>3, <1>9 DEF StealRename, RenewRename
  <2>4. CASE RemoveFile(r)
    <3>1. PICK victims \in SUBSET Runs : Write(NoLock, victims) \/ Unwritten
      BY <2>4, LosesToRuns DEF RemoveFile
    <3> QED
      BY <1>1, <1>8, <3>1
  <2> QED
    BY <2>1, <2>2, <2>3, <2>4 DEF StoreStep
<1> QED
  BY <1>5, <1>10, <1>11, <1>12, <1>13, <1>14 DEF LocalTypeOK, TypeOK

\* The type invariant of the lease over the lock file (LocalLock!LocalTypeOK).
THEOREM FileTypeCorrect == LocalSpec => []LocalTypeOK
<1>1. LocalInit => LocalTypeOK
  BY InitType, TimeAssumption DEF LocalInit, LocalTypeOK, NoLock
<1>2. LocalTypeOK /\ [LocalNext]_localVars => LocalTypeOK'
  <2> SUFFICES ASSUME LocalTypeOK, [LocalNext]_localVars
               PROVE  LocalTypeOK'
    OBVIOUS
  <2>1. CASE Tick /\ tmp' = Aged(tmp)
    <3>1. tmp' \in [holder : Runs \cup {NoRun}, torn : {FALSE}, age : 0..MaxAge]
      <4>1. tmp \in [holder : Runs \cup {NoRun}, torn : BOOLEAN, age : 0..MaxAge] /\ tmp.torn = FALSE
        BY DEF LocalTypeOK
      <4>2. /\ Aged(tmp) \in [holder : Runs \cup {NoRun}, torn : BOOLEAN, age : 0..MaxAge]
            /\ Aged(tmp).torn = FALSE
        BY <4>1, AgedFacts
      <4> QED
        BY <2>1, <4>2
    <3> QED
      BY <2>1, <3>1, TickType DEF LocalTypeOK
  <2>2. CASE (\E r \in Runs : SharedStep(r) \/ Crash(r)) /\ UNCHANGED tmp
    BY <2>2, SharedType DEF LocalTypeOK
  <2>3. CASE \E r \in Runs : StoreStep(r)
    BY <2>3, StoreType
  <2>4. CASE UNCHANGED localVars
    BY <2>4 DEF localVars, vars, leaseVars, LocalTypeOK, TypeOK
  <2> QED
    BY <2>1, <2>2, <2>3, <2>4 DEF LocalNext
<1> QED
  BY <1>1, <1>2, PTL DEF LocalSpec

\* The steps of the file system preserve the invariant: a file is created over no
\* lock; who renames over another's lease watched it lapse, or has it overtaken.
LEMMA StoreInv ==
  ASSUME LocalTypeOK, FileInv, NEW r \in Runs, StoreStep(r)
  PROVE  LockInv'
<1> TypeOK /\ LockInv
  BY DEF LocalTypeOK, FileInv
<1>1. CASE CreateFile(r)
  <2>1. /\ pc[r] = "create" /\ UNCHANGED <<timer, view>> /\ ~Holding(r) /\ ~Claims(r)
    BY <1>1 DEF CreateFile, Holding, Claims, Working
  <2>2. CASE lock = NoLock /\ Write(Torn(r), {}) /\ Go(r, "writing")
    <3>1. Torn(r).holder = r
      BY DEF Torn, Fresh
    <3>2. \A q \in Runs \ {r} : Claims(q)' => Claims(q)
      BY <2>2 DEF Claims, Holding, Go, TypeOK
    <3>3. \A q \in Runs : Claims(q)' /\ q \notin overtaken \cup {} => Torn(r).holder = q
      BY <2>2, <3>1, <3>2, NobodyHoldsNoLock DEF LockInv
    <3> QED
      BY <2>1, <2>2, <3>1, <3>3, WriteKeeps
  <2>3. ASSUME NEW place \in {"look", "over"}, Go(r, place), Unwritten
        PROVE  LockInv'
    <3>1. LookStands(r)'
      BY <2>3 DEF LookStands, Go, TypeOK
    <3> QED
      BY <2>1, <2>3, <3>1, MoveKeeps DEF Unwritten, Working
  <2> QED
    BY <1>1, <2>2, <2>3 DEF CreateFile
<1>2. CASE WriteFile(r)
  <2>1. /\ pc[r] = "writing" /\ Go(r, "holding") /\ Restart(r) /\ UNCHANGED view /\ Claims(r) /\ ~Holding(r)
    BY <1>2 DEF WriteFile, Claims, Holding, Working
  <2>2. CASE lock.holder = r /\ Write(Fresh(r), {})
    <3>1. \A q \in Runs : Claims(q)' => Claims(q)
      BY <2>1 DEF Claims, Holding, Go, TypeOK
    <3>2. Fresh(r).holder = r
      BY DEF Fresh
    <3>3. \A q \in Runs : Claims(q)' /\ q \notin overtaken \cup {} => Fresh(r).holder = q
      BY <2>2, <3>1, <3>2 DEF LockInv, Held
    <3> QED
      BY <2>1, <2>2, <3>2, <3>3, WriteKeeps
  <2>3. CASE Unwritten
    <3>1. LookStands(r)'
      BY <2>1 DEF LookStands, Go, TypeOK
    <3> QED
      BY <2>1, <2>3, <3>1, MoveKeeps DEF Unwritten, Working
  <2> QED
    BY <1>2, <2>2, <2>3 DEF WriteFile
<1>3. CASE StealTmp(r) \/ RenewTmp(r)
  <2>1. Unwritten /\ UNCHANGED <<timer, view>>
    BY <1>3 DEF StealTmp, RenewTmp, WriteTmp
  <2>2. PICK place :
          /\ Go(r, place)
          /\ \/ pc[r] = "stealing" /\ place \in {"renaming", "over"}
             \/ pc[r] = "renewing" /\ place \in {"rewriting", "holding"}
    BY <1>3 DEF StealTmp, RenewTmp, WriteTmp
  <2>3. pc'[r] = place /\ (Lapsed(r)' <=> Lapsed(r))
    BY <2>1, <2>2 DEF Go, TypeOK, Unwritten, Lapsed, AgeSeenBy
  <2>4. r \in fresh' => LookStands(r)'
    BY <2>1, <2>2, <2>3 DEF LockInv, Looked, LookStands, Unwritten
  <2> QED
    BY <2>1, <2>2, <2>4, MoveKeeps DEF Unwritten, Working, Holding, Claims
<1>4. CASE StealRename(r) \/ RenewRename(r)
  <2>1. /\ pc[r] \in {"renaming", "rewriting"} /\ UNCHANGED view
        /\ (Restart(r) \/ UNCHANGED timer)
    BY <1>4 DEF StealRename, RenewRename
  <2>2. CASE Rename(r) /\ Go(r, "holding")
    <3> DEFINE victims == (IF r \in fresh /\ ~Lapsed(r) THEN {} ELSE LosesTo(tmp.holder)) \cup ({r} \ {tmp.holder})
    <3>1. Write(tmp, victims) /\ tmp # NoLock
      BY <2>2 DEF Rename
    <3>2. ASSUME NEW q \in Runs, Claims(q)', q \notin overtaken \cup victims
          PROVE  tmp.holder = q
      <4>1. CASE q = r
        BY <3>2, <4>1
      <4>2. CASE q # r
        <5>1. Claims(q)
          BY <2>2, <3>2, <4>2 DEF Claims, Holding, Go, TypeOK
        <5>2. lock.holder = q
          BY <3>2, <5>1 DEF LockInv, Held
        <5>3. r \in fresh => Lapsed(r)
          BY <2>1, <4>2, <5>2 DEF LockInv, Looked, LookStands
        <5> QED
          BY <3>2, <5>1, <5>2, <5>3 DEF LosesTo
      <4> QED
        BY <4>1, <4>2
    <3>3. tmp.holder \in Runs
      BY <3>1 DEF FileInv, TmpOwned
    <3> HIDE DEF victims
    <3> QED
      BY <2>1, <2>2, <3>1, <3>2, <3>3, WriteKeeps DEF Working
  <2>3. ASSUME NEW place \in {"over", "holding"}, Unwritten, Go(r, place),
               (pc[r] = "rewriting" /\ place = "holding") \/ (pc[r] = "renaming" /\ place = "over")
        PROVE  LockInv'
    <3>1. LookStands(r)'
      BY <2>3 DEF LookStands, Go, TypeOK
    <3> QED
      BY <2>1, <2>3, <3>1, MoveKeeps DEF Unwritten, Working, Holding, Claims
  <2> QED
    <3>1. CASE StealRename(r)
      BY <3>1, <2>2, <2>3 DEF StealRename, RenamedAway
    <3>2. CASE RenewRename(r)
      BY <3>2, <2>2, <2>3 DEF RenewRename, RenamedAway
    <3> QED
      BY <1>4, <3>1, <3>2
<1>5. CASE RemoveFile(r)
  <2>1. /\ pc[r] = "removing" /\ Go(r, "over") /\ UNCHANGED <<view, timer>>
        /\ ~Holding(r) /\ ~Claims(r)
    BY <1>5 DEF RemoveFile, Holding, Claims, Working
  <2> DEFINE victims == IF r \in fresh THEN {} ELSE LosesTo(r)
  <2>2. CASE Write(NoLock, victims)
    <3>1. ASSUME NEW q \in Runs, Claims(q)', q \notin overtaken \cup victims
          PROVE  FALSE
      <4>1. q # r /\ Claims(q)
        BY <2>1, <3>1 DEF Claims, Holding, Working, Go, TypeOK
      <4>2. lock.holder = q
        BY <3>1, <4>1 DEF LockInv, Held
      <4>3. r \notin fresh
        BY <2>1, <4>1, <4>2 DEF LockInv, Looked, LookStands
      <4> QED
        BY <3>1, <4>1, <4>2, <4>3 DEF LosesTo
    <3> HIDE DEF victims
    <3> QED
      BY <2>1, <2>2, <3>1, WriteKeeps
  <2>3. CASE Unwritten
    <3>1. LookStands(r)'
      BY <2>1 DEF LookStands, Go, TypeOK
    <3> QED
      BY <2>1, <2>3, <3>1, MoveKeeps DEF Unwritten, Working
  <2> QED
    BY <1>5, <2>2, <2>3 DEF RemoveFile
<1> QED
  BY <1>1, <1>2, <1>3, <1>4, <1>5 DEF StoreStep

\* What is written to the temporary file is the lease of the run that writes it.
LEMMA StoreTmp ==
  ASSUME FileInv, NEW r \in Runs, StoreStep(r)
  PROVE  TmpOwned'
<1>1. tmp' \in {tmp, NoLock, Fresh(r)}
  BY DEF StoreStep, CreateFile, WriteFile, StealTmp, RenewTmp, WriteTmp, StealRename, RenewRename, RemoveFile,
         Rename, RenamedAway
<1> QED
  BY <1>1 DEF FileInv, TmpOwned, Fresh, NoLock

\* The invariant over the lock file.
LEMMA FileInvHolds == LocalSpec => []FileInv
<1>1. LocalInit => FileInv
  BY InitLockInv DEF LocalInit, FileInv, TmpOwned
<1>2. LocalTypeOK /\ FileInv /\ [LocalNext]_localVars => FileInv'
  <2> SUFFICES ASSUME LocalTypeOK, FileInv, [LocalNext]_localVars
               PROVE  FileInv'
    OBVIOUS
  <2> TypeOK /\ LockInv /\ TmpOwned
    BY DEF LocalTypeOK, FileInv
  <2>1. CASE Tick /\ tmp' = Aged(tmp)
    <3>1. tmp' # NoLock => tmp # NoLock /\ tmp'.holder = tmp.holder
      BY <2>1, AgedFacts DEF LocalTypeOK, Aged
    <3> QED
      BY <2>1, <3>1, TickInv DEF FileInv, TmpOwned
  <2>2. CASE (\E r \in Runs : SharedStep(r) \/ Crash(r)) /\ UNCHANGED tmp
    BY <2>2, SharedInv DEF FileInv, TmpOwned
  <2>3. CASE \E r \in Runs : StoreStep(r)
    BY <2>3, StoreInv, StoreTmp DEF FileInv
  <2>4. CASE UNCHANGED localVars
    BY <2>4, SameInv DEF localVars, FileInv, TmpOwned
  <2> QED
    BY <2>1, <2>2, <2>3, <2>4 DEF LocalNext
<1> QED
  BY <1>1, <1>2, FileTypeCorrect, PTL DEF LocalSpec

\* Two runs work at the same time over a lock file only when one of them was
\* overtaken, by whoever renamed the shared temporary file over its lease or
\* removed it (Lease!AloneUnlessOvertaken).
THEOREM FileAlone == LocalSpec => []AloneUnlessOvertaken
<1>1. FileInv => AloneUnlessOvertaken
  BY OneClaims DEF FileInv, LockInv, AloneUnlessOvertaken, Claims
<1> QED
  BY <1>1, FileInvHolds, PTL

\* A step of the file system is a step of ExclusiveState.
LEMMA StoreMaps ==
  ASSUME LocalTypeOK, LockInv, LockInv', NEW r \in Runs, StoreStep(r)
  PROVE  [Exclusive!Next]_(Exclusive!vars)
<1>1. PICK place : Go(r, place) /\ (pc[r] \in {"renewing", "rewriting"} => place \in Working)
  BY DEF StoreStep, CreateFile, WriteFile, StealTmp, RenewTmp, WriteTmp, StealRename, RenewRename, RemoveFile, Working
<1>2. pc[r] # "holding" /\ UNCHANGED view
  BY DEF StoreStep, CreateFile, WriteFile, StealTmp, RenewTmp, WriteTmp, StealRename, RenewRename, RemoveFile
<1>3. overtaken \subseteq overtaken'
  BY DEF StoreStep, CreateFile, WriteFile, StealTmp, RenewTmp, WriteTmp, StealRename, RenewRename, RemoveFile,
         Rename, RenamedAway, Write, Unwritten
<1> QED
  BY <1>1, <1>2, <1>3, TakesOrNotMaps DEF LocalTypeOK, Holding, Working

\* The lease over the lock file implements the ownership of the state document
\* (Lease!ImplementsExclusiveState).
THEOREM FileImplementsExclusiveState == LocalSpec => ImplementsExclusiveState
<1>1. LocalInit => Exclusive!Init
  BY InitMaps DEF LocalInit
<1>2. LocalTypeOK /\ FileInv /\ FileInv' /\ [LocalNext]_localVars => [Exclusive!Next]_(Exclusive!vars)
  <2> SUFFICES ASSUME LocalTypeOK, LockInv, LockInv', [LocalNext]_localVars
               PROVE  [Exclusive!Next]_(Exclusive!vars)
    BY DEF FileInv
  <2> TypeOK
    BY DEF LocalTypeOK
  <2>1. CASE UNCHANGED localVars
    BY <2>1, TickMaps DEF localVars
  <2> QED
    BY <2>1, TickMaps, SharedMaps, StoreMaps DEF LocalNext
<1> QED
  BY <1>1, <1>2, FileTypeCorrect, FileInvHolds, PTL DEF LocalSpec, ImplementsExclusiveState, Exclusive!Spec

============================================================================
