------------------------------- MODULE MCLock -------------------------------
\* The lease on numbered runs, over the object store or over the lock file:
\* state.backend, chosen once, says which.
EXTENDS S3Lock, LocalLock

VARIABLE backend

lockVars == <<vars, repeats, tmp, backend>>

Backends == {"s3", "file"}

LockInit ==
  /\ S3Init
  /\ LocalInit
  /\ backend \in Backends

S3Steps == backend = "s3" /\ Next /\ UNCHANGED <<tmp, backend>>
FileSteps == backend = "file" /\ LocalNext /\ UNCHANGED <<repeats, backend>>

LockNext == S3Steps \/ FileSteps

\* A live run's thread is scheduled, and time passes; nobody has to crash, to be
\* started, or to end its work.
TimePasses ==
  /\ Tick
  /\ tmp' = Aged(tmp)
  /\ UNCHANGED <<repeats, backend>>

AcquireStep(r) ==
  /\ \/ backend = "s3" /\ (Create(r) \/ Steal(r)) /\ UNCHANGED tmp
     \/ backend = "file" /\ (CreateFile(r) \/ StealTmp(r) \/ StealRename(r)) /\ UNCHANGED repeats
     \/ (Look(r) \/ Poll(r)) /\ UNCHANGED <<repeats, tmp>>
  /\ UNCHANGED backend

LockSpec == LockInit /\ [][LockNext]_lockVars

LockFairSpec ==
  /\ LockSpec
  /\ WF_lockVars(TimePasses)
  /\ \A r \in Runs : WF_lockVars(AcquireStep(r))

\* Clocks that agree, clocks within a tick of each other, and clocks that
\* differ by more than a whole lease.
SameClock == [r \in Runs |-> 0]
CloseClocks == [r \in Runs |-> IF r = 2 THEN 1 ELSE 0]
FarClocks == [r \in Runs |-> IF r = 2 THEN TTL + 1 ELSE 0]
============================================================================
