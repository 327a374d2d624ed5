------------------------------ MODULE LocalLock ------------------------------
(***************************************************************************)
(* The lease over the local store (LocalLock in state.rs): the lock is a   *)
(* file, created empty with O_EXCL and then written, and replaced by       *)
(* renaming <path>.lock.tmp over it.  The replacement looks at no version, *)
(* and every run writes the same temporary file.                           *)
(***************************************************************************)
EXTENDS Lease

VARIABLE tmp   \* the lease that <path>.lock.tmp holds, or NoLock

localVars == <<vars, tmp>>

LocalTypeOK ==
  /\ TypeOK
  /\ tmp \in [holder : Runs \cup {NoRun}, torn : {FALSE}, age : 0..MaxAge]

LocalInit == Init /\ tmp = NoLock

Torn(r) == [Fresh(r) EXCEPT !.torn = TRUE]

\* Mutant: creates or truncates, without O_EXCL.
CreateAnyway(r) ==
  /\ pc[r] = "create"
  /\ Write(Torn(r), {})
  /\ Go(r, "writing")
  /\ UNCHANGED <<timer, lost, view, tmp>>

\* create_new: the file exists from now on, without its content.
CreateFile(r) ==
  /\ pc[r] = "create"
  /\ \/ /\ lock = NoLock
        /\ Write(Torn(r), {})
        /\ Go(r, "writing")
     \/ /\ lock # NoLock
        /\ Go(r, "look")
        /\ Unwritten
     \/ /\ "writeError" \in Faults
        /\ Go(r, "over")
        /\ Unwritten
  /\ UNCHANGED <<timer, lost, view, tmp>>

\* write_all to the file that was created, wherever it is by now.  Its result
\* is ignored: the run holds the lock even when nothing was written.
WriteFile(r) ==
  /\ pc[r] = "writing"
  /\ \/ /\ lock.torn /\ lock.holder = r
        /\ Write(Fresh(r), {})
     \/ /\ ~(lock.torn /\ lock.holder = r) \/ "shortWrite" \in Faults
        /\ Unwritten
  /\ Go(r, "holding")
  /\ Restart(r)
  /\ UNCHANGED <<lost, view, tmp>>

\* fs::write of the temporary file, the first half of a replacement.
WriteTmp(r, from, to, broken) ==
  /\ pc[r] = from
  /\ \/ tmp' = Fresh(r) /\ Go(r, to)
     \/ "writeError" \in Faults /\ Go(r, broken) /\ UNCHANGED tmp
  /\ Unwritten
  /\ UNCHANGED <<timer, lost, view>>

\* Its second half: whatever the temporary file holds becomes the lock, whoever's
\* the lock is by now.  The lease that r saw last is one that lapsed, or its own.
Rename(r) ==
  /\ tmp # NoLock
  /\ Write(tmp, (IF r \in fresh /\ ~Lapsed(r) THEN {} ELSE LosesTo(tmp.holder))
                  \cup ({r} \ {tmp.holder}))
  /\ tmp' = NoLock

\* A file that another run renamed away is an error.
RenamedAway == tmp = NoLock /\ Unwritten /\ UNCHANGED tmp

StealTmp(r) == WriteTmp(r, "stealing", "renaming", "over")

StealRename(r) ==
  /\ pc[r] = "renaming"
  /\ \/ Rename(r) /\ Go(r, "holding")
     \/ RenamedAway /\ Go(r, "over")
  /\ Restart(r)
  /\ UNCHANGED <<lost, view>>

RenewTmp(r) == WriteTmp(r, "renewing", "rewriting", "holding")

RenewRename(r) ==
  /\ pc[r] = "rewriting"
  /\ Rename(r) \/ RenamedAway
  /\ Go(r, "holding")
  /\ UNCHANGED <<timer, lost, view>>

\* remove_file, whoever's lease the file holds by now.
RemoveFile(r) ==
  /\ pc[r] = "removing"
  /\ \/ Write(NoLock, IF r \in fresh THEN {} ELSE LosesTo(r))
     \/ "writeError" \in Faults /\ Unwritten
  /\ Go(r, "over")
  /\ UNCHANGED <<timer, lost, view, tmp>>

StoreStep(r) ==
  \/ CreateFile(r) \/ WriteFile(r)
  \/ StealTmp(r) \/ StealRename(r)
  \/ RenewTmp(r) \/ RenewRename(r)
  \/ RemoveFile(r)

LocalNext ==
  \/ Tick /\ tmp' = Aged(tmp)
  \/ (\E r \in Runs : SharedStep(r) \/ Crash(r)) /\ UNCHANGED tmp
  \/ \E r \in Runs : StoreStep(r)

LocalSpec == LocalInit /\ [][LocalNext]_localVars
============================================================================
