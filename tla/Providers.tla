------------------------------ MODULE Providers ------------------------------
(***************************************************************************)
(* The resolution of secret() values before a run                          *)
(* (loadsmith-core/src/providers.rs): one session per provider instance,   *)
(* all in parallel, each asking its provider for one value at a time; the  *)
(* first session that fails stops the others, and so does the operator.    *)
(* The providers are the SDK's (loadsmith-plugin-sdk/src/provider.rs).     *)
(*                                                                         *)
(* A session's setup (ControlChannel) is one step here.  A limit that is   *)
(* set may pass at any time; the limits of setup and the budget of an      *)
(* instance are set, as they are by default.                               *)
(***************************************************************************)
EXTENDS Integers, FiniteSets

CONSTANTS
  Instances,      \* the provider instances that secret() calls name
  References,     \* how many values each has to resolve
  ProviderFaults  \* what may go wrong with them (SessionFaults)

SessionFaults == {"missing", "spawn", "rejects", "refuses", "crashes", "hangs"}

ASSUME ProvidersAssumption ==
  /\ IsFiniteSet(Instances)
  /\ References \in Nat \ {0}
  /\ ProviderFaults \subseteq SessionFaults

VARIABLES
  session,  \* idle, spawning, setup, resolving, closing, ending, over, joined
  got,      \* the values the session has
  wire,     \* the provider's answer on its way
  proc,     \* the provider's process
  failed,   \* what the session failed with
  induced,  \* SessionError.induced
  halt,     \* the sessions' Shutdown: none, signal or abort
  signal,   \* the operator's signal fired
  root,     \* the error of the first session joined that failed by itself
  result,   \* of resolve_all
  guilty    \* the providers that failed, by themselves

sessionVars == <<session, got, wire, proc, failed, induced, halt, root, result, guilty>>
provVars    == <<sessionVars, signal>>

Talking == {"setup", "resolving", "closing"}
Causes  == {"incompatible", "rejected", "config"}
Results == {"none", "resolved", "interrupted", "not_found", "nobody"} \cup Causes

ProvTypeOK ==
  /\ session \in [Instances -> Talking \cup {"idle", "spawning", "ending", "over", "joined"}]
  /\ got \in [Instances -> 0..References]
  /\ wire \in [Instances -> {"none", "value", "refusal", "finished"}]
  /\ proc \in [Instances -> {"none", "up", "hung", "gone"}]
  /\ failed \in [Instances -> Causes \cup {"none"}] /\ induced \in [Instances -> BOOLEAN]
  /\ halt \in {"none", "signal", "abort"} /\ signal \in BOOLEAN
  /\ root \in Causes \cup {"none"} /\ result \in Results
  /\ guilty \subseteq Instances

ProvInit ==
  /\ session = [i \in Instances |-> "idle"] /\ got = [i \in Instances |-> 0]
  /\ wire = [i \in Instances |-> "none"] /\ proc = [i \in Instances |-> "none"]
  /\ failed = [i \in Instances |-> "none"] /\ induced = [i \in Instances |-> FALSE]
  /\ halt = "none" /\ signal = FALSE /\ root = "none" /\ result = "none" /\ guilty = {}

----------------------------------------------------------------------------
(* The sessions *)

\* Every binary is found before any provider is spawned; no jobs, no sessions.
Begin ==
  /\ result = "none" /\ \A i \in Instances : session[i] = "idle"
  /\ \/ Instances = {} /\ result' = "resolved" /\ UNCHANGED session
     \/ Instances # {} /\ signal /\ result' = "interrupted" /\ UNCHANGED session
     \/ /\ Instances # {} /\ ~signal /\ "missing" \in ProviderFaults
        /\ result' = "not_found" /\ UNCHANGED session
     \/ /\ Instances # {} /\ ~signal
        /\ session' = [i \in Instances |-> "spawning"] /\ UNCHANGED result
  /\ UNCHANGED <<got, wire, proc, failed, induced, halt, root, guilty, signal>>

ForwardSignal ==
  /\ signal /\ halt = "none" /\ \E i \in Instances : session[i] \notin {"idle", "joined"}
  /\ halt' = "signal"
  /\ UNCHANGED <<session, got, wire, proc, failed, induced, root, result, guilty, signal>>

\* Mutant of FailsWith: whatever ends a session is held against it.
FailsWithBlame(i, cause, culprit) ==
  /\ failed' = [failed EXCEPT ![i] = cause]
  /\ UNCHANGED induced
  /\ halt' = IF halt = "none" THEN "abort" ELSE halt

\* A failure nobody is named for, while the sessions are being stopped, was
\* induced; any other stops the others.
FailsWith(i, cause, culprit) ==
  /\ failed' = [failed EXCEPT ![i] = cause]
  /\ induced' = [induced EXCEPT ![i] = ~culprit /\ halt # "none"]
  /\ halt' = IF halt = "none" THEN "abort" ELSE halt

Spawn(i) ==
  /\ session[i] = "spawning"
  /\ \/ /\ session' = [session EXCEPT ![i] = "setup"] /\ proc' = [proc EXCEPT ![i] = "up"]
        /\ UNCHANGED <<failed, induced, halt, guilty>>
     \/ /\ "spawn" \in ProviderFaults
        /\ session' = [session EXCEPT ![i] = "over"] /\ FailsWith(i, "incompatible", TRUE)
        /\ guilty' = guilty \cup {i} /\ UNCHANGED proc
  /\ UNCHANGED <<got, wire, root, result, signal>>

\* The session's next request; a provider that is gone has closed its stdin.
Request(i) ==
  IF proc[i] = "gone"
  THEN session' = [session EXCEPT ![i] = "ending"] /\ FailsWith(i, "config", FALSE)
  ELSE session' = [session EXCEPT ![i] = "resolving"] /\ UNCHANGED <<failed, induced, halt>>

\* Handshake, capability, configure and start.
SetUp(i) ==
  /\ session[i] = "setup" /\ proc[i] \in {"up", "gone"}
  /\ \/ proc[i] = "up" /\ Request(i) /\ UNCHANGED guilty
     \/ /\ proc[i] = "up" /\ "rejects" \in ProviderFaults
        /\ \E cause \in Causes : FailsWith(i, cause, TRUE)
        /\ session' = [session EXCEPT ![i] = "ending"] /\ guilty' = guilty \cup {i}
     \/ /\ proc[i] = "gone"
        /\ FailsWith(i, "config", TRUE)
        /\ session' = [session EXCEPT ![i] = "ending"] /\ UNCHANGED guilty
  /\ UNCHANGED <<got, wire, proc, root, result, signal>>

\* An answer.  With the last value the provider's input is closed.
Hear(i) ==
  /\ session[i] \in {"resolving", "closing"} /\ wire[i] # "none"
  /\ wire' = [wire EXCEPT ![i] = "none"]
  /\ \/ /\ wire[i] = "value"
        /\ got' = [got EXCEPT ![i] = @ + 1]
        /\ IF got[i] + 1 < References THEN Request(i)
           ELSE session' = [session EXCEPT ![i] = "closing"] /\ UNCHANGED <<failed, induced, halt>>
     \/ /\ wire[i] = "refusal"
        /\ session' = [session EXCEPT ![i] = "ending"] /\ FailsWith(i, "config", TRUE) /\ UNCHANGED got
     \/ /\ wire[i] = "finished"
        /\ session' = [session EXCEPT ![i] = "ending"] /\ UNCHANGED <<got, failed, induced, halt>>
  /\ UNCHANGED <<proc, root, result, guilty, signal>>

SeesEnd(i) ==
  /\ session[i] \in {"resolving", "closing"} /\ wire[i] = "none" /\ proc[i] = "gone"
  /\ session' = [session EXCEPT ![i] = "ending"] /\ FailsWith(i, "config", TRUE)
  /\ UNCHANGED <<got, wire, proc, root, result, guilty, signal>>

\* Mutant of Overdue: an instance has no budget of its own.
OverdueInSetup(i) ==
  /\ session[i] = "setup"
  /\ session' = [session EXCEPT ![i] = "ending"] /\ FailsWith(i, "config", TRUE)
  /\ guilty' = guilty \cup {i}
  /\ UNCHANGED <<got, wire, proc, root, result, signal>>

\* The limits of setup run beside the halt; the budget is looked at behind it.
Overdue(i) ==
  /\ session[i] \in Talking /\ (session[i] = "setup" \/ halt = "none")
  /\ session' = [session EXCEPT ![i] = "ending"] /\ FailsWith(i, "config", TRUE)
  /\ guilty' = guilty \cup {i}
  /\ UNCHANGED <<got, wire, proc, root, result, signal>>

Halted(i) ==
  /\ session[i] \in Talking /\ halt # "none"
  /\ session' = [session EXCEPT ![i] = "ending"] /\ FailsWith(i, "config", FALSE)
  /\ UNCHANGED <<got, wire, proc, root, result, guilty, signal>>

\* Told (or finished), given the grace period, killed, reaped.
WindDown(i) ==
  /\ session[i] = "ending"
  /\ session' = [session EXCEPT ![i] = "over"] /\ proc' = [proc EXCEPT ![i] = "gone"]
  /\ wire' = [wire EXCEPT ![i] = "none"]
  /\ UNCHANGED <<got, failed, induced, halt, root, result, guilty, signal>>

Join(i) ==
  /\ session[i] = "over"
  /\ session' = [session EXCEPT ![i] = "joined"]
  /\ root' = IF failed[i] # "none" /\ ~induced[i] /\ root = "none" THEN failed[i] ELSE root
  /\ UNCHANGED <<got, wire, proc, failed, induced, halt, result, guilty, signal>>

\* The values there are, of the sessions that succeeded.
Complete == \A i \in Instances : failed[i] = "none" /\ got[i] = References

Resolved ==
  /\ result = "none" /\ Instances # {} /\ \A i \in Instances : session[i] = "joined"
  /\ result' = IF signal THEN "interrupted"
               ELSE IF root # "none" THEN root
               ELSE IF Complete THEN "resolved" ELSE "nobody"
  /\ UNCHANGED <<session, got, wire, proc, failed, induced, halt, root, guilty, signal>>

----------------------------------------------------------------------------
(* The providers *)

\* One request at a time; the end of the input is the end of the work.
Serve(i) ==
  /\ proc[i] = "up" /\ wire[i] = "none"
  /\ \/ /\ session[i] = "resolving"
        /\ \/ wire' = [wire EXCEPT ![i] = "value"] /\ UNCHANGED guilty
           \/ /\ "refuses" \in ProviderFaults
              /\ wire' = [wire EXCEPT ![i] = "refusal"] /\ guilty' = guilty \cup {i}
        /\ UNCHANGED proc
     \/ /\ session[i] = "closing"
        /\ wire' = [wire EXCEPT ![i] = "finished"] /\ proc' = [proc EXCEPT ![i] = "gone"]
        /\ UNCHANGED guilty
  /\ UNCHANGED <<session, got, failed, induced, halt, root, result, signal>>

ProviderBreaks(i) ==
  /\ session[i] \in Talking /\ proc[i] = "up"
  /\ \E how \in {"hung", "gone"} :
       /\ (IF how = "hung" THEN "hangs" ELSE "crashes") \in ProviderFaults
       /\ proc' = [proc EXCEPT ![i] = how]
  /\ guilty' = guilty \cup {i}
  /\ UNCHANGED <<session, got, wire, failed, induced, halt, root, result, signal>>

SessionStep(i) ==
  \/ Spawn(i) \/ SetUp(i) \/ Hear(i) \/ SeesEnd(i) \/ Overdue(i) \/ Halted(i) \/ WindDown(i) \/ Join(i)
  \/ Serve(i)

ProvNext ==
  \/ Begin \/ ForwardSignal \/ Resolved
  \/ \E i \in Instances : SessionStep(i) \/ ProviderBreaks(i)

ProvFairness ==
  /\ WF_provVars(Begin) /\ WF_provVars(ForwardSignal) /\ WF_provVars(Resolved)
  /\ \A i \in Instances : WF_provVars(SessionStep(i))

----------------------------------------------------------------------------
(* Properties *)

\* What a failed resolution is reported as is what a provider of it did, never
\* what stopping the other sessions did to theirs.
RootIsReal ==
  /\ result # "nobody"
  /\ result \in Causes => \E i \in guilty : failed[i] = result /\ ~induced[i]
=============================================================================
