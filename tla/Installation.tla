----------------------------- MODULE Installation -----------------------------
(***************************************************************************)
(* The plugin directory: `plugin install` and `plugin uninstall` commands   *)
(* that share it with each other and with the runs that start plugins from  *)
(* it, and no lock.  A binary is downloaded inside its package's archive,   *)
(* the archive checked, and the binary written in place.                    *)
(***************************************************************************)
EXTENDS Naturals, FiniteSets

CONSTANTS
    Commands,      \* command processes, each of one install or uninstall
    Packages,      \* 1 .. n, in the order of their names
    Kinds,         \* of plugins
    Doubtful,      \* the packages whose manifest or archive may be anything
    Installed,     \* the packages already in the directory
    Suffixed,      \* the packages whose name ends in "-" and the first's
    MaxRedirects,  \* MAX_REDIRECTS
    MaxRunning,    \* bound: binaries executed at a time
    Faults         \* of "crash", "diskFull", "garbled", "refused"

\* What a binary can be, other than what a command wrote.
OldContents == {"none", "old", "partial", "mixed", "garbled"}

ASSUME InstallationAssumption ==
    /\ IsFiniteSet(Commands) /\ IsFiniteSet(Kinds) /\ IsFiniteSet(Packages)
    /\ Packages = 1 .. Cardinality(Packages) /\ Packages # {}
    /\ Commands \cap OldContents = {}   \* a command's name is what it writes
    /\ Doubtful \subseteq Packages /\ Installed \subseteq Packages
    /\ Suffixed \subseteq Packages \ {1}
    /\ MaxRedirects \in Nat \ {0} /\ MaxRunning \in Nat
    /\ Faults \subseteq {"crash", "diskFull", "garbled", "refused"}

VARIABLES
    index,    \* each package's manifest and archive, as published
    file,     \* each binary of the plugin directory: content, mode, and who
              \* has had it open since it was last truncated
    open,     \* who has it open for writing
    running,  \* the binaries a run is executing
    cmd       \* each command: what was asked of it and how far it is

vars == <<index, file, open, running, cmd>>

Bins == Packages \X Kinds   \* loadsmith-<kind>-<name>

\* usable: it validates, and its protocol range has a version of ours;
\* platform: it has an artifact for this one; holds: what the archive really has.
\* Of a package that cannot be installed the rest is never read.
Manifests ==
    {m \in [usable : BOOLEAN, platform : BOOLEAN, provides : SUBSET Kinds \ {{}}, holds : SUBSET Kinds] :
       ~(m.usable /\ m.platform) => m.provides = Kinds /\ m.holds = {} /\ (m.usable \/ m.platform)}

Sound(m) == m.usable /\ m.platform /\ m.provides = Kinds /\ m.holds = Kinds

Absent == [content |-> "none", exec |-> FALSE, by |-> {}]
Idle == [what |-> "none", all |-> FALSE, asked |-> {}, jobs |-> {}, kinds |-> {},
         phase |-> "idle", hops |-> 0, body |-> "good",
         todo |-> {}, writing |-> {}, got |-> {}, skipped |-> {}]

Steps == [what : {"none", "install", "binary", "uninstall"}, all : BOOLEAN,
          asked : SUBSET Packages, jobs : SUBSET Packages, kinds : SUBSET Kinds,
          phase : {"idle", "index", "manifest", "manifested", "artifact", "verify", "extract",
                   "permit", "remove", "done", "failed"},
          hops : 0 .. MaxRedirects, body : {"good", "garbled"},
          todo : SUBSET Bins, writing : SUBSET Bins, got : SUBSET Bins, skipped : SUBSET Packages]

TypeOK ==
    /\ index \in [Packages -> Manifests]
    /\ file \in [Bins -> [content : OldContents \cup Commands, exec : BOOLEAN, by : SUBSET Commands]]
    /\ open \in [Bins -> SUBSET Commands]
    /\ running \subseteq Bins
    /\ cmd \in [Commands -> Steps]

Init ==
    /\ index \in [Packages -> Manifests]
    /\ \A p \in Packages \ Doubtful : Sound(index[p])
    /\ file = [b \in Bins |-> IF b[1] \in Installed
                             THEN [content |-> "old", exec |-> TRUE, by |-> {}] ELSE Absent]
    /\ open = [b \in Bins |-> {}]
    /\ running = {}
    /\ cmd = [c \in Commands |-> Idle]

\* Packages are taken in the order of their names.
Job(c) == CHOOSE p \in cmd[c].jobs : \A q \in cmd[c].jobs : p <= q

\* The binaries of the package at hand that are asked for.
Wanted(c) == {<<Job(c), k>> : k \in index[Job(c)].provides \cap cmd[c].kinds}

Become(c, step) == cmd' = [cmd EXCEPT ![c] = step]
At(c, phase) == cmd[c].phase = phase
End(c, phase, skipped) == Become(c, [Idle EXCEPT !.phase = phase, !.skipped = skipped])
Fail(c) == End(c, "failed", {})
Go(c, phase) == Become(c, [cmd[c] EXCEPT !.phase = phase])
dir == <<file, open, running>>

-----------------------------------------------------------------------------
(* What is asked *)

\* One kind of a package, or all of it.
Selections == {{k} : k \in Kinds} \cup {Kinds}

\* By name, with or without a kind; or the whole index.
Install(c) ==
    /\ At(c, "idle")
    /\ \E all \in BOOLEAN, kinds \in Selections,
          jobs \in {{p} : p \in Packages} \cup {Packages} :
        /\ all <=> jobs = Packages
        /\ all => kinds = Kinds
        /\ Become(c, [Idle EXCEPT !.what = "install", !.all = all, !.asked = jobs, !.jobs = jobs,
                                  !.kinds = kinds, !.phase = "index"])
    /\ UNCHANGED <<index, dir>>

\* A local binary, copied as it is.
InstallBinary(c) ==
    /\ At(c, "idle")
    /\ \E b \in Bins :
        Become(c, [Idle EXCEPT !.what = "binary", !.phase = "extract", !.todo = {b},
                               !.asked = {b[1]}, !.jobs = {b[1]}, !.kinds = {b[2]}])
    /\ UNCHANGED <<index, dir>>

\* The directory is listed once.  Without a kind, a name's ending decides.
Uninstall(c) ==
    /\ At(c, "idle")
    /\ \E p \in Packages, kinds \in Selections :
        LET named == {p} \cup IF kinds = Kinds /\ p = 1 THEN Suffixed ELSE {}
        IN Become(c, [Idle EXCEPT !.what = "uninstall", !.phase = "remove", !.asked = {p},
                                  !.kinds = kinds,
                                  !.todo = {b \in named \X kinds : file[b] # Absent}])
    /\ UNCHANGED <<index, dir>>

-----------------------------------------------------------------------------
(* Installing *)
After == [index |-> "manifest", manifest |-> "manifested", artifact |-> "verify"]

\* What comes of one request.  There is no length to check a body against: one
\* that was cut short is a body, and an index that was does not parse.
Answers(c) ==
    {"redirect", "good"} \cup (Faults \cap {"refused"})
      \cup IF At(c, "index") THEN {} ELSE Faults \cap {"garbled"}

Fetch(c) ==
    /\ cmd[c].phase \in DOMAIN After
    /\ \E answer \in Answers(c) :
        CASE answer \in {"good", "garbled"} ->
               Become(c, [cmd[c] EXCEPT !.hops = 0, !.phase = After[@], !.body = answer])
          [] answer = "redirect" /\ cmd[c].hops + 1 < MaxRedirects ->
               Become(c, [cmd[c] EXCEPT !.hops = @ + 1])
          [] OTHER -> Fail(c)
    /\ UNCHANGED <<index, dir>>

\* The next package of the command, or its end.
NextJob(c, skipped) ==
    LET rest == cmd[c].jobs \ {Job(c)}
        all == cmd[c].skipped \cup skipped
    IN IF rest = {} THEN End(c, "done", all)
       ELSE Become(c, [cmd[c] EXCEPT !.jobs = rest, !.body = "good",
                                     !.skipped = all, !.phase = "manifest"])

\* Neither what does not parse nor what speaks no protocol version of ours.
Compatible(c) == cmd[c].body = "good" /\ index[Job(c)].usable

\* A manifest that cannot be used only skips its package of --all.
ReadManifest(c) ==
    /\ At(c, "manifested")
    /\ CASE ~Compatible(c) /\ cmd[c].all -> NextJob(c, {Job(c)})
         [] Compatible(c) /\ index[Job(c)].platform -> Go(c, "artifact")
         [] OTHER -> Fail(c)
    /\ UNCHANGED <<index, dir>>

ChecksumAny(body) == TRUE
Checksum(body) == body = "good"

UnpackedAll(c) == {Job(c)} \X index[Job(c)].holds
Unpacked(c) == Wanted(c) \cap ({Job(c)} \X index[Job(c)].holds)

Verify(c) ==
    /\ At(c, "verify")
    /\ IF Checksum(cmd[c].body) /\ Wanted(c) # {}
       THEN Become(c, [cmd[c] EXCEPT !.phase = "extract", !.todo = Unpacked(c)])
       ELSE Fail(c)
    /\ UNCHANGED <<index, dir>>

\* fs::write: truncates what is there, which cannot be while it is executed.
Open(c) ==
    /\ At(c, "extract") /\ cmd[c].writing = {}
    /\ \E b \in cmd[c].todo :
        \/ /\ b \notin running
           /\ file' = [file EXCEPT ![b].content = "partial", ![b].by = open[b] \cup {c}]
           /\ open' = [open EXCEPT ![b] = @ \cup {c}]
           /\ Become(c, [cmd[c] EXCEPT !.writing = {b}])
        \/ b \in running /\ Fail(c) /\ UNCHANGED <<file, open>>
    /\ UNCHANGED <<index, running>>

Content(c) == IF cmd[c].body = "garbled" THEN "garbled" ELSE c

\* Two that write the same binary may leave any mixture of the two.
Write(c) ==
    /\ At(c, "extract")
    /\ \E b \in cmd[c].writing :
        /\ open' = [open EXCEPT ![b] = @ \ {c}]
        /\ \/ /\ IF c \in open[b]
                 THEN \E content \in {Content(c)} \cup IF file[b].by = {c} THEN {} ELSE {"mixed"} :
                        file' = [file EXCEPT ![b].content = content]
                 ELSE UNCHANGED file
              /\ Go(c, "permit")
           \/ "diskFull" \in Faults /\ Fail(c) /\ UNCHANGED file
    /\ UNCHANGED <<index, running>>

\* Made executable, by its name: which may be gone by now.
Permit(c) ==
    /\ At(c, "permit")
    /\ \E b \in cmd[c].writing :
        IF file[b] = Absent THEN Fail(c) /\ UNCHANGED file
        ELSE /\ file' = [file EXCEPT ![b].exec = TRUE]
             /\ Become(c, [cmd[c] EXCEPT !.phase = "extract", !.writing = {},
                                         !.todo = @ \ {b}, !.got = @ \cup {b}])
    /\ UNCHANGED <<index, open, running>>

CompleteSome(c) == cmd[c].got # {}

\* The archive held every binary the manifest promised.
Complete(c) == cmd[c].what = "binary" \/ Wanted(c) \subseteq cmd[c].got

Conclude(c) ==
    /\ At(c, "extract") /\ cmd[c].writing = {} /\ cmd[c].todo = {}
    /\ IF Complete(c) THEN NextJob(c, {}) ELSE Fail(c)
    /\ UNCHANGED <<index, dir>>

-----------------------------------------------------------------------------
(* Removing, running, dying *)
Remove(c) ==
    /\ At(c, "remove")
    /\ IF cmd[c].todo = {} THEN End(c, "done", {}) /\ UNCHANGED dir
       ELSE \E b \in cmd[c].todo :
             IF file[b] = Absent THEN Fail(c) /\ UNCHANGED dir
             ELSE /\ file' = [file EXCEPT ![b] = Absent]
                  /\ open' = [open EXCEPT ![b] = {}]
                  /\ running' = running \ {b}
                  /\ Become(c, [cmd[c] EXCEPT !.todo = @ \ {b}])
    /\ UNCHANGED index

\* A run finds a plugin by its name; what is open for writing cannot start.
Spawn(b) ==
    /\ b \notin running /\ Cardinality(running) < MaxRunning
    /\ file[b].exec /\ open[b] = {}
    /\ running' = running \cup {b}
    /\ UNCHANGED <<index, file, open, cmd>>

Leave(b) ==
    /\ b \in running /\ running' = running \ {b}
    /\ UNCHANGED <<index, file, open, cmd>>

Over(c) == cmd[c].phase \in {"idle", "done", "failed"}

Crash(c) ==
    /\ "crash" \in Faults /\ ~Over(c)
    /\ open' = [b \in Bins |-> open[b] \ {c}]
    /\ Fail(c)
    /\ UNCHANGED <<index, file, running>>

Works(c) ==
    Fetch(c) \/ ReadManifest(c) \/ Verify(c) \/ Open(c) \/ Write(c) \/ Permit(c) \/ Conclude(c) \/ Remove(c)

Next ==
    \/ \E c \in Commands : Install(c) \/ InstallBinary(c) \/ Uninstall(c) \/ Works(c) \/ Crash(c)
    \/ \E b \in Bins : Spawn(b) \/ Leave(b)

Spec == Init /\ [][Next]_vars

-----------------------------------------------------------------------------
(* Properties *)

\* Nothing that fails its checksum is ever in the plugin directory, not even
\* while it is being written or after a command died.
OnlyVerified == \A b \in Bins : file[b].content # "garbled"

\* What a command was asked for, as far as the manifests have it.
Asked(c) ==
    {b \in cmd[c].asked \X cmd[c].kinds :
       cmd[c].what = "install" => index[b[1]].usable /\ b[2] \in index[b[1]].provides}

\* An install that reports success has put there every binary it was asked for,
\* but those of packages it said it skipped; and each is whole and can be
\* started, unless another command wrote or removed it too.
ReportIsTrue ==
    [][\A c \in Commands :
         ~At(c, "done") /\ cmd'[c].phase = "done" /\ cmd[c].what # "uninstall" =>
           \A b \in Asked(c) : b[1] \notin cmd'[c].skipped =>
             /\ b \in cmd[c].got
             /\ file[b].by = {c} => file[b] = [content |-> c, exec |-> TRUE, by |-> {c}]]_vars

\* An install writes no binary but those it was asked for, of packages it can
\* use, whatever else their archives hold: the rest of the directory, and every
\* run that starts plugins from it, is as before.
LeavesOthersAlone ==
    [][\A b \in Bins : \A c \in file'[b].by \ file[b].by :
         cmd[c].what # "uninstall" => b \in Asked(c)]_vars
=============================================================================
