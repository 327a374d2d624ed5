------------------------- MODULE InstallationProofs -------------------------
(***************************************************************************)
(* The promises of an installation hold for any number of commands,        *)
(* packages and kinds, whatever is published, downloaded, removed or       *)
(* interrupted.                                                            *)
(***************************************************************************)
EXTENDS Installation, FiniteSetTheorems, WellFoundedInduction, TLAPS

Fetching == {"index", "manifest", "manifested", "artifact", "verify"}
Writing == {"extract", "permit"}

\* A binary the command may write: of the package at hand, as its manifest has it.
Due(c, b) ==
  /\ b[1] = Job(c) /\ b[2] \in cmd[c].kinds
  /\ cmd[c].what = "install" => index[b[1]].usable /\ b[2] \in index[b[1]].provides

\* A command that works has packages left, and writes nothing but verified content.
OnItsWay(c) ==
  /\ cmd[c].phase \in Fetching => cmd[c].what = "install" /\ cmd[c].todo = {} /\ cmd[c].writing = {}
  /\ cmd[c].phase \in Writing => cmd[c].what \in {"install", "binary"} /\ cmd[c].body = "good"
  /\ cmd[c].phase = "remove" => cmd[c].what = "uninstall" /\ cmd[c].writing = {}
  /\ cmd[c].phase \in Fetching \cup Writing => cmd[c].jobs # {} /\ cmd[c].jobs \subseteq cmd[c].asked
  /\ cmd[c].phase \in {"artifact", "verify"} => index[Job(c)].usable
  /\ cmd[c].phase \in {"idle", "done", "failed"} => cmd[c].got = {} /\ cmd[c].writing = {}

\* It has what it did, and nothing of what is to be done.
Apart(c) ==
  /\ cmd[c].phase \in Fetching => \A b \in cmd[c].got : b[1] \notin cmd[c].jobs
  /\ cmd[c].phase \in Writing =>
       /\ \A b \in cmd[c].got : b[1] \notin cmd[c].jobs \/ b[1] = Job(c)
       /\ \A b \in cmd[c].todo : Due(c, b) /\ b \notin cmd[c].got
       /\ cmd[c].writing \subseteq cmd[c].todo /\ \A a, b \in cmd[c].writing : a = b
  /\ cmd[c].phase = "remove" => cmd[c].got = {}

\* What it was asked for it has, said it skips, or has before it.
Covered(c) ==
  /\ cmd[c].phase \in Fetching \cup Writing /\ cmd[c].what = "install" =>
       \A b \in Asked(c) : b \in cmd[c].got \/ b[1] \in cmd[c].jobs \cup cmd[c].skipped
  /\ cmd[c].phase \in Writing /\ cmd[c].what = "binary" =>
       /\ \A b \in Asked(c) : b \in cmd[c].got \cup cmd[c].todo
       /\ cmd[c].jobs \subseteq {Job(c)}

CommandOK(c) == OnItsWay(c) /\ Apart(c) /\ Covered(c)

\* Whoever has a binary open is among those that wrote it since it was truncated.
OpenedBy == \A b \in Bins : open[b] \subseteq file[b].by

\* A command alone at a binary has it open, or has written it whole.
Alone(c, b) ==
  /\ cmd[c].phase = "extract" /\ b \in cmd[c].writing /\ c \in file[b].by => c \in open[b]
  /\ cmd[c].phase = "permit" /\ b \in cmd[c].writing /\ file[b].by = {c} => file[b].content = c
  /\ b \in cmd[c].got /\ file[b].by = {c} => file[b].content = c /\ file[b].exec

InstallInv ==
  /\ TypeOK
  /\ \A c \in Commands : CommandOK(c)
  /\ OpenedBy
  /\ \A c \in Commands, b \in Bins : Alone(c, b)
  /\ OnlyVerified
----------------------------------------------------------------------------
(* The operators *)

First(J) == CHOOSE p \in J : \A q \in J : p <= q

\* Of packages there is a first.
LEMMA FirstOne ==
  ASSUME NEW J \in SUBSET Packages, J # {}
  PROVE  First(J) \in J
<1>1. J \subseteq Nat
  <2>1. Cardinality(Packages) \in Nat
    BY InstallationAssumption, FS_CardinalityType
  <2>2. Packages \subseteq Nat
    BY <2>1, InstallationAssumption
  <2> QED
    BY <2>2
<1>2. PICK p \in J : \A q \in J : <<q, p>> \notin OpToRel(<, Nat)
  BY <1>1, NatLessThanWellFounded, WFMin, Zenon
<1>3. \A q \in J : ~(q < p)
  BY <1>1, <1>2, Zenon DEF OpToRel
<1>4. \A q \in J : p <= q
  BY <1>1, <1>3
<1> QED
  BY <1>4 DEF First

\* The package at hand is the first of those left.
LEMMA JobIsFirst == \A c : Job(c) = First(cmd[c].jobs) /\ Job(c)' = First(cmd'[c].jobs)
  BY DEF Job, First

\* One command's step leaves the others' as they are.
LEMMA BecomeOne ==
  ASSUME TypeOK, NEW c \in Commands, NEW s, Become(c, s)
  PROVE  /\ cmd'[c] = s
         /\ \A d \in Commands : d # c => cmd'[d] = cmd[d]
         /\ s \in Steps => cmd' \in [Commands -> Steps]
  BY DEF Become, TypeOK

\* Who is not at work keeps what is true of it.
LEMMA CommandKept ==
  ASSUME NEW c \in Commands, CommandOK(c), cmd'[c] = cmd[c], index' = index
  PROVE  CommandOK(c)'
<1>1. Job(c)' = Job(c)
  BY DEF Job
<1>2. OnItsWay(c)'
  BY <1>1 DEF CommandOK, OnItsWay
<1>3. \A b : Due(c, b) => Due(c, b)'
  BY <1>1 DEF Due
<1>4. Apart(c)'
  BY <1>1, <1>3 DEF CommandOK, Apart
<1>5. Asked(c)' = Asked(c)
  BY DEF Asked
<1>6. Covered(c)'
  BY <1>1, <1>5 DEF CommandOK, Covered
<1> QED
  BY <1>2, <1>4, <1>6 DEF CommandOK

\* What a command is after its end.
LEMMA EndStep ==
  ASSUME TypeOK, NEW c \in Commands, NEW phase \in {"done", "failed"}, NEW skipped \in SUBSET Packages,
         End(c, phase, skipped)
  PROVE  /\ cmd' \in [Commands -> Steps] /\ \A d \in Commands : d # c => cmd'[d] = cmd[d]
         /\ cmd'[c].phase = phase /\ cmd'[c].got = {} /\ cmd'[c].writing = {} /\ cmd'[c].skipped = skipped
<1> DEFINE s == [Idle EXCEPT !.phase = phase, !.skipped = skipped]
<1>1. s.phase = phase /\ s.got = {} /\ s.writing = {} /\ s.skipped = skipped
  BY Zenon DEF Idle
<1>2. Idle \in Steps
  <2>1. 0 \in 0 .. MaxRedirects
    BY InstallationAssumption
  <2> QED
    BY <2>1, Zenon DEF Idle, Steps
<1>3. s \in Steps
  <2> HIDE DEF Idle
  <2> QED
    BY <1>2 DEF Steps
<1>4. Become(c, s)
  BY DEF End
<1> HIDE DEF s
<1> QED
  BY <1>1, <1>3, <1>4, BecomeOne

\* One that has ended owes nothing.
LEMMA EndOK ==
  ASSUME NEW c \in Commands, cmd'[c].phase \in {"done", "failed"}, cmd'[c].got = {}, cmd'[c].writing = {}
  PROVE  CommandOK(c)'
<1>1. OnItsWay(c)'
  BY DEF OnItsWay, Fetching, Writing
<1>2. Apart(c)' /\ Covered(c)'
  BY DEF Apart, Covered, Fetching, Writing
<1> QED
  BY <1>1, <1>2 DEF CommandOK

\* Only the command itself moves, and nothing that was published changes.
Alters(c) ==
  /\ index' = index /\ cmd' \in [Commands -> Steps]
  /\ \A d \in Commands : d # c => cmd'[d] = cmd[d]

\* A failure ends a command.
LEMMA FailOK ==
  ASSUME TypeOK, NEW c \in Commands, Fail(c), index' = index
  PROVE  Alters(c) /\ CommandOK(c)' /\ cmd'[c].got = {} /\ cmd'[c].writing = {} /\ cmd'[c].phase = "failed"
<1>1. End(c, "failed", {})
  BY DEF Fail
<1>2. {} \in SUBSET Packages
  OBVIOUS
<1> QED
  BY <1>1, <1>2, EndStep, EndOK DEF Alters

\* A phase later everything else is as it was.
LEMMA GoStep ==
  ASSUME TypeOK, NEW c \in Commands,
         NEW phase \in {"manifest", "artifact", "permit"}, Go(c, phase), index' = index
  PROVE  /\ Alters(c) /\ cmd'[c].phase = phase
         /\ cmd'[c].what = cmd[c].what /\ cmd'[c].asked = cmd[c].asked /\ cmd'[c].jobs = cmd[c].jobs
         /\ cmd'[c].kinds = cmd[c].kinds /\ cmd'[c].body = cmd[c].body /\ cmd'[c].todo = cmd[c].todo
         /\ cmd'[c].writing = cmd[c].writing /\ cmd'[c].got = cmd[c].got /\ cmd'[c].skipped = cmd[c].skipped
<1>1. cmd[c] \in Steps
  BY DEF TypeOK
<1> DEFINE s == [cmd[c] EXCEPT !.phase = phase]
<1>2. /\ s \in Steps /\ s.phase = phase
      /\ s.what = cmd[c].what /\ s.asked = cmd[c].asked /\ s.jobs = cmd[c].jobs
      /\ s.kinds = cmd[c].kinds /\ s.body = cmd[c].body /\ s.todo = cmd[c].todo
      /\ s.writing = cmd[c].writing /\ s.got = cmd[c].got /\ s.skipped = cmd[c].skipped
  BY <1>1 DEF Steps
<1>3. Become(c, s)
  BY DEF Go
<1> HIDE DEF s
<1> QED
  BY <1>2, <1>3, BecomeOne DEF Alters

\* An install begins with all it was asked for before it.
LEMMA InstallOK ==
  ASSUME TypeOK, NEW c \in Commands, Install(c)
  PROVE  Alters(c) /\ CommandOK(c)' /\ cmd'[c].got = {} /\ cmd'[c].writing = {} /\ cmd'[c].phase # "done"
<1>1. PICK all \in BOOLEAN, kinds \in Selections, jobs \in {{p} : p \in Packages} \cup {Packages} :
        Become(c, [Idle EXCEPT !.what = "install", !.all = all, !.asked = jobs, !.jobs = jobs,
                               !.kinds = kinds, !.phase = "index"])
  BY DEF Install
<1>2. jobs \in SUBSET Packages /\ jobs # {} /\ kinds \in SUBSET Kinds
  BY InstallationAssumption DEF Selections
<1> DEFINE s == [Idle EXCEPT !.what = "install", !.all = all, !.asked = jobs, !.jobs = jobs,
                             !.kinds = kinds, !.phase = "index"]
<1>3. /\ s.what = "install" /\ s.asked = jobs /\ s.jobs = jobs /\ s.kinds = kinds /\ s.phase = "index"
      /\ s.got = {} /\ s.todo = {} /\ s.writing = {}
  BY Zenon DEF Idle
<1>4. s \in Steps
  <2>1. 0 \in 0 .. MaxRedirects
    BY InstallationAssumption
  <2> QED
    BY <1>2, <2>1, Zenon DEF Idle, Steps
<1> HIDE DEF s
<1>5. Alters(c) /\ cmd'[c] = s
  BY <1>1, <1>4, BecomeOne DEF Alters, Install, s
<1>6. OnItsWay(c)' /\ Apart(c)'
  BY <1>2, <1>3, <1>5 DEF OnItsWay, Apart, Fetching, Writing
<1>7. Covered(c)'
  BY <1>2, <1>3, <1>5 DEF Covered, Asked, Fetching, Writing
<1> QED
  BY <1>3, <1>5, <1>6, <1>7 DEF CommandOK

\* A local binary is a package of one.
LEMMA InstallBinaryOK ==
  ASSUME TypeOK, NEW c \in Commands, InstallBinary(c)
  PROVE  Alters(c) /\ CommandOK(c)' /\ cmd'[c].got = {} /\ cmd'[c].writing = {} /\ cmd'[c].phase # "done"
<1>1. PICK b \in Bins :
        Become(c, [Idle EXCEPT !.what = "binary", !.phase = "extract", !.todo = {b},
                               !.asked = {b[1]}, !.jobs = {b[1]}, !.kinds = {b[2]}])
  BY DEF InstallBinary
<1>2. b[1] \in Packages /\ b[2] \in Kinds /\ b = <<b[1], b[2]>>
  BY DEF Bins
<1> DEFINE s == [Idle EXCEPT !.what = "binary", !.phase = "extract", !.todo = {b},
                             !.asked = {b[1]}, !.jobs = {b[1]}, !.kinds = {b[2]}]
<1>3. /\ s.what = "binary" /\ s.asked = {b[1]} /\ s.jobs = {b[1]} /\ s.kinds = {b[2]}
      /\ s.phase = "extract" /\ s.body = "good" /\ s.got = {} /\ s.todo = {b} /\ s.writing = {}
  BY Zenon DEF Idle
<1>4. s \in Steps
  <2>1. 0 \in 0 .. MaxRedirects
    BY InstallationAssumption
  <2>2. {b} \in SUBSET Bins /\ {b[1]} \in SUBSET Packages /\ {b[2]} \in SUBSET Kinds
    BY <1>2
  <2> QED
    BY <2>1, <2>2, Zenon DEF Idle, Steps
<1> HIDE DEF s
<1>5. Alters(c) /\ cmd'[c] = s
  BY <1>1, <1>4, BecomeOne DEF Alters, InstallBinary, s
<1>6. Job(c)' = b[1]
  BY <1>2, <1>3, <1>5, FirstOne, JobIsFirst
<1>7. OnItsWay(c)'
  BY <1>3, <1>5 DEF OnItsWay, Fetching, Writing
<1>8. Apart(c)'
  BY <1>3, <1>5, <1>6 DEF Apart, Due, Fetching, Writing
<1>9. Covered(c)'
  BY <1>2, <1>3, <1>5, <1>6 DEF Covered, Asked, Fetching, Writing
<1> QED
  BY <1>3, <1>5, <1>7, <1>8, <1>9 DEF CommandOK

\* What an uninstall removes it has listed.
LEMMA UninstallOK ==
  ASSUME TypeOK, NEW c \in Commands, Uninstall(c)
  PROVE  Alters(c) /\ CommandOK(c)' /\ cmd'[c].got = {} /\ cmd'[c].writing = {} /\ cmd'[c].phase # "done"
<1>1. PICK p \in Packages, kinds \in Selections :
        LET named == {p} \cup IF kinds = Kinds /\ p = 1 THEN Suffixed ELSE {}
        IN Become(c, [Idle EXCEPT !.what = "uninstall", !.phase = "remove", !.asked = {p}, !.kinds = kinds,
                                  !.todo = {b \in named \X kinds : file[b] # Absent}])
  BY DEF Uninstall
<1> DEFINE named == {p} \cup IF kinds = Kinds /\ p = 1 THEN Suffixed ELSE {}
           todo == {b \in named \X kinds : file[b] # Absent}
           s == [Idle EXCEPT !.what = "uninstall", !.phase = "remove", !.asked = {p}, !.kinds = kinds,
                             !.todo = todo]
<1>2. todo \in SUBSET Bins /\ {p} \in SUBSET Packages /\ kinds \in SUBSET Kinds
  <2>1. named \subseteq Packages /\ kinds \subseteq Kinds
    BY InstallationAssumption DEF Selections
  <2> QED
    BY <2>1 DEF Bins
<1>3. s.what = "uninstall" /\ s.phase = "remove" /\ s.got = {} /\ s.writing = {}
  BY Zenon DEF Idle
<1>4. s \in Steps
  <2>1. 0 \in 0 .. MaxRedirects
    BY InstallationAssumption
  <2> HIDE DEF todo
  <2> QED
    BY <1>2, <2>1, Zenon DEF Idle, Steps
<1>5. Become(c, s)
  BY <1>1
<1> HIDE DEF s
<1>6. Alters(c) /\ cmd'[c] = s
  BY <1>4, <1>5, BecomeOne DEF Alters, Uninstall
<1> QED
  BY <1>3, <1>6 DEF CommandOK, OnItsWay, Apart, Covered, Fetching, Writing

\* An answer moves the command on, with a body that may be garbled, or ends it.
LEMMA FetchOK ==
  ASSUME TypeOK, NEW c \in Commands, CommandOK(c), Fetch(c)
  PROVE  Alters(c) /\ CommandOK(c)' /\ cmd'[c].got \in {cmd[c].got, {}} /\ cmd'[c].phase \notin {"permit", "done"}
         /\ (cmd'[c].phase = "extract" => cmd'[c].writing = {})
<1>0. index' = index
  BY DEF Fetch
<1>1. cmd[c] \in Steps
  BY DEF TypeOK
<1>2. PICK answer \in Answers(c) :
        CASE answer \in {"good", "garbled"} ->
               Become(c, [cmd[c] EXCEPT !.hops = 0, !.phase = After[@], !.body = answer])
          [] answer = "redirect" /\ cmd[c].hops + 1 < MaxRedirects ->
               Become(c, [cmd[c] EXCEPT !.hops = @ + 1])
          [] OTHER -> Fail(c)
  BY DEF Fetch
<1>3. cmd[c].phase \in {"index", "manifest", "artifact"}
  BY DEF Fetch, After
<1>4. CASE Fail(c)
  BY <1>0, <1>4, FailOK
<1>5. ASSUME NEW s \in Steps, Become(c, s), s.phase \in Fetching,
             s.phase \in {"artifact", "verify"} => cmd[c].phase \in {"artifact", "verify"},
             s.what = cmd[c].what, s.asked = cmd[c].asked, s.jobs = cmd[c].jobs, s.kinds = cmd[c].kinds,
             s.todo = cmd[c].todo, s.writing = cmd[c].writing, s.got = cmd[c].got, s.skipped = cmd[c].skipped
      PROVE  Alters(c) /\ CommandOK(c)' /\ cmd'[c].got = cmd[c].got /\ cmd'[c].phase \in Fetching
  <2>1. Alters(c) /\ cmd'[c] = s
    BY <1>0, <1>5, BecomeOne DEF Alters
  <2>2. Job(c)' = Job(c)
    BY <1>5, <2>1, JobIsFirst
  <2>3. cmd[c].phase \in Fetching
    BY <1>3 DEF Fetching
  <2>4. OnItsWay(c)'
    BY <1>0, <1>5, <2>1, <2>2, <2>3 DEF CommandOK, OnItsWay, Fetching, Writing
  <2>5. Apart(c)'
    BY <1>5, <2>1, <2>3 DEF CommandOK, Apart, Fetching, Writing
  <2>6. Covered(c)'
    <3>1. Asked(c)' = Asked(c)
      BY <1>0, <1>5, <2>1 DEF Asked
    <3> QED
      BY <1>5, <2>1, <2>3, <3>1 DEF CommandOK, Covered, Fetching, Writing
  <2> QED
    BY <1>5, <2>1, <2>4, <2>5, <2>6 DEF CommandOK
<1>6. CASE answer \in {"good", "garbled"}
  <2> DEFINE next == After[cmd[c].phase]
             s == [cmd[c] EXCEPT !.hops = 0, !.phase = next, !.body = answer]
  <2>1. next \in Fetching /\ (next \in {"artifact", "verify"} => cmd[c].phase \in {"artifact", "verify"})
    BY <1>3 DEF After, Fetching
  <2> HIDE DEF next
  <2>2. 0 \in 0 .. MaxRedirects
    BY InstallationAssumption
  <2>3. /\ s \in Steps /\ s.phase = next /\ s.what = cmd[c].what /\ s.asked = cmd[c].asked
        /\ s.jobs = cmd[c].jobs /\ s.kinds = cmd[c].kinds /\ s.todo = cmd[c].todo
        /\ s.writing = cmd[c].writing /\ s.got = cmd[c].got /\ s.skipped = cmd[c].skipped
    BY <1>1, <1>6, <2>1, <2>2 DEF Steps, Fetching
  <2>4. Become(c, s)
    BY <1>2, <1>6 DEF next
  <2> HIDE DEF s
  <2> QED
    BY <1>5, <2>1, <2>3, <2>4 DEF Fetching
<1>7. CASE answer = "redirect" /\ cmd[c].hops + 1 < MaxRedirects
  <2> DEFINE s == [cmd[c] EXCEPT !.hops = @ + 1]
  <2>1. cmd[c].hops + 1 \in 0 .. MaxRedirects
    BY <1>1, <1>7, InstallationAssumption DEF Steps
  <2>2. /\ s \in Steps /\ s.phase = cmd[c].phase /\ s.what = cmd[c].what /\ s.asked = cmd[c].asked
        /\ s.jobs = cmd[c].jobs /\ s.kinds = cmd[c].kinds /\ s.todo = cmd[c].todo
        /\ s.writing = cmd[c].writing /\ s.got = cmd[c].got /\ s.skipped = cmd[c].skipped
    BY <1>1, <2>1 DEF Steps
  <2>3. Become(c, s)
    BY <1>2, <1>7
  <2> HIDE DEF s
  <2> QED
    BY <1>3, <1>5, <2>2, <2>3 DEF Fetching
<1> QED
  BY <1>2, <1>4, <1>6, <1>7

\* The next package is one of those left; the one behind is done or skipped.
LEMMA NextJobOK ==
  ASSUME TypeOK, NEW c \in Commands, NEW skipped \in SUBSET Packages, NextJob(c, skipped), index' = index,
         CommandOK(c), cmd[c].writing = {}, cmd[c].todo = {},
         cmd[c].phase = "manifested" \/ (cmd[c].phase = "extract" /\ cmd[c].what \in {"install", "binary"}),
         cmd[c].what = "install" =>
           \A b \in Asked(c) : b[1] = Job(c) => b \in cmd[c].got \/ b[1] \in skipped
  PROVE  /\ Alters(c) /\ CommandOK(c)' /\ cmd'[c].got \in {cmd[c].got, {}} /\ cmd'[c].writing = {}
         /\ cmd'[c].phase \in {"done", "manifest"}
         /\ cmd'[c].phase = "done" => cmd[c].jobs = {Job(c)} /\ cmd'[c].skipped = cmd[c].skipped \cup skipped
<1> DEFINE rest == cmd[c].jobs \ {Job(c)}
           all == cmd[c].skipped \cup skipped
<1>1. cmd[c] \in Steps /\ cmd[c].phase \in Fetching \cup Writing
  BY DEF TypeOK, Fetching, Writing
<1>2. cmd[c].jobs # {} /\ cmd[c].jobs \subseteq cmd[c].asked /\ cmd[c].jobs \in SUBSET Packages
  BY <1>1 DEF CommandOK, OnItsWay, Steps
<1>3. Job(c) \in cmd[c].jobs
  BY <1>2, FirstOne, JobIsFirst
<1>4. rest \in SUBSET Packages /\ all \in SUBSET Packages
  BY <1>1, <1>2 DEF Steps
<1>5. CASE rest = {}
  <2>1. End(c, "done", all)
    BY <1>5 DEF NextJob
  <2> HIDE DEF all
  <2>2. Alters(c) /\ cmd'[c].phase = "done" /\ cmd'[c].got = {} /\ cmd'[c].writing = {} /\ cmd'[c].skipped = all
    BY <1>4, <2>1, EndStep DEF Alters
  <2>3. CommandOK(c)'
    BY <2>2, EndOK
  <2>4. cmd[c].jobs = {Job(c)}
    BY <1>3, <1>5
  <2> QED
    BY <2>2, <2>3, <2>4 DEF all
<1>6. CASE rest # {}
  <2> DEFINE s == [cmd[c] EXCEPT !.jobs = rest, !.body = "good", !.skipped = all, !.phase = "manifest"]
  <2>1. Become(c, s)
    BY <1>6 DEF NextJob
  <2> HIDE DEF rest, all
  <2>2. /\ s \in Steps /\ s.phase = "manifest" /\ s.jobs = rest /\ s.skipped = all
        /\ s.what = cmd[c].what /\ s.asked = cmd[c].asked /\ s.kinds = cmd[c].kinds
        /\ s.todo = cmd[c].todo /\ s.writing = cmd[c].writing /\ s.got = cmd[c].got
    BY <1>1, <1>4 DEF Steps
  <2> HIDE DEF s
  <2>3. Alters(c) /\ cmd'[c] = s
    BY <2>1, <2>2, BecomeOne DEF Alters
  <2>4. cmd[c].what = "install"
    <3>1. CASE cmd[c].phase = "manifested"
      BY <3>1 DEF CommandOK, OnItsWay, Fetching
    <3>2. CASE cmd[c].phase = "extract" /\ cmd[c].what = "binary"
      BY <1>6, <3>2 DEF CommandOK, Covered, Writing, rest
    <3> QED
      BY <3>1, <3>2
  <2>5. OnItsWay(c)'
    BY <1>2, <1>6, <2>2, <2>3, <2>4 DEF OnItsWay, Fetching, Writing, rest
  <2>6. Apart(c)'
    <3>1. \A b \in cmd[c].got : b[1] \notin cmd[c].jobs \/ b[1] = Job(c)
      BY <1>1 DEF CommandOK, Apart, Fetching, Writing
    <3> QED
      BY <2>2, <2>3, <3>1 DEF Apart, Fetching, Writing, rest
  <2>7. Covered(c)'
    <3>1. Asked(c)' = Asked(c)
      BY <2>2, <2>3 DEF Asked, Alters
    <3>2. \A b \in Asked(c) : b \in cmd[c].got \/ b[1] \in cmd[c].jobs \cup cmd[c].skipped
      BY <1>1, <2>4 DEF CommandOK, Covered
    <3>3. \A b \in Asked(c) : b \in cmd[c].got \/ b[1] \in rest \cup all
      BY <2>4, <3>2 DEF rest, all
    <3> QED
      BY <2>2, <2>3, <2>4, <3>1, <3>3 DEF Covered, Fetching, Writing
  <2> QED
    BY <2>2, <2>3, <2>5, <2>6, <2>7 DEF CommandOK
<1> QED
  BY <1>5, <1>6

\* A manifest that is usable is followed by the archive; any other ends the
\* command or skips its package.
LEMMA ReadManifestOK ==
  ASSUME TypeOK, NEW c \in Commands, CommandOK(c), ReadManifest(c)
  PROVE  /\ Alters(c) /\ CommandOK(c)' /\ cmd'[c].got \in {cmd[c].got, {}} /\ cmd'[c].writing = {}
         /\ cmd'[c].phase = "done" =>
              \A b \in Asked(c) : b[1] \notin cmd'[c].skipped => b \in cmd[c].got
<1>0. index' = index /\ cmd[c].phase = "manifested"
  BY DEF ReadManifest, At
<1>1. cmd[c] \in Steps
  BY DEF TypeOK
<1>2. cmd[c].what = "install" /\ cmd[c].todo = {} /\ cmd[c].writing = {} /\ cmd[c].jobs # {}
  BY <1>0 DEF CommandOK, OnItsWay, Fetching
<1>3. CASE Fail(c)
  BY <1>0, <1>3, FailOK
<1>4. CASE NextJob(c, {Job(c)})
  <2>1. {Job(c)} \in SUBSET Packages
    BY <1>1, <1>2, FirstOne, JobIsFirst DEF Steps
  <2>2. \A b \in Asked(c) : b[1] = Job(c) => b[1] \in {Job(c)}
    OBVIOUS
  <2>3. /\ Alters(c) /\ CommandOK(c)' /\ cmd'[c].got \in {cmd[c].got, {}} /\ cmd'[c].writing = {}
        /\ cmd'[c].phase = "done" => cmd[c].jobs = {Job(c)} /\ cmd'[c].skipped = cmd[c].skipped \cup {Job(c)}
    BY <1>0, <1>2, <1>4, <2>1, <2>2, NextJobOK
  <2>4. \A b \in Asked(c) : b \in cmd[c].got \/ b[1] \in cmd[c].jobs \cup cmd[c].skipped
    BY <1>0, <1>2 DEF CommandOK, Covered, Fetching
  <2> QED
    BY <2>3, <2>4
<1>5. CASE Compatible(c) /\ Go(c, "artifact")
  <2>1. /\ Alters(c) /\ cmd'[c].phase = "artifact"
        /\ cmd'[c].what = cmd[c].what /\ cmd'[c].asked = cmd[c].asked /\ cmd'[c].jobs = cmd[c].jobs
        /\ cmd'[c].kinds = cmd[c].kinds /\ cmd'[c].todo = cmd[c].todo
        /\ cmd'[c].writing = cmd[c].writing /\ cmd'[c].got = cmd[c].got /\ cmd'[c].skipped = cmd[c].skipped
    BY <1>0, <1>5, GoStep
  <2>2. Job(c)' = Job(c) /\ index[Job(c)].usable
    BY <1>5, <2>1, JobIsFirst DEF Compatible
  <2>3. OnItsWay(c)'
    BY <1>0, <2>1, <2>2 DEF CommandOK, OnItsWay, Fetching, Writing
  <2>4. Apart(c)'
    BY <1>0, <2>1 DEF CommandOK, Apart, Fetching, Writing
  <2>5. Asked(c)' = Asked(c)
    BY <1>0, <2>1 DEF Asked
  <2>6. Covered(c)'
    BY <1>0, <2>1, <2>5 DEF CommandOK, Covered, Fetching, Writing
  <2> QED
    BY <1>2, <2>1, <2>3, <2>4, <2>6 DEF CommandOK
<1> QED
  BY <1>3, <1>4, <1>5 DEF ReadManifest

\* Only an archive with its checksum is unpacked: of it what is asked for.
LEMMA VerifyOK ==
  ASSUME TypeOK, NEW c \in Commands, CommandOK(c), Verify(c)
  PROVE  Alters(c) /\ CommandOK(c)' /\ cmd'[c].got \in {cmd[c].got, {}} /\ cmd'[c].writing = {}
         /\ cmd'[c].phase # "done"
<1>0. index' = index /\ cmd[c].phase = "verify"
  BY DEF Verify, At
<1>1. cmd[c] \in Steps
  BY DEF TypeOK
<1>2. /\ cmd[c].what = "install" /\ cmd[c].writing = {} /\ cmd[c].jobs # {} /\ cmd[c].jobs \subseteq cmd[c].asked
      /\ index[Job(c)].usable
  BY <1>0 DEF CommandOK, OnItsWay, Fetching
<1>3. Job(c) \in cmd[c].jobs /\ Job(c) \in Packages
  BY <1>1, <1>2, FirstOne, JobIsFirst DEF Steps
<1>4. CASE Fail(c)
  BY <1>0, <1>4, FailOK
<1>5. CASE cmd[c].body = "good" /\ Become(c, [cmd[c] EXCEPT !.phase = "extract", !.todo = Unpacked(c)])
  <2> DEFINE todo == Unpacked(c)
             s == [cmd[c] EXCEPT !.phase = "extract", !.todo = todo]
  <2>1. \A b \in todo : b[1] = Job(c) /\ b[2] \in index[Job(c)].provides \cap cmd[c].kinds
    BY DEF Unpacked, Wanted
  <2>2. todo \in SUBSET Bins
    <3>1. cmd[c].kinds \subseteq Kinds
      BY <1>1 DEF Steps
    <3> QED
      BY <1>3, <3>1 DEF Unpacked, Wanted, Bins
  <2>3. Become(c, s)
    BY <1>5
  <2> HIDE DEF todo
  <2>4. /\ s \in Steps /\ s.phase = "extract" /\ s.todo = todo /\ s.body = cmd[c].body /\ s.jobs = cmd[c].jobs
        /\ s.skipped = cmd[c].skipped /\ s.what = cmd[c].what /\ s.asked = cmd[c].asked
        /\ s.kinds = cmd[c].kinds /\ s.writing = cmd[c].writing /\ s.got = cmd[c].got
    BY <1>1, <2>2 DEF Steps
  <2> HIDE DEF s
  <2>5. Alters(c) /\ cmd'[c] = s
    BY <1>0, <2>3, <2>4, BecomeOne DEF Alters
  <2>6. Job(c)' = Job(c)
    BY <2>4, <2>5, JobIsFirst
  <2>7. OnItsWay(c)'
    BY <1>2, <1>5, <2>4, <2>5 DEF OnItsWay, Fetching, Writing
  <2>8. Apart(c)'
    <3>1. \A b \in cmd[c].got : b[1] \notin cmd[c].jobs
      BY <1>0 DEF CommandOK, Apart, Fetching
    <3>2. \A b \in todo : Due(c, b)' /\ b \notin cmd[c].got
      BY <1>0, <1>2, <1>3, <2>1, <2>4, <2>5, <2>6, <3>1 DEF Due
    <3> QED
      BY <1>2, <2>4, <2>5, <3>1, <3>2 DEF Apart, Fetching, Writing
  <2>9. Covered(c)'
    <3>1. Asked(c)' = Asked(c)
      BY <1>0, <2>4, <2>5 DEF Asked
    <3> QED
      BY <1>0, <1>2, <2>4, <2>5, <3>1 DEF CommandOK, Covered, Fetching, Writing
  <2> QED
    BY <1>2, <2>4, <2>5, <2>7, <2>8, <2>9 DEF CommandOK
<1> QED
  BY <1>4, <1>5 DEF Verify, Checksum

\* A package is done when all of it was written.
LEMMA ConcludeOK ==
  ASSUME TypeOK, NEW c \in Commands, CommandOK(c), Conclude(c)
  PROVE  /\ Alters(c) /\ CommandOK(c)' /\ cmd'[c].got \in {cmd[c].got, {}} /\ cmd'[c].writing = {}
         /\ cmd'[c].phase \in {"done", "manifest", "failed"}
         /\ cmd'[c].phase = "done" =>
              \A b \in Asked(c) : b[1] \notin cmd'[c].skipped => b \in cmd[c].got
<1>0. index' = index /\ cmd[c].phase = "extract" /\ cmd[c].writing = {} /\ cmd[c].todo = {}
  BY DEF Conclude, At
<1>1. cmd[c].what \in {"install", "binary"}
  BY <1>0 DEF CommandOK, OnItsWay, Writing
<1>2. CASE Fail(c)
  BY <1>0, <1>2, FailOK
<1>3. CASE Complete(c) /\ NextJob(c, {})
  <2>1. ASSUME cmd[c].what = "install", NEW b \in Asked(c), b[1] = Job(c) PROVE b \in cmd[c].got
    <3>1. b = <<Job(c), b[2]>> /\ b[2] \in index[Job(c)].provides \cap cmd[c].kinds
      BY <2>1 DEF Asked
    <3>2. b \in Wanted(c)
      BY <3>1 DEF Wanted
    <3> QED
      BY <1>3, <2>1, <3>2 DEF Complete
  <2>2. {} \in SUBSET Packages
    OBVIOUS
  <2>3. /\ Alters(c) /\ CommandOK(c)' /\ cmd'[c].got \in {cmd[c].got, {}} /\ cmd'[c].writing = {}
        /\ cmd'[c].phase \in {"done", "manifest"}
        /\ cmd'[c].phase = "done" => cmd[c].jobs = {Job(c)} /\ cmd'[c].skipped = cmd[c].skipped \cup {}
    BY <1>0, <1>1, <1>3, <2>1, <2>2, NextJobOK
  <2>4. ASSUME cmd'[c].phase = "done", NEW b \in Asked(c), b[1] \notin cmd'[c].skipped PROVE b \in cmd[c].got
    <3>1. cmd[c].jobs = {Job(c)} /\ b[1] \notin cmd[c].skipped
      BY <2>3, <2>4
    <3>2. CASE cmd[c].what = "install"
      BY <1>0, <2>1, <3>1, <3>2 DEF CommandOK, Covered, Fetching, Writing
    <3>3. CASE cmd[c].what = "binary"
      BY <1>0, <3>3 DEF CommandOK, Covered, Fetching, Writing
    <3> QED
      BY <1>1, <3>2, <3>3
  <2> QED
    BY <2>3, <2>4
<1> QED
  BY <1>2, <1>3 DEF Conclude

\* What is true of the directory.
DirectoryOK ==
  /\ OpenedBy
  /\ \A c \in Commands, b \in Bins : Alone(c, b)
  /\ OnlyVerified

\* While the directory is as it was, a command that writes nothing changes
\* nothing of what is true of it.
LEMMA DirectoryKept ==
  ASSUME NEW c \in Commands, DirectoryOK, Alters(c), UNCHANGED <<file, open>>,
         cmd'[c].got \in {cmd[c].got, {}}, cmd'[c].phase \in Writing => cmd'[c].writing = {}
  PROVE  DirectoryOK'
<1>1. OpenedBy' /\ OnlyVerified'
  BY DEF DirectoryOK, OpenedBy, OnlyVerified
<1>2. ASSUME NEW d \in Commands, NEW b \in Bins PROVE Alone(d, b)'
  <2>1. Alone(d, b)
    BY DEF DirectoryOK
  <2>2. CASE d = c
    BY <2>1, <2>2 DEF Alone, Writing
  <2>3. CASE d # c
    <3>1. cmd'[d] = cmd[d]
      BY <2>3 DEF Alters
    <3> QED
      BY <2>1, <3>1 DEF Alone
  <2> QED
    BY <2>2, <2>3
<1> QED
  BY <1>1, <1>2 DEF DirectoryOK

\* Whoever opens a binary truncates it, and is the last that wrote it.
LEMMA OpenOK ==
  ASSUME TypeOK, NEW c \in Commands, CommandOK(c), DirectoryOK, Open(c)
  PROVE  TypeOK' /\ Alters(c) /\ CommandOK(c)' /\ DirectoryOK' /\ cmd'[c].phase # "done"
<1>0. index' = index /\ running' = running /\ cmd[c].phase = "extract" /\ cmd[c].writing = {}
  BY DEF Open, At
<1>1. cmd[c] \in Steps
  BY DEF TypeOK
<1>2. PICK b \in cmd[c].todo :
        \/ /\ file' = [file EXCEPT ![b].content = "partial", ![b].by = open[b] \cup {c}]
           /\ open' = [open EXCEPT ![b] = @ \cup {c}]
           /\ Become(c, [cmd[c] EXCEPT !.writing = {b}])
        \/ Fail(c) /\ UNCHANGED <<file, open>>
  BY DEF Open
<1>3. b \in Bins
  BY <1>1, <1>2 DEF Steps
<1>4. CASE Fail(c) /\ UNCHANGED <<file, open>>
  <2>1. Alters(c) /\ CommandOK(c)' /\ cmd'[c].got = {} /\ cmd'[c].writing = {} /\ cmd'[c].phase = "failed"
    BY <1>0, <1>4, FailOK
  <2>2. DirectoryOK'
    BY <1>4, <2>1, DirectoryKept
  <2>3. TypeOK'
    BY <1>0, <1>4, <2>1 DEF TypeOK, Alters
  <2> QED
    BY <2>1, <2>2, <2>3
<1>5. CASE /\ file' = [file EXCEPT ![b].content = "partial", ![b].by = open[b] \cup {c}]
           /\ open' = [open EXCEPT ![b] = @ \cup {c}]
           /\ Become(c, [cmd[c] EXCEPT !.writing = {b}])
  <2> DEFINE s == [cmd[c] EXCEPT !.writing = {b}]
  <2>1. /\ s \in Steps /\ s.writing = {b} /\ s.phase = "extract" /\ s.todo = cmd[c].todo /\ s.body = cmd[c].body
        /\ s.jobs = cmd[c].jobs /\ s.skipped = cmd[c].skipped /\ s.what = cmd[c].what
        /\ s.asked = cmd[c].asked /\ s.kinds = cmd[c].kinds /\ s.got = cmd[c].got
    BY <1>0, <1>1, <1>3 DEF Steps
  <2>2. Become(c, s)
    BY <1>5
  <2> HIDE DEF s
  <2>3. Alters(c) /\ cmd'[c] = s
    BY <1>0, <2>1, <2>2, BecomeOne DEF Alters
  <2>4. CommandOK(c)'
    <3>1. Job(c)' = Job(c)
      BY <2>1, <2>3, JobIsFirst
    <3>2. OnItsWay(c)'
      BY <1>0, <2>1, <2>3 DEF CommandOK, OnItsWay, Fetching, Writing
    <3>3. \A a : Due(c, a)' <=> Due(c, a)
      BY <1>0, <2>1, <2>3, <3>1 DEF Due
    <3>4. Apart(c)'
      BY <1>0, <1>2, <2>1, <2>3, <3>1, <3>3 DEF CommandOK, Apart, Fetching, Writing
    <3>5. Asked(c)' = Asked(c)
      BY <1>0, <2>1, <2>3 DEF Asked
    <3>6. Covered(c)'
      BY <1>0, <2>1, <2>3, <3>1, <3>5 DEF CommandOK, Covered, Fetching, Writing
    <3> QED
      BY <3>2, <3>4, <3>6 DEF CommandOK
  <2>5. /\ file'[b] = [content |-> "partial", exec |-> file[b].exec, by |-> open[b] \cup {c}]
        /\ \A a \in Bins : a # b => file'[a] = file[a] /\ open'[a] = open[a]
        /\ open'[b] = open[b] \cup {c}
    BY <1>3, <1>5 DEF TypeOK
  <2>6. TypeOK'
    <3>1. open' \in [Bins -> SUBSET Commands]
      BY <1>3, <1>5 DEF TypeOK
    <3>2. file' \in [Bins -> [content : OldContents \cup Commands, exec : BOOLEAN, by : SUBSET Commands]]
      <4>1. file'[b] \in [content : OldContents \cup Commands, exec : BOOLEAN, by : SUBSET Commands]
        BY <1>3, <2>5 DEF TypeOK, OldContents
      <4>2. DOMAIN file' = Bins /\ file' = [a \in Bins |-> file'[a]]
        BY <1>5 DEF TypeOK
      <4> QED
        BY <2>5, <4>1, <4>2 DEF TypeOK
    <3> QED
      BY <1>0, <2>3, <3>1, <3>2 DEF TypeOK, Alters
  <2>7. OpenedBy' /\ OnlyVerified'
    BY <2>5 DEF DirectoryOK, OpenedBy, OnlyVerified
  <2>8. ASSUME NEW d \in Commands, NEW a \in Bins PROVE Alone(d, a)'
    <3>1. Alone(d, a)
      BY DEF DirectoryOK
    <3>2. CASE d = c
      <4>1. b \notin cmd[c].got
        BY <1>0, <1>2 DEF CommandOK, Apart, Writing
      <4>2. CASE a = b
        BY <2>1, <2>3, <2>5, <3>2, <4>1, <4>2 DEF Alone
      <4>3. CASE a # b
        BY <2>1, <2>3, <2>5, <3>1, <3>2, <4>3 DEF Alone
      <4> QED
        BY <4>2, <4>3
    <3>3. CASE d # c
      <4>1. cmd'[d] = cmd[d]
        BY <2>3, <3>3 DEF Alters
      <4>2. a = b => c \in file'[a].by
        BY <2>5
      <4>3. d \in file'[a].by /\ a = b => d \in open'[a]
        BY <2>5
      <4> QED
        BY <2>5, <3>1, <3>3, <4>1, <4>2, <4>3 DEF Alone
    <3> QED
      BY <3>2, <3>3
  <2> QED
    BY <2>1, <2>3, <2>4, <2>6, <2>7, <2>8 DEF DirectoryOK
<1> QED
  BY <1>2, <1>4, <1>5

\* What a command writes is verified, and whole when nobody else has the file.
LEMMA WriteOK ==
  ASSUME TypeOK, NEW c \in Commands, CommandOK(c), DirectoryOK, Write(c)
  PROVE  TypeOK' /\ Alters(c) /\ CommandOK(c)' /\ DirectoryOK' /\ cmd'[c].phase # "done"
<1>0. index' = index /\ running' = running /\ cmd[c].phase = "extract"
  BY DEF Write, At
<1>1. cmd[c] \in Steps
  BY DEF TypeOK
<1>2. PICK b \in cmd[c].writing :
        /\ open' = [open EXCEPT ![b] = @ \ {c}]
        /\ \/ /\ IF c \in open[b]
                 THEN \E content \in {Content(c)} \cup IF file[b].by = {c} THEN {} ELSE {"mixed"} :
                        file' = [file EXCEPT ![b].content = content]
                 ELSE UNCHANGED file
              /\ Go(c, "permit")
           \/ Fail(c) /\ UNCHANGED file
  BY DEF Write
<1>3. b \in Bins /\ b \notin cmd[c].got
  BY <1>0, <1>1, <1>2 DEF CommandOK, Apart, Writing, Steps
<1>4. Content(c) = c /\ c \notin OldContents
  BY <1>0, InstallationAssumption DEF CommandOK, OnItsWay, Writing, Content
<1>5. /\ open' \in [Bins -> SUBSET Commands] /\ open'[b] = open[b] \ {c}
      /\ \A a \in Bins : a # b => open'[a] = open[a]
  BY <1>2, <1>3 DEF TypeOK
<1> DEFINE Effect ==
      /\ file' \in [Bins -> [content : OldContents \cup Commands, exec : BOOLEAN, by : SUBSET Commands]]
      /\ \A a \in Bins : file'[a].by = file[a].by /\ file'[a].exec = file[a].exec
      /\ \A a \in Bins : a # b => file'[a] = file[a]
      /\ c \notin open[b] => file'[b] = file[b]
      /\ file'[b].content \in {file[b].content, c, "mixed"}
      /\ c \in open[b] /\ file[b].by = {c} /\ cmd'[c].phase = "permit" => file'[b].content = c
<1>6. Effect
  <2>1. CASE UNCHANGED file /\ (c \notin open[b] \/ Fail(c))
    <3>1. Fail(c) => cmd'[c].phase = "failed"
      BY <1>0, FailOK
    <3> QED
      BY <2>1, <3>1 DEF TypeOK
  <2>2. ASSUME NEW content \in {c} \cup IF file[b].by = {c} THEN {} ELSE {"mixed"},
               file' = [file EXCEPT ![b].content = content], c \in open[b]
        PROVE  Effect
    <3>1. content \in OldContents \cup Commands
      BY <2>2 DEF OldContents
    <3>2. /\ file' \in [Bins -> [content : OldContents \cup Commands, exec : BOOLEAN, by : SUBSET Commands]]
          /\ file'[b] = [content |-> content, exec |-> file[b].exec, by |-> file[b].by]
          /\ \A a \in Bins : a # b => file'[a] = file[a]
      BY <1>3, <2>2, <3>1 DEF TypeOK
    <3>3. file'[b].content = content /\ file'[b].exec = file[b].exec /\ file'[b].by = file[b].by
      BY <3>2
    <3>4. \A a \in Bins : file'[a].by = file[a].by /\ file'[a].exec = file[a].exec
      BY <3>2, <3>3
    <3>5. content \in {c, "mixed"} /\ (file[b].by = {c} => content = c)
      BY <2>2
    <3> QED
      BY <2>2, <3>2, <3>3, <3>4, <3>5
  <2> QED
    BY <1>2, <1>4, <2>1, <2>2
<1>7. OpenedBy' /\ OnlyVerified'
  <2>1. OpenedBy'
    BY <1>5, <1>6 DEF DirectoryOK, OpenedBy
  <2>2. c # "garbled"
    BY <1>4 DEF OldContents
  <2> QED
    BY <1>6, <2>1, <2>2 DEF DirectoryOK, OnlyVerified
<1>8. ASSUME NEW d \in Commands, d # c, NEW a \in Bins, Alters(c) PROVE Alone(d, a)'
  <2>1. Alone(d, a) /\ cmd'[d] = cmd[d]
    BY <1>8 DEF DirectoryOK, Alters
  <2>2. a = b /\ file[a].by = {d} => file'[a] = file[a]
    BY <1>3, <1>6, <1>8 DEF DirectoryOK, OpenedBy
  <2>3. d \in open[a] => d \in open'[a]
    BY <1>5, <1>8
  <2> QED
    BY <1>6, <2>1, <2>2, <2>3 DEF Alone
<1>9. CASE Fail(c)
  <2>1. Alters(c) /\ CommandOK(c)' /\ cmd'[c].got = {} /\ cmd'[c].writing = {} /\ cmd'[c].phase = "failed"
    BY <1>0, <1>9, FailOK
  <2>2. \A a \in Bins : Alone(c, a)'
    BY <2>1 DEF Alone
  <2>3. TypeOK'
    BY <1>0, <1>5, <1>6, <2>1 DEF TypeOK, Alters
  <2> QED
    BY <1>7, <1>8, <2>1, <2>2, <2>3 DEF DirectoryOK
<1>10. CASE Go(c, "permit")
  <2>1. /\ Alters(c) /\ cmd'[c].phase = "permit"
        /\ cmd'[c].what = cmd[c].what /\ cmd'[c].asked = cmd[c].asked /\ cmd'[c].jobs = cmd[c].jobs
        /\ cmd'[c].kinds = cmd[c].kinds /\ cmd'[c].body = cmd[c].body /\ cmd'[c].todo = cmd[c].todo
        /\ cmd'[c].writing = cmd[c].writing /\ cmd'[c].got = cmd[c].got /\ cmd'[c].skipped = cmd[c].skipped
    BY <1>0, <1>10, GoStep
  <2>2. CommandOK(c)'
    <3>1. Job(c)' = Job(c) /\ Asked(c)' = Asked(c)
      BY <1>0, <2>1, JobIsFirst DEF Asked
    <3>2. \A a : Due(c, a)' <=> Due(c, a)
      BY <1>0, <2>1, <3>1 DEF Due
    <3>3. OnItsWay(c)'
      BY <1>0, <2>1 DEF CommandOK, OnItsWay, Fetching, Writing
    <3>4. Apart(c)'
      BY <1>0, <2>1, <3>1, <3>2 DEF CommandOK, Apart, Fetching, Writing
    <3>5. Covered(c)'
      BY <1>0, <2>1, <3>1 DEF CommandOK, Covered, Fetching, Writing
    <3> QED
      BY <3>3, <3>4, <3>5 DEF CommandOK
  <2>3. \A a \in Bins : Alone(c, a)'
    <3> SUFFICES ASSUME NEW a \in Bins PROVE Alone(c, a)'
      OBVIOUS
    <3>1. Alone(c, a)
      BY DEF DirectoryOK
    <3>2. CASE a = b
      BY <1>0, <1>2, <1>3, <1>6, <2>1, <3>1, <3>2 DEF Alone
    <3>3. CASE a # b
      <4>1. a \notin cmd[c].writing
        BY <1>0, <1>2, <3>3 DEF CommandOK, Apart, Writing
      <4> QED
        BY <1>0, <1>6, <2>1, <3>1, <3>3, <4>1 DEF Alone
    <3> QED
      BY <3>2, <3>3
  <2>4. TypeOK'
    BY <1>0, <1>5, <1>6, <2>1 DEF TypeOK, Alters
  <2> QED
    BY <1>7, <1>8, <2>1, <2>2, <2>3, <2>4 DEF DirectoryOK
<1> QED
  BY <1>2, <1>9, <1>10

\* A binary made executable is one the command has; if it is alone there, whole.
LEMMA PermitOK ==
  ASSUME TypeOK, NEW c \in Commands, CommandOK(c), DirectoryOK, Permit(c)
  PROVE  TypeOK' /\ Alters(c) /\ CommandOK(c)' /\ DirectoryOK' /\ cmd'[c].phase # "done"
<1>0. index' = index /\ running' = running /\ open' = open /\ cmd[c].phase = "permit"
  BY DEF Permit, At
<1>1. cmd[c] \in Steps
  BY DEF TypeOK
<1>2. PICK b \in cmd[c].writing :
        IF file[b] = Absent THEN Fail(c) /\ UNCHANGED file
        ELSE /\ file' = [file EXCEPT ![b].exec = TRUE]
             /\ Become(c, [cmd[c] EXCEPT !.phase = "extract", !.writing = {},
                                         !.todo = @ \ {b}, !.got = @ \cup {b}])
  BY DEF Permit
<1>3. b \in Bins /\ Due(c, b) /\ b \in cmd[c].todo
  BY <1>0, <1>1, <1>2 DEF CommandOK, Apart, Writing, Steps
<1>4. CASE Fail(c) /\ UNCHANGED file
  <2>1. Alters(c) /\ CommandOK(c)' /\ cmd'[c].got = {} /\ cmd'[c].writing = {} /\ cmd'[c].phase = "failed"
    BY <1>0, <1>4, FailOK
  <2>2. DirectoryOK'
    BY <1>0, <1>4, <2>1, DirectoryKept
  <2>3. TypeOK'
    BY <1>0, <1>4, <2>1 DEF TypeOK, Alters
  <2> QED
    BY <2>1, <2>2, <2>3
<1>5. CASE /\ file' = [file EXCEPT ![b].exec = TRUE]
           /\ Become(c, [cmd[c] EXCEPT !.phase = "extract", !.writing = {},
                                       !.todo = @ \ {b}, !.got = @ \cup {b}])
  <2> DEFINE s == [cmd[c] EXCEPT !.phase = "extract", !.writing = {}, !.todo = @ \ {b}, !.got = @ \cup {b}]
  <2>1. /\ s \in Steps /\ s.writing = {} /\ s.phase = "extract" /\ s.todo = cmd[c].todo \ {b}
        /\ s.got = cmd[c].got \cup {b} /\ s.body = cmd[c].body
        /\ s.jobs = cmd[c].jobs /\ s.skipped = cmd[c].skipped /\ s.what = cmd[c].what
        /\ s.asked = cmd[c].asked /\ s.kinds = cmd[c].kinds
    BY <1>1, <1>3 DEF Steps
  <2>2. Become(c, s)
    BY <1>5
  <2> HIDE DEF s
  <2>3. Alters(c) /\ cmd'[c] = s
    BY <1>0, <2>1, <2>2, BecomeOne DEF Alters
  <2>4. CommandOK(c)'
    <3>1. Job(c)' = Job(c) /\ Asked(c)' = Asked(c)
      BY <1>0, <2>1, <2>3, JobIsFirst DEF Asked
    <3>2. \A a : Due(c, a)' <=> Due(c, a)
      BY <1>0, <2>1, <2>3, <3>1 DEF Due
    <3>3. OnItsWay(c)'
      BY <1>0, <2>1, <2>3 DEF CommandOK, OnItsWay, Fetching, Writing
    <3>4. b[1] = Job(c)
      BY <1>3 DEF Due
    <3>5. Apart(c)'
      BY <1>0, <2>1, <2>3, <3>1, <3>2, <3>4 DEF CommandOK, Apart, Fetching, Writing
    <3>6. Covered(c)'
      BY <1>0, <2>1, <2>3, <3>1 DEF CommandOK, Covered, Fetching, Writing
    <3> QED
      BY <3>3, <3>5, <3>6 DEF CommandOK
  <2>5. /\ file'[b] = [content |-> file[b].content, exec |-> TRUE, by |-> file[b].by]
        /\ \A a \in Bins : a # b => file'[a] = file[a]
        /\ file' \in [Bins -> [content : OldContents \cup Commands, exec : BOOLEAN, by : SUBSET Commands]]
    BY <1>3, <1>5 DEF TypeOK
  <2>6. TypeOK'
    BY <1>0, <2>3, <2>5 DEF TypeOK, Alters
  <2>7. file'[b].content = file[b].content /\ file'[b].exec /\ file'[b].by = file[b].by
    BY <2>5
  <2>8. \A a \in Bins : file'[a].by = file[a].by /\ file'[a].content = file[a].content
    BY <2>5, <2>7
  <2>9. OpenedBy' /\ OnlyVerified'
    BY <1>0, <2>8 DEF DirectoryOK, OpenedBy, OnlyVerified
  <2>10. ASSUME NEW d \in Commands, NEW a \in Bins PROVE Alone(d, a)'
    <3>1. Alone(d, a)
      BY DEF DirectoryOK
    <3>2. file[a].exec => file'[a].exec
      BY <2>5, <2>7
    <3>3. CASE d = c
      <4>1. CASE a = b
        BY <1>0, <1>2, <2>1, <2>3, <2>7, <3>1, <3>3, <4>1 DEF Alone
      <4>2. CASE a # b
        BY <2>1, <2>3, <2>8, <3>1, <3>2, <3>3, <4>2 DEF Alone
      <4> QED
        BY <4>1, <4>2
    <3>4. CASE d # c
      <4>1. cmd'[d] = cmd[d]
        BY <2>3, <3>4 DEF Alters
      <4> QED
        BY <1>0, <2>8, <3>1, <3>2, <4>1 DEF Alone
    <3> QED
      BY <3>3, <3>4
  <2> QED
    BY <2>1, <2>3, <2>4, <2>6, <2>9, <2>10 DEF DirectoryOK
<1> QED
  BY <1>2, <1>4, <1>5

\* What is removed is gone for everybody.
LEMMA RemoveOK ==
  ASSUME TypeOK, NEW c \in Commands, CommandOK(c), DirectoryOK, Remove(c)
  PROVE  TypeOK' /\ Alters(c) /\ CommandOK(c)' /\ DirectoryOK'
<1>0. index' = index /\ cmd[c].phase = "remove"
  BY DEF Remove, At
<1>1. cmd[c] \in Steps
  BY DEF TypeOK
<1>2. cmd[c].what = "uninstall" /\ cmd[c].writing = {} /\ cmd[c].got = {}
  BY <1>0 DEF CommandOK, OnItsWay, Apart
<1>3. CASE End(c, "done", {}) /\ UNCHANGED dir
  <2>1. {} \in SUBSET Packages /\ UNCHANGED <<file, open, running>>
    BY <1>3 DEF dir
  <2>2. Alters(c) /\ CommandOK(c)' /\ cmd'[c].got = {} /\ cmd'[c].writing = {}
    BY <1>0, <1>3, <2>1, EndStep, EndOK DEF Alters
  <2>3. DirectoryOK'
    BY <2>1, <2>2, DirectoryKept
  <2>4. TypeOK'
    BY <1>0, <2>1, <2>2 DEF TypeOK, Alters
  <2> QED
    BY <2>2, <2>3, <2>4
<1>4. CASE Fail(c) /\ UNCHANGED dir
  <2>1. UNCHANGED <<file, open, running>>
    BY <1>4 DEF dir
  <2>2. Alters(c) /\ CommandOK(c)' /\ cmd'[c].got = {} /\ cmd'[c].writing = {}
    BY <1>0, <1>4, FailOK
  <2>3. DirectoryOK'
    BY <2>1, <2>2, DirectoryKept
  <2>4. TypeOK'
    BY <1>0, <2>1, <2>2 DEF TypeOK, Alters
  <2> QED
    BY <2>2, <2>3, <2>4
<1>5. ASSUME NEW b \in cmd[c].todo, file' = [file EXCEPT ![b] = Absent], open' = [open EXCEPT ![b] = {}],
             running' = running \ {b}, Become(c, [cmd[c] EXCEPT !.todo = @ \ {b}])
      PROVE  TypeOK' /\ Alters(c) /\ CommandOK(c)' /\ DirectoryOK'
  <2>1. b \in Bins
    BY <1>1 DEF Steps
  <2> DEFINE s == [cmd[c] EXCEPT !.todo = @ \ {b}]
  <2>2. s \in Steps /\ s.phase = "remove" /\ s.what = "uninstall" /\ s.writing = {} /\ s.got = {}
    BY <1>0, <1>1, <1>2 DEF Steps
  <2>3. Become(c, s)
    BY <1>5
  <2> HIDE DEF s
  <2>4. Alters(c) /\ cmd'[c] = s
    BY <1>0, <2>2, <2>3, BecomeOne DEF Alters
  <2>5. CommandOK(c)'
    BY <2>2, <2>4 DEF CommandOK, OnItsWay, Apart, Covered, Fetching, Writing
  <2>6. /\ file'[b] = Absent /\ open'[b] = {}
        /\ \A a \in Bins : a # b => file'[a] = file[a] /\ open'[a] = open[a]
    BY <1>5, <2>1 DEF TypeOK
  <2>7. Absent.content = "none" /\ Absent.by = {}
        /\ Absent \in [content : OldContents \cup Commands, exec : BOOLEAN, by : SUBSET Commands]
    BY DEF Absent, OldContents
  <2>8. TypeOK'
    <3>1. file' \in [Bins -> [content : OldContents \cup Commands, exec : BOOLEAN, by : SUBSET Commands]]
      BY <1>5, <2>7 DEF TypeOK
    <3>2. open' \in [Bins -> SUBSET Commands] /\ running' \subseteq Bins
      BY <1>5 DEF TypeOK
    <3> QED
      BY <1>0, <2>4, <3>1, <3>2 DEF TypeOK, Alters
  <2>9. OpenedBy' /\ OnlyVerified'
    BY <2>6, <2>7 DEF DirectoryOK, OpenedBy, OnlyVerified
  <2>10. ASSUME NEW d \in Commands, NEW a \in Bins PROVE Alone(d, a)'
    <3>1. Alone(d, a)
      BY DEF DirectoryOK
    <3>2. CASE a = b
      BY <2>6, <2>7, <3>2 DEF Alone
    <3>3. CASE a # b /\ d = c
      BY <2>2, <2>4, <3>3 DEF Alone
    <3>4. CASE a # b /\ d # c
      <4>1. cmd'[d] = cmd[d]
        BY <2>4, <3>4 DEF Alters
      <4> QED
        BY <2>6, <3>1, <3>4, <4>1 DEF Alone
    <3> QED
      BY <3>2, <3>3, <3>4
  <2> QED
    BY <2>4, <2>5, <2>8, <2>9, <2>10 DEF DirectoryOK
<1> QED
  BY <1>3, <1>4, <1>5 DEF Remove

\* A command that dies has nothing open, and leaves what it wrote.
LEMMA CrashOK ==
  ASSUME TypeOK, NEW c \in Commands, DirectoryOK, Crash(c)
  PROVE  TypeOK' /\ Alters(c) /\ CommandOK(c)' /\ DirectoryOK' /\ cmd'[c].phase # "done"
<1>1. index' = index /\ file' = file /\ running' = running /\ Fail(c) /\ open' = [b \in Bins |-> open[b] \ {c}]
  BY DEF Crash
<1>2. Alters(c) /\ CommandOK(c)' /\ cmd'[c].got = {} /\ cmd'[c].writing = {} /\ cmd'[c].phase = "failed"
  BY <1>1, FailOK
<1>3. TypeOK'
  BY <1>1, <1>2 DEF TypeOK, Alters
<1>4. OpenedBy' /\ OnlyVerified'
  BY <1>1 DEF DirectoryOK, OpenedBy, OnlyVerified
<1>5. ASSUME NEW d \in Commands, NEW a \in Bins PROVE Alone(d, a)'
  <2>1. Alone(d, a)
    BY DEF DirectoryOK
  <2>2. CASE d = c
    BY <1>2, <2>2 DEF Alone
  <2>3. CASE d # c
    <3>1. cmd'[d] = cmd[d] /\ (d \in open[a] => d \in open'[a])
      BY <1>1, <1>2, <2>3 DEF Alters
    <3> QED
      BY <1>1, <2>1, <3>1 DEF Alone
  <2> QED
    BY <2>2, <2>3
<1> QED
  BY <1>2, <1>3, <1>4, <1>5 DEF DirectoryOK
----------------------------------------------------------------------------
(* The invariant *)

\* It holds of every directory that a command can find.
LEMMA InstallInvInit == Init => InstallInv
<1> SUFFICES ASSUME Init PROVE InstallInv
  OBVIOUS
<1>1. Idle \in Steps /\ Idle.phase = "idle" /\ Idle.got = {} /\ Idle.writing = {}
  <2>1. 0 \in 0 .. MaxRedirects
    BY InstallationAssumption
  <2> QED
    BY <2>1, Zenon DEF Idle, Steps
<1>2. \A c \in Commands : cmd[c] = Idle
  BY DEF Init
<1>3. \A b \in Bins : file[b].content \in {"old", "none"} /\ open[b] = {}
                      /\ file[b] \in [content : OldContents \cup Commands, exec : BOOLEAN, by : SUBSET Commands]
  <2> TAKE b \in Bins
  <2>1. file[b] = IF b[1] \in Installed THEN [content |-> "old", exec |-> TRUE, by |-> {}] ELSE Absent
    BY DEF Init
  <2>2. CASE b[1] \in Installed
    BY <2>1, <2>2 DEF Init, OldContents
  <2>3. CASE b[1] \notin Installed
    BY <2>1, <2>3 DEF Init, Absent, OldContents
  <2> QED
    BY <2>2, <2>3
<1>4. TypeOK
  <2>1. file \in [Bins -> [content : OldContents \cup Commands, exec : BOOLEAN, by : SUBSET Commands]]
    BY <1>3 DEF Init
  <2>2. cmd \in [Commands -> Steps]
    BY <1>1 DEF Init
  <2> QED
    BY <2>1, <2>2 DEF Init, TypeOK
<1>5. \A c \in Commands : CommandOK(c)
  BY <1>1, <1>2 DEF CommandOK, OnItsWay, Apart, Covered, Fetching, Writing
<1>6. OpenedBy /\ OnlyVerified
  BY <1>3 DEF OpenedBy, OnlyVerified
<1>7. \A c \in Commands, b \in Bins : Alone(c, b)
  BY <1>1, <1>2 DEF Alone
<1> QED
  BY <1>4, <1>5, <1>6, <1>7 DEF InstallInv

\* A command that leaves the directory alone keeps the invariant.
LEMMA QuietOK ==
  ASSUME InstallInv, NEW c \in Commands, Alters(c), UNCHANGED dir,
         cmd'[c].got \in {cmd[c].got, {}}, cmd'[c].phase \in Writing => cmd'[c].writing = {}
  PROVE  TypeOK' /\ DirectoryOK'
<1>1. UNCHANGED <<file, open, running>>
  BY DEF dir
<1>2. DirectoryOK
  BY DEF InstallInv, DirectoryOK
<1>3. DirectoryOK'
  BY <1>1, <1>2, DirectoryKept
<1>4. TypeOK'
  BY <1>1 DEF InstallInv, TypeOK, Alters
<1> QED
  BY <1>3, <1>4

\* What one command's step preserves is preserved for all.
LEMMA InstallInvKept ==
  ASSUME InstallInv, NEW c \in Commands, TypeOK', Alters(c), CommandOK(c)', DirectoryOK'
  PROVE  InstallInv'
<1>1. \A d \in Commands : CommandOK(d)'
  <2> TAKE d \in Commands
  <2>1. CASE d = c
    BY <2>1
  <2>2. CASE d # c
    <3>1. CommandOK(d) /\ cmd'[d] = cmd[d] /\ index' = index
      BY <2>2 DEF InstallInv, Alters
    <3> QED
      BY <3>1, CommandKept
  <2> QED
    BY <2>1, <2>2
<1> QED
  BY <1>1 DEF InstallInv, DirectoryOK

\* It holds after whatever a command, a run or a crash does to it.
LEMMA InstallInvStep == InstallInv /\ [Next]_vars => InstallInv'
<1> SUFFICES ASSUME InstallInv, [Next]_vars PROVE InstallInv'
  OBVIOUS
<1>1. TypeOK /\ DirectoryOK /\ \A c \in Commands : CommandOK(c)
  BY DEF InstallInv, DirectoryOK
<1>2. ASSUME NEW c \in Commands, Install(c) PROVE InstallInv'
  <2>1. Alters(c) /\ CommandOK(c)' /\ cmd'[c].got = {} /\ cmd'[c].writing = {}
    BY <1>1, <1>2, InstallOK
  <2> QED
    BY <1>2, <2>1, QuietOK, InstallInvKept DEF Install
<1>3. ASSUME NEW c \in Commands, InstallBinary(c) PROVE InstallInv'
  <2>1. Alters(c) /\ CommandOK(c)' /\ cmd'[c].got = {} /\ cmd'[c].writing = {}
    BY <1>1, <1>3, InstallBinaryOK
  <2> QED
    BY <1>3, <2>1, QuietOK, InstallInvKept DEF InstallBinary
<1>4. ASSUME NEW c \in Commands, Uninstall(c) PROVE InstallInv'
  <2>1. Alters(c) /\ CommandOK(c)' /\ cmd'[c].got = {} /\ cmd'[c].writing = {}
    BY <1>1, <1>4, UninstallOK
  <2> QED
    BY <1>4, <2>1, QuietOK, InstallInvKept DEF Uninstall
<1>5. ASSUME NEW c \in Commands, Fetch(c) PROVE InstallInv'
  <2>1. /\ Alters(c) /\ CommandOK(c)' /\ cmd'[c].got \in {cmd[c].got, {}} /\ cmd'[c].phase # "permit"
        /\ (cmd'[c].phase = "extract" => cmd'[c].writing = {})
    BY <1>1, <1>5, FetchOK
  <2> QED
    BY <1>5, <2>1, QuietOK, InstallInvKept DEF Fetch, Writing
<1>6. ASSUME NEW c \in Commands, ReadManifest(c) PROVE InstallInv'
  <2>1. Alters(c) /\ CommandOK(c)' /\ cmd'[c].got \in {cmd[c].got, {}} /\ cmd'[c].writing = {}
    BY <1>1, <1>6, ReadManifestOK
  <2> QED
    BY <1>6, <2>1, QuietOK, InstallInvKept DEF ReadManifest
<1>7. ASSUME NEW c \in Commands, Verify(c) PROVE InstallInv'
  <2>1. Alters(c) /\ CommandOK(c)' /\ cmd'[c].got \in {cmd[c].got, {}} /\ cmd'[c].writing = {}
    BY <1>1, <1>7, VerifyOK
  <2> QED
    BY <1>7, <2>1, QuietOK, InstallInvKept DEF Verify
<1>8. ASSUME NEW c \in Commands, Open(c) \/ Write(c) \/ Permit(c) \/ Remove(c) \/ Crash(c) PROVE InstallInv'
  <2>1. TypeOK' /\ Alters(c) /\ CommandOK(c)' /\ DirectoryOK'
    BY <1>1, <1>8, OpenOK, WriteOK, PermitOK, RemoveOK, CrashOK
  <2> QED
    BY <2>1, InstallInvKept
<1>9. ASSUME NEW c \in Commands, Conclude(c) PROVE InstallInv'
  <2>1. Alters(c) /\ CommandOK(c)' /\ cmd'[c].got \in {cmd[c].got, {}} /\ cmd'[c].writing = {}
    BY <1>1, <1>9, ConcludeOK
  <2> QED
    BY <1>9, <2>1, QuietOK, InstallInvKept DEF Conclude
<1>10. ASSUME running' \subseteq Bins, UNCHANGED <<index, file, open, cmd>> PROVE InstallInv'
  <2>1. TypeOK'
    BY <1>1, <1>10 DEF TypeOK
  <2>2. \A c \in Commands : CommandOK(c)'
    BY <1>1, <1>10, CommandKept
  <2>3. OpenedBy' /\ OnlyVerified' /\ \A c \in Commands, b \in Bins : Alone(c, b)'
    BY <1>1, <1>10 DEF DirectoryOK, OpenedBy, OnlyVerified, Alone
  <2> QED
    BY <2>1, <2>2, <2>3 DEF InstallInv
<1>11. ASSUME NEW b \in Bins, Spawn(b) \/ Leave(b) PROVE InstallInv'
  <2>1. running' \subseteq Bins /\ UNCHANGED <<index, file, open, cmd>>
    BY <1>1, <1>11 DEF Spawn, Leave, TypeOK
  <2> QED
    BY <1>10, <2>1
<1>12. CASE UNCHANGED vars
  <2>1. running' \subseteq Bins /\ UNCHANGED <<index, file, open, cmd>>
    BY <1>1, <1>12 DEF vars, TypeOK
  <2> QED
    BY <1>10, <2>1
<1> QED
  BY <1>2, <1>3, <1>4, <1>5, <1>6, <1>7, <1>8, <1>9, <1>11, <1>12 DEF Next, Works

\* Commands that share the directory without a lock keep the invariant.
THEOREM InstallSafe == Spec => []InstallInv
BY InstallInvInit, InstallInvStep, PTL DEF Spec
----------------------------------------------------------------------------
(* The theorems *)

\* Whatever commands share the directory, its state and theirs keep their types.
THEOREM InstallTypeOK == Spec => []TypeOK
<1>1. InstallInv => TypeOK
  BY DEF InstallInv
<1> QED
  BY <1>1, InstallSafe, PTL

\* Nothing that fails its checksum is ever in the plugin directory, with any
\* number of commands that download, die, run out of disk or remove.
THEOREM InstallOnlyVerified == Spec => []OnlyVerified
<1>1. InstallInv => OnlyVerified
  BY DEF InstallInv
<1> QED
  BY <1>1, InstallSafe, PTL

\* A binary gets a new writer only by being opened, and only one it is due.
LEMMA OnlyWhatIsDue ==
  ASSUME InstallInv, NEW d \in Commands, Works(d), NEW b \in Bins, NEW c \in file'[b].by \ file[b].by
  PROVE  c = d /\ b \in Asked(c)
<1>1. TypeOK /\ OpenedBy /\ CommandOK(d) /\ cmd[d] \in Steps
  BY DEF InstallInv, TypeOK
<1>2. ~UNCHANGED file
  OBVIOUS
<1>3. CASE Open(d)
  <2>1. PICK a \in cmd[d].todo : file' = [file EXCEPT ![a].content = "partial", ![a].by = open[a] \cup {d}]
    BY <1>2, <1>3 DEF Open
  <2>2. a \in Bins
    BY <1>1, <2>1 DEF Steps
  <2>3. file'[a].by = open[a] \cup {d} /\ \A e \in Bins : e # a => file'[e] = file[e]
    BY <1>1, <2>1, <2>2 DEF TypeOK
  <2>4. b = a /\ c = d
    BY <1>1, <2>3 DEF OpenedBy
  <2>5. cmd[d].phase = "extract"
    BY <1>3 DEF Open, At
  <2>6. Due(d, a) /\ cmd[d].jobs # {} /\ cmd[d].jobs \subseteq cmd[d].asked
    BY <1>1, <2>1, <2>5 DEF CommandOK, OnItsWay, Apart, Writing
  <2>7. Job(d) \in cmd[d].asked
    <3>1. cmd[d].jobs \in SUBSET Packages
      BY <1>1 DEF Steps
    <3> QED
      BY <2>6, <3>1, FirstOne, JobIsFirst
  <2>8. a = <<a[1], a[2]>>
    BY <2>2 DEF Bins
  <2> QED
    BY <2>4, <2>6, <2>7, <2>8 DEF Due, Asked
<1>4. CASE Write(d)
  <2>1. PICK a \in cmd[d].writing : UNCHANGED file \/ \E content : file' = [file EXCEPT ![a].content = content]
    BY <1>4 DEF Write
  <2>2. a \in Bins
    BY <1>1, <2>1 DEF Steps
  <2>3. file'[b].by = file[b].by
    BY <1>1, <2>1, <2>2 DEF TypeOK
  <2> QED
    BY <2>3
<1>5. CASE Permit(d)
  <2>1. PICK a \in cmd[d].writing : UNCHANGED file \/ file' = [file EXCEPT ![a].exec = TRUE]
    BY <1>5 DEF Permit
  <2>2. a \in Bins
    BY <1>1, <2>1 DEF Steps
  <2>3. file'[b].by = file[b].by
    BY <1>1, <2>1, <2>2 DEF TypeOK
  <2> QED
    BY <2>3
<1>6. CASE Remove(d)
  <2>1. PICK a \in cmd[d].todo : file' = [file EXCEPT ![a] = Absent]
    BY <1>2, <1>6 DEF Remove, dir
  <2>2. file'[b] \in {file[b], Absent} /\ Absent.by = {}
    BY <1>1, <2>1 DEF TypeOK, Absent
  <2> QED
    BY <2>2
<1> QED
  BY <1>2, <1>3, <1>4, <1>5, <1>6 DEF Works, Fetch, ReadManifest, Verify, Conclude, dir

\* An install writes only what it was asked for, whatever the archives hold
\* and whoever else is at work.
THEOREM InstallLeavesOthersAlone == Spec => LeavesOthersAlone
<1>1. ASSUME InstallInv, [Next]_vars, NEW b \in Bins, NEW c \in file'[b].by \ file[b].by
      PROVE  cmd[c].what # "uninstall" => b \in Asked(c)
  <2>1. ~UNCHANGED file
    BY <1>1
  <2>2. PICK d \in Commands : Works(d)
    BY <1>1, <2>1 DEF Next, Install, InstallBinary, Uninstall, Crash, Spawn, Leave, vars, dir
  <2> QED
    BY <1>1, <2>2, OnlyWhatIsDue
<1>2. InstallInv /\ [Next]_vars =>
        [\A b \in Bins : \A c \in file'[b].by \ file[b].by :
           cmd[c].what # "uninstall" => b \in Asked(c)]_vars
  BY <1>1
<1> QED
  BY <1>2, InstallSafe, PTL DEF Spec, LeavesOthersAlone

\* A report of success is true: all that was asked for and not skipped is
\* written, and, where the command was alone, whole and executable.
THEOREM InstallReportIsTrue == Spec => ReportIsTrue
<1>1. ASSUME InstallInv, [Next]_vars, NEW c \in Commands, ~At(c, "done"), cmd'[c].phase = "done",
             cmd[c].what # "uninstall", NEW b \in Asked(c), b[1] \notin cmd'[c].skipped
      PROVE  b \in cmd[c].got /\ (file[b].by = {c} => file[b] = [content |-> c, exec |-> TRUE, by |-> {c}])
  <2>1. TypeOK /\ DirectoryOK /\ CommandOK(c) /\ cmd[c].phase # "done"
    BY <1>1 DEF InstallInv, DirectoryOK, At
  <2>2. PICK d \in Commands : Install(d) \/ InstallBinary(d) \/ Uninstall(d) \/ Works(d) \/ Crash(d)
    BY <1>1, <2>1 DEF Next, Spawn, Leave, vars
  <2>3. d = c
    <3>1. TypeOK /\ DirectoryOK /\ CommandOK(d)
      BY <1>1 DEF InstallInv, DirectoryOK
    <3>2. Alters(d)
      BY <2>2, <3>1, InstallOK, InstallBinaryOK, UninstallOK, FetchOK, ReadManifestOK, VerifyOK, OpenOK,
         WriteOK, PermitOK, ConcludeOK, RemoveOK, CrashOK DEF Works
    <3> QED
      BY <1>1, <2>1, <3>2 DEF Alters
  <2>4. ReadManifest(c) \/ Conclude(c) \/ Remove(c)
    BY <1>1, <2>1, <2>2, <2>3, InstallOK, InstallBinaryOK, UninstallOK, FetchOK, VerifyOK, OpenOK,
       WriteOK, PermitOK, CrashOK DEF Works
  <2>5. ~Remove(c)
    BY <1>1, <2>1 DEF Remove, At, CommandOK, OnItsWay
  <2>6. b \in cmd[c].got
    BY <1>1, <2>1, <2>4, <2>5, ReadManifestOK, ConcludeOK
  <2>7. b \in Bins
    <3>1. cmd[c] \in Steps
      BY <2>1 DEF TypeOK
    <3> QED
      BY <2>6, <3>1 DEF Steps
  <2>8. file[b].by = {c} => file[b].content = c /\ file[b].exec
    BY <2>1, <2>6, <2>7 DEF DirectoryOK, Alone
  <2>9. file[b] \in [content : OldContents \cup Commands, exec : BOOLEAN, by : SUBSET Commands]
    BY <2>1, <2>7 DEF TypeOK
  <2>10. file[b].by = {c} => file[b] = [content |-> c, exec |-> TRUE, by |-> {c}]
    BY <2>8, <2>9
  <2> QED
    BY <2>6, <2>10
<1>2. InstallInv /\ [Next]_vars =>
        [\A c \in Commands :
           ~At(c, "done") /\ cmd'[c].phase = "done" /\ cmd[c].what # "uninstall" =>
             \A b \in Asked(c) : b[1] \notin cmd'[c].skipped =>
               /\ b \in cmd[c].got
               /\ file[b].by = {c} => file[b] = [content |-> c, exec |-> TRUE, by |-> {c}]]_vars
  BY <1>1
<1> QED
  BY <1>2, InstallSafe, PTL DEF Spec, ReportIsTrue
=============================================================================
