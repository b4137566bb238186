--------------------------- MODULE EvidenceProofs ---------------------------
(***************************************************************************)
(* Theorems about Evidence, for any number of shells, commands and files   *)
(* that rot: what a provenance file names, what a manifest that verifies   *)
(* stands for, that every manifest verifies and that no command changes    *)
(* recorded evidence (the last two from KeptInv).  The invariants are      *)
(* predicates of one command c, the directories D and k, whether a test    *)
(* was killed, so that a step of one shell can be told from its effect on  *)
(* the others.                                                             *)
(***************************************************************************)
EXTENDS Evidence, TLAPS

Dir        == {"capture", "policy"}
File       == Value \cup {Absent, Torn}
Provenance == [manifest : ManifestValue \cup {Absent, Torn}, archive : File, oracle : File]
Directory  ==
    [made : BOOLEAN, archive : File, oracle : File, truth : File,
     manifest : ManifestValue \cup {Absent, Torn}, provenance : Provenance \cup {Absent, Torn}]
BuildAt    == {"load", "inspect", "mkdir", "archive", "oracle", "manifest", "built"}
RecoverAt  == {"resolve", "materialize", "derive", "update", "manifest", "reload", "hash",
               "provenance", "recovered"}
At         == BuildAt \cup RecoverAt \cup {"none", "truth", "accept", "control", "forge"}
ControlName == {"none", "positive", "tampered", "flipped", "withheld", "given_back", "forged",
                "unforged"}
Command    ==
    [op : {"none", "capture", "archive", "test", "recover"}, on : Dir, at : At, open : BOOLEAN,
     named : BOOLEAN, control : ControlName, read : ManifestValue \cup Provenance \cup {Absent},
     saved : File, id : 0..MaxCommands]

TypeInv ==
    /\ dir \in [Dir -> Directory]
    /\ cmd \in [Shell -> Command]
    /\ started \in 0..MaxCommands

\* A command that uses directory d, that builds, that makes its directory,
\* and that is putting something there.
Using(c, d) == c.op # "none" /\ (c.on = d \/ c.op \in {"archive", "test"})
Builder(c)  == c.op \in {"archive", "test"} /\ c.control = "none"
Maker(c)    == c.op = "capture" \/ Builder(c)
Placing(c)  == Maker(c) /\ c.at \in Data \cup {"manifest"}

\* A recovery that has seen a manifest.
Settled(c) == ~Maker(c) /\ c.at \in {"manifest", "hash", "provenance"}

\* Where a command is, and on which directory.
StageInv(c) ==
    /\ c.op = "none" => c.at = "none"
    /\ c.op = "capture" => /\ c.on = "capture" /\ c.control = "none"
                           /\ c.at \in Data \cup {"mkdir", "manifest", "accept"}
    /\ c.op = "archive" => c.on = "policy" /\ c.control = "none" /\ c.at \in BuildAt
    /\ c.op = "test" => /\ c.on = "policy"
                        /\ c.control = "none" => c.at \in BuildAt
                        /\ c.control # "none" => c.at \in RecoverAt \cup {"control", "forge"}
    /\ c.op = "recover" => c.control = "none" /\ c.at \in RecoverAt
    /\ c.open => c.at \in Data \cup {"manifest", "provenance"}

Sound(f) == f.archive = "session" /\ f.oracle = "session"

\* What the maker of a directory has put there, before anything else does.
PlacedInv(c, D) ==
    Placing(c) =>
       /\ D[c.on].made
       /\ c.at = "manifest" /\ c.open => D[c.on].manifest = Torn
       /\ ~(c.at = "manifest" /\ c.open) => D[c.on].manifest = Absent
       /\ c.at # "archive" => D[c.on].archive = "session"
       /\ c.at \in {"truth", "manifest"} => D[c.on].oracle = "session"

\* A builder copies a finished capture of the session.
SourceInv(c, D) ==
    Builder(c) /\ c.at # "load" => Sound(D["capture"]) /\ D["capture"].manifest # Absent

GoodManifest(m) ==
    m \in ManifestValue /\ m.archive \in {"session", "forged"} /\ m.oracle = "session"

\* A test between ForgeManifest and EndTest, and a command that is to write a
\* manifest back.
Forging(c)   ==
    c.op = "test" /\ (c.control = "unforged" \/ (c.control = "forged" /\ c.at # "forge"))
Rewriting(c) == ~Maker(c) /\ c.at = "manifest"

ReadInv(c, k) ==
    Rewriting(c) \/ Forging(c) =>
       GoodManifest(c.read) /\ (~k \/ c.on = "capture" => c.read.archive = "session")

\* A test's archive has a manifest, and a forged one stays forged until it is
\* restored.
TestInv(c, D) ==
    c.op = "test" =>
       /\ c.at = "built" => GoodManifest(D["policy"].manifest)
       /\ c.control # "none" /\ ~(c.at = "manifest" /\ c.open) => GoodManifest(D["policy"].manifest)
       /\ c.at = "forge" => c.control = "forged"
       /\ c.control = "unforged" => c.at = "control"
       /\ c.control = "forged" =>
             /\ D["policy"].archive = "forged"
             /\ c.at \in {"forge", "resolve", "materialize", "derive", "control"}

\* What a recovery relies on after the manifest was verified or found absent:
\* its evidence is the session's by the time there is a manifest.
RecoveryInv(c, D) ==
    ~Maker(c) =>
       /\ c.at \in {"materialize", "derive"} /\ D[c.on].manifest # Absent
          => Sound(D[c.on]) \/ D[c.on].archive = "forged"
       /\ c.at \in {"update", "manifest", "reload", "hash", "provenance"} /\ D[c.on].manifest # Absent
          => Sound(D[c.on])
       /\ Settled(c) => D[c.on].manifest # Absent
       /\ c.at = "provenance" =>
             /\ c.read \in Provenance
             /\ c.read.archive = "session" /\ c.read.oracle = "session"

CommandInv(c, D, k) ==
    /\ StageInv(c) /\ PlacedInv(c, D) /\ SourceInv(c, D)
    /\ ReadInv(c, k) /\ TestInv(c, D) /\ RecoveryInv(c, D)

\* A test has its archive for itself; a directory has one maker, and no
\* recovery has seen its manifest while it is made.
CrossInv(b, c) ==
    /\ b.op = "test" => ~Using(c, "policy")
    /\ Placing(b) /\ (Placing(c) \/ Settled(c)) => b.on # c.on

DirectoryInv(D) ==
    /\ D["capture"].archive # "forged"
    /\ HasContent(D["capture"].manifest) => D["capture"].manifest.archive = "session"
    /\ \A d \in Dir :
          /\ ~D[d].made => D[d].manifest = Absent
          /\ HasContent(D[d].manifest) => GoodManifest(D[d].manifest)
          /\ HasContent(D[d].provenance) =>
                Sound(D[d].provenance) /\ D[d].manifest # Absent

\* Only a test that is forging, or that was killed, leaves a forged manifest.
Genuine(D) == HasContent(D["policy"].manifest) => D["policy"].manifest.archive = "session"

EvidenceInv ==
    /\ TypeInv
    /\ DirectoryInv(dir)
    /\ \A p \in Shell : CommandInv(cmd[p], dir, cut)
    /\ \A p, q \in Shell : p # q => CrossInv(cmd[p], cmd[q])
    /\ cut \/ (\E p \in Shell : Forging(cmd[p])) \/ Genuine(dir)
-----------------------------------------------------------------------------
(* Commands in general.                                                    *)

LEMMA NoCommandFacts ==
    /\ NoCommand \in Command
    /\ NoCommand.op = "none" /\ NoCommand.on = "capture" /\ NoCommand.at = "none"
    /\ NoCommand.open = FALSE /\ NoCommand.control = "none"
BY EvidenceAssumption DEF NoCommand, Command, At, BuildAt, File, Dir, ControlName

LEMMA NoCommandInv ==
    ASSUME NEW D, NEW k
    PROVE  CommandInv(NoCommand, D, k)
BY NoCommandFacts
   DEF Settled, CommandInv, StageInv, PlacedInv, SourceInv, ReadInv, TestInv, RecoveryInv,
       Placing, Maker,
       Builder, Rewriting, Forging

\* A command goes to another place.
LEMMA Moved ==
    ASSUME NEW b \in Command, NEW x \in At
    PROVE  LET c == [b EXCEPT !.at = x]
           IN  /\ c \in Command /\ c.at = x /\ c.op = b.op /\ c.on = b.on /\ c.open = b.open
               /\ c.control = b.control /\ c.read = b.read /\ c.saved = b.saved
BY DEF Command

\* A command keeps what it relies on when a directory changes that it does not
\* use.
LEMMA Elsewhere ==
    ASSUME NEW c \in Command, NEW D, NEW E, NEW k, NEW j, NEW d \in Dir,
           CommandInv(c, D, k), ~Using(c, d), \A e \in Dir : e # d => E[e] = D[e], k => j
    PROVE  CommandInv(c, E, j)
<1>1. c.on \in Dir
  BY DEF Command
<1>2. CASE c.op = "none"
  BY <1>2
     DEF Settled, CommandInv, StageInv, PlacedInv, SourceInv, ReadInv, TestInv, RecoveryInv,
         Placing, Maker,
              Builder, Rewriting, Forging
<1>3. CASE c.op # "none"
  <2>1. c.on # d /\ c.op \notin {"archive", "test"} /\ E[c.on] = D[c.on]
    BY <1>1, <1>3 DEF Using
  <2>2. StageInv(c) /\ PlacedInv(c, E)
    BY <2>1 DEF CommandInv, PlacedInv
  <2>3. SourceInv(c, E) /\ ReadInv(c, j) /\ TestInv(c, E)
    BY <2>1 DEF CommandInv, SourceInv, ReadInv, TestInv, Builder
  <2>4. RecoveryInv(c, E)
    BY <2>1 DEF CommandInv, RecoveryInv, Settled
  <2> QED BY <2>2, <2>3, <2>4 DEF CommandInv
<1> QED BY <1>2, <1>3

\* c takes no more than b had, except that it has seen the manifest m.
Within(b, c, m) ==
    /\ c.op = "test" => b.op = "test"
    /\ \A d \in Dir : Using(c, d) => Using(b, d)
    /\ Placing(c) => Placing(b) /\ c.on = b.on
    /\ Settled(c) => c.on = b.on /\ (Settled(b) \/ HasContent(m))

LEMMA WithinCross ==
    ASSUME NEW a, NEW b, NEW c, NEW D, NEW k, Within(b, c, D[b.on].manifest), CommandInv(a, D, k),
           CrossInv(a, b), CrossInv(b, a)
    PROVE  CrossInv(a, c) /\ CrossInv(c, a)
<1>1. Placing(a) => D[a.on].manifest \in {Absent, Torn}
  BY DEF CommandInv, PlacedInv
<1>2. Placing(a) /\ Settled(c) => a.on # c.on
  BY <1>1 DEF Within, CrossInv, HasContent
<1>3. Placing(c) /\ Settled(a) => a.on # c.on
  BY DEF Within, CrossInv
<1> QED BY <1>2, <1>3 DEF Within, CrossInv, Dir

\* A step of shell p.
LEMMA Step ==
    ASSUME EvidenceInv, NEW p \in Shell, NEW c \in Command, cmd' = [cmd EXCEPT ![p] = c],
           dir' \in [Dir -> Directory], started' \in 0..MaxCommands,
           DirectoryInv(dir'), CommandInv(c, dir', cut'),
           \A q \in Shell : q # p => CommandInv(cmd[q], dir', cut'),
           \A q \in Shell : q # p => CrossInv(c, cmd[q]) /\ CrossInv(cmd[q], c),
           cut' \/ (\E q \in Shell : Forging(cmd'[q])) \/ Genuine(dir')
    PROVE  EvidenceInv'
<1>1. cmd' \in [Shell -> Command] /\ cmd'[p] = c /\ \A q \in Shell : q # p => cmd'[q] = cmd[q]
  BY DEF EvidenceInv, TypeInv
<1>2. TypeInv'
  BY <1>1 DEF TypeInv
<1>3. \A q \in Shell : CommandInv(cmd'[q], dir', cut')
  BY <1>1
<1>4. \A q, r \in Shell : q # r => CrossInv(cmd'[q], cmd'[r])
  BY <1>1 DEF EvidenceInv
<1> QED BY <1>2, <1>3, <1>4 DEF EvidenceInv

\* One that changes nothing but its command.
LEMMA OwnStep ==
    ASSUME EvidenceInv, NEW p \in Shell, NEW c \in Command, cmd' = [cmd EXCEPT ![p] = c],
           dir' = dir, cut => cut', started' \in 0..MaxCommands,
           CommandInv(c, dir, cut), Within(cmd[p], c, dir[cmd[p].on].manifest),
           Forging(cmd[p]) => Forging(c) \/ cut'
    PROVE  EvidenceInv'
<1>1. /\ dir \in [Dir -> Directory] /\ cmd \in [Shell -> Command] /\ DirectoryInv(dir)
      /\ \A q \in Shell : CommandInv(cmd[q], dir, cut)
  BY DEF EvidenceInv, TypeInv
<1>2. ASSUME NEW b \in Command, CommandInv(b, dir, cut)
      PROVE  CommandInv(b, dir', cut')
  BY <1>2 DEF Settled, CommandInv, ReadInv
<1>3. \A q \in Shell : q # p => CrossInv(c, cmd[q]) /\ CrossInv(cmd[q], c)
  BY <1>1, WithinCross DEF EvidenceInv
<1>4. cmd'[p] = c /\ \A q \in Shell : q # p => cmd'[q] = cmd[q]
  BY <1>1
<1>5. cut' \/ (\E q \in Shell : Forging(cmd'[q])) \/ Genuine(dir')
  BY <1>4 DEF EvidenceInv
<1> QED BY <1>1, <1>2, <1>3, <1>5, Step

\* One that goes to another place.
LEMMA WalkStep ==
    ASSUME EvidenceInv, NEW p \in Shell, NEW x \in At, cmd' = [cmd EXCEPT ![p].at = x],
           UNCHANGED <<dir, cut, started>>,
           CommandInv([cmd[p] EXCEPT !.at = x], dir, cut),
           Maker(cmd[p]) /\ x \in Data \cup {"manifest"} => Placing(cmd[p]),
           x \in {"hash", "provenance"} => HasContent(dir[cmd[p].on].manifest),
           ~Maker(cmd[p]) => x # "manifest",
           Forging(cmd[p]) => x # "forge"
    PROVE  EvidenceInv'
<1> DEFINE c == [cmd[p] EXCEPT !.at = x]
<1>1. cmd[p] \in Command /\ cmd \in [Shell -> Command] /\ started \in 0..MaxCommands
  BY DEF EvidenceInv, TypeInv
<1>2. /\ c \in Command /\ c.at = x /\ c.op = cmd[p].op /\ c.on = cmd[p].on
      /\ c.control = cmd[p].control
  BY <1>1, Moved
<1>3. cmd' = [cmd EXCEPT ![p] = c]
  BY <1>1
<1>4. Within(cmd[p], c, dir[cmd[p].on].manifest)
  BY <1>2 DEF Within, Using, Placing, Maker, Builder, Settled
<1>5. Forging(cmd[p]) => Forging(c)
  BY <1>2 DEF Forging
<1>6. CommandInv(c, dir, cut)
  OBVIOUS
<1> HIDE DEF c
<1> QED BY <1>1, <1>2, <1>3, <1>4, <1>5, <1>6, OwnStep

\* One that ends its command.
LEMMA EndStep ==
    ASSUME EvidenceInv, NEW p \in Shell, End(p), UNCHANGED <<dir, started>>,
           cut => cut', Forging(cmd[p]) => cut'
    PROVE  EvidenceInv'
<1>1. Within(cmd[p], NoCommand, dir[cmd[p].on].manifest)
  BY NoCommandFacts DEF Within, Using, Placing, Maker, Builder, Settled, Data
<1> QED BY <1>1, NoCommandFacts, NoCommandInv, OwnStep DEF End, EvidenceInv, TypeInv
-----------------------------------------------------------------------------
(* Steps that leave the directories alone.                                 *)

LEMMA InitInv == Init => EvidenceInv
<1> SUFFICES ASSUME Init PROVE EvidenceInv
  OBVIOUS
<1>1. Empty \in Directory /\ Empty.made = FALSE /\ Empty.manifest = Absent /\ Empty.archive = Absent
      /\ Empty.provenance = Absent
  BY DEF Empty, Directory, File
<1>2. \A d \in Dir : dir[d] = Empty
  BY DEF Init, Dir
<1>3. \A p \in Shell : cmd[p] = NoCommand
  BY DEF Init
<1>4. TypeInv
  BY <1>1, NoCommandFacts, EvidenceAssumption DEF Init, TypeInv, Dir
<1>5. DirectoryInv(dir) /\ Genuine(dir)
  BY <1>1, <1>2, EvidenceAssumption DEF DirectoryInv, Genuine, HasContent, Dir, Value
<1>6. \A p \in Shell : CommandInv(cmd[p], dir, cut)
  BY <1>3, NoCommandInv
<1>7. \A p, q \in Shell : CrossInv(cmd[p], cmd[q])
  BY <1>3, NoCommandFacts DEF CrossInv, Placing, Maker, Builder, Settled
<1> QED BY <1>4, <1>5, <1>6, <1>7 DEF EvidenceInv

\* What holds of any shell.
LEMMA Shells ==
    ASSUME EvidenceInv, NEW p \in Shell
    PROVE  /\ cmd[p] \in Command /\ CommandInv(cmd[p], dir, cut) /\ cmd[p].on \in Dir
           /\ cmd \in [Shell -> Command] /\ dir \in [Dir -> Directory] /\ started \in 0..MaxCommands
BY DEF EvidenceInv, TypeInv, Command

LEMMA StartStep ==
    ASSUME EvidenceInv, NEW p \in Shell, NEW op, NEW d \in Dir, NEW at, NEW named \in BOOLEAN,
           Start(p, op, d, at, named),
           \/ op = "capture" /\ d = "capture" /\ at = "mkdir"
           \/ op \in {"archive", "test"} /\ d = "policy" /\ at = "load"
           \/ op = "recover" /\ at = "resolve",
           op = "test" => \A q \in Shell : ~Uses(q, "policy"),
           op \in {"archive", "test"} \/ d = "policy" => \A q \in Shell : ~Testing(q)
    PROVE  EvidenceInv'
<1> DEFINE c == [NoCommand EXCEPT !.op = op, !.on = d, !.at = at, !.named = named,
!.id = started + 1]
<1>1. /\ c \in Command /\ c.op = op /\ c.on = d /\ c.at = at /\ c.open = FALSE /\ c.control = "none"
  <2>1. started + 1 \in 0..MaxCommands
    BY EvidenceAssumption DEF Start, EvidenceInv, TypeInv
  <2>2. op \in {"capture", "archive", "test", "recover"} /\ at \in At
    BY DEF At, BuildAt, RecoverAt
  <2> QED BY <2>1, <2>2, NoCommandFacts DEF Command
<1>2. cmd' = [cmd EXCEPT ![p] = c] /\ dir' = dir /\ cut' = cut /\ started' \in 0..MaxCommands
  BY EvidenceAssumption DEF Start, EvidenceInv, TypeInv
<1> HIDE DEF c
<1>3. CommandInv(c, dir, cut)
  BY <1>1
     DEF Settled, CommandInv, StageInv, PlacedInv, SourceInv, ReadInv, TestInv, RecoveryInv,
         Placing, Maker,
              Builder, Rewriting, Forging, Data, BuildAt, RecoverAt
<1>4. \A q \in Shell : q # p => CrossInv(c, cmd[q]) /\ CrossInv(cmd[q], c)
  <2>1. ~Placing(c) /\ ~Settled(c)
    BY <1>1 DEF Placing, Settled, Data
  <2>2. \A q \in Shell : c.op = "test" => ~Using(cmd[q], "policy")
    BY <1>1 DEF Using, Uses
  <2>3. \A q \in Shell : cmd[q].op = "test" => ~Using(c, "policy")
    BY <1>1 DEF Using, Testing
  <2> QED BY <2>1, <2>2, <2>3 DEF CrossInv
<1>5. cmd[p].op = "none"
  BY DEF Start
<1>6. cut' \/ (\E q \in Shell : Forging(cmd'[q])) \/ Genuine(dir')
  <2>1. \A q \in Shell : Forging(cmd[q]) => cmd'[q] = cmd[q]
    BY <1>2, <1>5, Shells DEF Forging
  <2> QED BY <1>2, <2>1 DEF EvidenceInv
<1> QED BY <1>1, <1>2, <1>3, <1>4, <1>6, Shells, Step DEF EvidenceInv

LEMMA StartSteps ==
    ASSUME EvidenceInv, NEW p \in Shell,
           \/ StartCapture(p) \/ StartArchive(p, "archive") \/ StartArchive(p, "test")
           \/ \E d \in Dir, named \in BOOLEAN : StartRecover(p, d, named)
    PROVE  EvidenceInv'
<1>1. CASE StartCapture(p)
  BY <1>1, StartStep DEF StartCapture, Dir
<1>2. CASE StartArchive(p, "archive")
  BY <1>2, StartStep DEF StartArchive, Dir
<1>3. CASE StartArchive(p, "test")
  BY <1>3, StartStep DEF StartArchive, Dir
<1>4. ASSUME NEW d \in Dir, NEW named \in BOOLEAN, StartRecover(p, d, named) PROVE EvidenceInv'
  BY <1>4, StartStep DEF StartRecover
<1> QED BY <1>1, <1>2, <1>3, <1>4

\* A recovery returns.
LEMMA ReturnStep ==
    ASSUME EvidenceInv, NEW p \in Shell, Return(p), UNCHANGED <<dir, Rest>>,
           cmd[p].at \in {"resolve", "materialize", "derive", "update", "reload", "recovered"}
    PROVE  EvidenceInv'
<1>1. CASE Testing(p)
  <2> DEFINE c == [cmd[p] EXCEPT !.at = "control"]
  <2>1. /\ c \in Command /\ c.at = "control" /\ c.op = "test" /\ c.on = cmd[p].on
        /\ c.control = cmd[p].control /\ c.open = cmd[p].open /\ c.read = cmd[p].read
    BY <1>1, Moved, Shells DEF Testing, At
  <2>2. c.control # "none" /\ c.on = "policy" /\ ~c.open
    BY <1>1, <2>1, Shells DEF CommandInv, StageInv, Testing, BuildAt, RecoverAt, Data
  <2> HIDE DEF c
  <2>3. StageInv(c) /\ PlacedInv(c, dir) /\ SourceInv(c, dir) /\ RecoveryInv(c, dir)
    BY <2>1, <2>2
       DEF StageInv, PlacedInv, SourceInv, RecoveryInv, Placing, Maker, Builder, Data, Settled
  <2>4. ReadInv(c, cut) /\ TestInv(c, dir)
    BY <1>1, <2>1, <2>2, Shells DEF CommandInv, ReadInv, TestInv, Rewriting, Forging, Testing
  <2>5. CommandInv(c, dir, cut)
    BY <2>3, <2>4 DEF CommandInv
  <2> USE DEF c
  <2>6. cmd' = [cmd EXCEPT ![p].at = "control"] /\ UNCHANGED <<dir, cut, started>>
    BY <1>1 DEF Return, GoTo, Rest
  <2>7. "control" \in At /\ "control" \notin Data \cup {"manifest", "hash", "provenance"}
    BY DEF At, Data
  <2> QED BY <2>5, <2>6, <2>7, WalkStep
<1>2. CASE ~Testing(p)
  BY <1>2, EndStep DEF Return, Rest, Forging, Testing
<1> QED BY <1>1, <1>2

\* A builder looks at its source and its destination.
LEMMA BuilderLooks ==
    ASSUME EvidenceInv, NEW p \in Shell, LoadSource(p) \/ InspectDestination(p)
    PROVE  EvidenceInv'
<1>1. /\ Builder(cmd[p]) /\ ~cmd[p].open /\ ~Forging(cmd[p]) /\ cmd[p].on = "policy"
      /\ cmd[p].at \in {"load", "inspect"}
  BY Shells
     DEF LoadSource, InspectDestination, CommandInv, StageInv, Builder, Data, RecoverAt, Forging,
         Command
<1>2. ASSUME NEW x \in {"inspect", "mkdir"}, Sound(dir["capture"]), dir["capture"].manifest # Absent,
             cmd' = [cmd EXCEPT ![p].at = x], UNCHANGED <<dir, Rest>>
      PROVE  EvidenceInv'
  <2> DEFINE c == [cmd[p] EXCEPT !.at = x]
  <2>1. x \in At
    BY DEF At, BuildAt
  <2>2. /\ c \in Command /\ c.at = x /\ c.op = cmd[p].op /\ c.on = cmd[p].on
        /\ c.control = cmd[p].control /\ c.open = cmd[p].open
    BY <2>1, Moved, Shells
  <2> HIDE DEF c
  <2>3. CommandInv(c, dir, cut)
    BY <1>1, <1>2, <2>2
       DEF CommandInv, StageInv, PlacedInv, SourceInv, ReadInv, TestInv, RecoveryInv, Settled,
           Placing, Maker,
           Builder, Rewriting, Forging, Data, BuildAt
  <2> USE DEF c
  <2> QED BY <1>1, <1>2, <2>1, <2>3, WalkStep DEF Rest, Data
<1>3. CASE LoadSource(p) /\ Verifies("capture")
  <2>1. GoodManifest(dir["capture"].manifest) /\ dir["capture"].archive # "forged"
        /\ dir["capture"].manifest # Absent
    BY <1>3 DEF Verifies, HasContent, EvidenceInv, DirectoryInv, Dir
  <2>2. Sound(dir["capture"])
    BY <1>3, <2>1, EvidenceAssumption DEF Verifies, GoodManifest, Sound, Data, Value
  <2> QED BY <1>2, <1>3, <2>1, <2>2 DEF LoadSource, GoTo
<1>4. CASE InspectDestination(p) /\ ~dir["policy"].made
  <2>1. Sound(dir["capture"]) /\ dir["capture"].manifest # Absent
    BY <1>1, <1>4, Shells DEF InspectDestination, CommandInv, SourceInv
  <2> QED BY <1>2, <1>4, <2>1 DEF InspectDestination, GoTo
<1>5. CASE End(p) /\ UNCHANGED <<dir, Rest>>
  BY <1>1, <1>5, EndStep DEF Rest
<1> QED BY <1>3, <1>4, <1>5 DEF LoadSource, InspectDestination

\* A finished maker ends, or goes on to recover.
LEMMA MakerGoesOn ==
    ASSUME EvidenceInv, NEW p \in Shell, AcceptCapture(p) \/ Built(p)
    PROVE  EvidenceInv'
<1>1. CASE End(p) /\ UNCHANGED <<dir, Rest>>
  <2>1. ~Forging(cmd[p])
    BY Shells DEF AcceptCapture, Built, CommandInv, StageInv, BuildAt, RecoverAt, Forging
  <2> QED BY <1>1, <2>1, EndStep DEF Rest
<1>2. CASE AcceptCapture(p) /\ cmd' = [cmd EXCEPT ![p].at = "resolve", ![p].op = "recover"]
  <2> DEFINE c == [cmd[p] EXCEPT !.at = "resolve", !.op = "recover"]
  <2>1. /\ c \in Command /\ c.at = "resolve" /\ c.op = "recover" /\ c.on = cmd[p].on
        /\ c.control = cmd[p].control /\ c.open = cmd[p].open
    BY Shells DEF Command, At, RecoverAt
  <2>2. cmd[p].op = "capture" /\ cmd[p].on = "capture" /\ cmd[p].control = "none" /\ ~cmd[p].open
    BY Shells, <1>2 DEF AcceptCapture, CommandInv, StageInv, BuildAt, RecoverAt, Data, Command
  <2>3. cmd' = [cmd EXCEPT ![p] = c] /\ UNCHANGED <<dir, cut, started>>
    BY <1>2, Shells DEF AcceptCapture, Rest
  <2> HIDE DEF c
  <2>4. CommandInv(c, dir, cut)
    BY <2>1, <2>2
       DEF CommandInv, StageInv, PlacedInv, SourceInv, ReadInv, TestInv, RecoveryInv, Settled,
           Placing, Maker,
           Builder, Rewriting, Forging, Data, RecoverAt
  <2>5. Within(cmd[p], c, dir[cmd[p].on].manifest) /\ ~Forging(cmd[p])
    BY <2>1, <2>2 DEF Within, Settled, Using, Placing, Maker, Builder, Data, Forging
  <2> QED BY <2>1, <2>3, <2>4, <2>5, Shells, OwnStep
<1>3. CASE /\ Built(p) /\ cmd[p].op # "archive"
           /\ cmd' = [cmd EXCEPT ![p].at = "resolve", ![p].control = "positive"]
  <2> DEFINE c == [cmd[p] EXCEPT !.at = "resolve", !.control = "positive"]
  <2>1. /\ c \in Command /\ c.at = "resolve" /\ c.op = cmd[p].op /\ c.on = cmd[p].on
        /\ c.control = "positive" /\ c.open = cmd[p].open
    BY Shells DEF Command, At, RecoverAt, ControlName
  <2>2. cmd[p].op = "test" /\ cmd[p].on = "policy" /\ cmd[p].control = "none" /\ ~cmd[p].open
    BY Shells, <1>3 DEF Built, CommandInv, StageInv, BuildAt, RecoverAt, Data, Command
  <2>3. cmd' = [cmd EXCEPT ![p] = c] /\ UNCHANGED <<dir, cut, started>>
    BY <1>3, Shells DEF Built, Rest
  <2>4. GoodManifest(dir["policy"].manifest)
    BY <1>3, <2>2, Shells DEF Built, CommandInv, TestInv
  <2> HIDE DEF c
  <2>5. CommandInv(c, dir, cut)
    BY <2>1, <2>2, <2>4
       DEF CommandInv, StageInv, PlacedInv, SourceInv, ReadInv, TestInv, RecoveryInv, Settled,
           Placing, Maker,
           Builder, Rewriting, Forging, Data, RecoverAt
  <2>6. Within(cmd[p], c, dir[cmd[p].on].manifest) /\ ~Forging(cmd[p])
    BY <2>1, <2>2 DEF Within, Settled, Using, Placing, Maker, Builder, Data, Forging
  <2> QED BY <2>1, <2>3, <2>5, <2>6, Shells, OwnStep
<1> QED BY <1>1, <1>2, <1>3 DEF AcceptCapture, Built
-----------------------------------------------------------------------------
(* recover_protocol.                                                       *)

\* A recovery before it reads or writes evidence.
LEMMA Recovering ==
    ASSUME EvidenceInv, NEW p \in Shell,
           cmd[p].at \in {"resolve", "materialize", "derive", "update", "reload", "hash"}
    PROVE  /\ ~Maker(cmd[p]) /\ ~Placing(cmd[p]) /\ ~cmd[p].open /\ cmd[p].op \in {"test", "recover"}
           /\ cmd[p].op = "test" => cmd[p].on = "policy" /\ cmd[p].control # "none"
           /\ cmd[p].op = "recover" => cmd[p].control = "none"
           /\ Forging(cmd[p]) => cmd[p].control = "forged"
BY Shells
   DEF CommandInv, StageInv, TestInv, Command, BuildAt, RecoverAt, Data, Maker, Builder, Placing,
              Forging

LEMMA RecoveryWalk ==
    ASSUME EvidenceInv, NEW p \in Shell,
           NEW x \in {"materialize", "derive", "update", "reload", "hash"},
           cmd[p].at \in {"resolve", "materialize", "derive", "update", "reload"},
           GoTo(p, x), UNCHANGED <<dir, Rest>>,
           x \in {"materialize", "derive"} /\ Files(p).manifest # Absent
              => Sound(Files(p)) \/ Files(p).archive = "forged",
           x \in {"update", "reload", "hash"} /\ Files(p).manifest # Absent => Sound(Files(p)),
           x = "hash" => HasContent(Files(p).manifest),
           cmd[p].op = "test" /\ cmd[p].control = "forged" => x \in {"materialize", "derive"}
    PROVE  EvidenceInv'
<1> DEFINE c == [cmd[p] EXCEPT !.at = x]
<1>1. x \in At /\ x \notin Data \cup {"manifest", "forge"} /\ x \in RecoverAt
  BY DEF At, RecoverAt, Data
<1>2. /\ c \in Command /\ c.at = x /\ c.op = cmd[p].op /\ c.on = cmd[p].on
      /\ c.control = cmd[p].control /\ c.open = cmd[p].open /\ c.read = cmd[p].read
  BY <1>1, Moved, Shells
<1>3. /\ ~Maker(cmd[p]) /\ ~cmd[p].open /\ cmd[p].op \in {"test", "recover"}
      /\ cmd[p].op = "test" => cmd[p].on = "policy" /\ cmd[p].control # "none"
      /\ cmd[p].op = "recover" => cmd[p].control = "none"
      /\ Forging(cmd[p]) => cmd[p].control = "forged"
  BY Recovering
<1> HIDE DEF c
<1>4. StageInv(c) /\ PlacedInv(c, dir) /\ SourceInv(c, dir)
  BY <1>1, <1>2, <1>3 DEF StageInv, PlacedInv, SourceInv, Placing, Maker, Builder
<1>5. ReadInv(c, cut)
  BY <1>1, <1>2, <1>3, Shells DEF CommandInv, ReadInv, Rewriting, Forging
<1>6. TestInv(c, dir)
  BY <1>1, <1>2, <1>3, Shells DEF CommandInv, TestInv, Forging
<1>7. RecoveryInv(c, dir)
  BY <1>1, <1>2, EvidenceAssumption DEF RecoveryInv, Files, Settled, HasContent
<1>8. CommandInv(c, dir, cut)
  BY <1>4, <1>5, <1>6, <1>7 DEF CommandInv
<1> USE DEF c
<1>9. cmd' = [cmd EXCEPT ![p].at = x] /\ UNCHANGED <<dir, cut, started>>
  BY DEF GoTo, Rest
<1>10. x \in {"hash", "provenance"} => HasContent(dir[cmd[p].on].manifest)
  BY DEF Files
<1>11. x # "manifest"
  OBVIOUS
<1> QED BY <1>1, <1>3, <1>8, <1>9, <1>10, <1>11, WalkStep

\* Evidence whose manifest verifies is the session's, or forged with it.
LEMMA VerifiedEvidence ==
    ASSUME EvidenceInv, NEW d \in Dir, Verifies(d)
    PROVE  /\ GoodManifest(dir[d].manifest) /\ dir[d].archive = dir[d].manifest.archive
           /\ dir[d].oracle = "session" /\ dir[d].archive \in {"session", "forged"}
<1>1. GoodManifest(dir[d].manifest)
  BY DEF Verifies, EvidenceInv, DirectoryInv
<1> QED BY <1>1, EvidenceAssumption DEF Verifies, GoodManifest, Data, Value

LEMMA ResolveStep ==
    ASSUME EvidenceInv, NEW p \in Shell, Resolve(p) \/ Materialize(p) \/ Derive(p)
    PROVE  EvidenceInv'
<1>1. cmd[p].at \in {"resolve", "materialize", "derive"} /\ UNCHANGED <<dir, Rest>> /\ cmd[p].on \in Dir
  BY Shells DEF Resolve, Materialize, Derive
<1>2. CASE Return(p)
  BY <1>1, <1>2, ReturnStep
<1>3. CASE /\ Resolve(p) /\ GoTo(p, "materialize")
           /\ Files(p).manifest = Absent \/ Verifies(cmd[p].on)
  BY <1>1, <1>3, VerifiedEvidence, RecoveryWalk DEF Files, Sound
<1>4. CASE Materialize(p) /\ GoTo(p, "derive")
  <2>1. ~Maker(cmd[p])
    BY <1>1, Recovering
  <2> QED BY <1>1, <1>4, <2>1, Shells, RecoveryWalk DEF Materialize, CommandInv, RecoveryInv, Files
<1>5. CASE Derive(p) /\ Decodable(p) /\ GoTo(p, IF ssh THEN "update" ELSE "reload")
  <2>1. ~Maker(cmd[p]) /\ (cmd[p].op = "test" => cmd[p].on = "policy")
    BY <1>1, Recovering
  <2>2. Files(p).archive # "forged" /\ cmd[p].at = "derive"
    BY <1>5 DEF Derive, Decodable
  <2>3. Files(p).manifest # Absent => Sound(Files(p))
    BY <2>1, <2>2, Shells DEF CommandInv, RecoveryInv, Files
  <2>4. ~(cmd[p].op = "test" /\ cmd[p].control = "forged")
    BY <2>1, <2>2, Shells DEF CommandInv, TestInv, Files
  <2> QED BY <1>1, <1>5, <2>3, <2>4, RecoveryWalk
<1> QED BY <1>2, <1>3, <1>4, <1>5 DEF Resolve, Materialize, Derive

Keeps(p, x, read) == cmd' = [cmd EXCEPT ![p].at = x, ![p].read = read]

\* A recovery that reads what it will write.
LEMMA ReadStep ==
    ASSUME EvidenceInv, NEW p \in Shell, NEW x \in {"manifest", "provenance"}, NEW read,
           cmd[p].at \in {"update", "hash"},
           Keeps(p, x, read), UNCHANGED <<dir, Rest>>,
           Files(p).manifest # Absent, Sound(Files(p)),
           cmd[p].at = "hash" \/ HasContent(Files(p).manifest),
           x = "manifest" =>
              GoodManifest(read) /\ (~cut \/ cmd[p].on = "capture" => read.archive = "session"),
           x = "provenance" => read \in Provenance /\ read.archive = "session" /\ read.oracle = "session"
    PROVE  EvidenceInv'
<1> DEFINE c == [cmd[p] EXCEPT !.at = x, !.read = read]
<1>1. read \in ManifestValue \cup Provenance \cup {Absent} /\ x \in At /\ x \in RecoverAt
  BY DEF At, RecoverAt, GoodManifest
<1>2. /\ c \in Command /\ c.at = x /\ c.op = cmd[p].op /\ c.on = cmd[p].on
      /\ c.control = cmd[p].control /\ c.open = cmd[p].open /\ c.read = read
  BY <1>1, Shells DEF Command
<1>3. /\ ~Maker(cmd[p]) /\ ~cmd[p].open /\ cmd[p].op \in {"test", "recover"}
      /\ cmd[p].op = "test" => cmd[p].on = "policy" /\ cmd[p].control # "none"
      /\ cmd[p].op = "recover" => cmd[p].control = "none"
      /\ Forging(cmd[p]) => cmd[p].control = "forged"
  BY Recovering
<1>4. ~Forging(cmd[p]) /\ ~(cmd[p].op = "test" /\ cmd[p].control = "forged")
  BY <1>3, Shells DEF CommandInv, TestInv, Forging
<1>5. cmd' = [cmd EXCEPT ![p] = c] /\ UNCHANGED <<dir, cut, started>>
  BY Shells DEF Rest, Keeps
<1> HIDE DEF c
<1>6. StageInv(c) /\ PlacedInv(c, dir) /\ SourceInv(c, dir)
  BY <1>1, <1>2, <1>3 DEF StageInv, PlacedInv, SourceInv, Placing, Maker, Builder, Data
<1>7. ReadInv(c, cut)
  BY <1>2, <1>4 DEF ReadInv, Rewriting, Forging
<1>8. TestInv(c, dir)
  BY <1>2, <1>3, <1>4, Shells DEF CommandInv, TestInv
<1>9. RecoveryInv(c, dir)
  BY <1>2 DEF RecoveryInv, Files, Settled
<1>10. CommandInv(c, dir, cut)
  BY <1>6, <1>7, <1>8, <1>9 DEF CommandInv
<1>11. Within(cmd[p], c, dir[cmd[p].on].manifest)
  BY <1>2, <1>3 DEF Within, Using, Placing, Maker, Builder, Settled, Files
<1> QED BY <1>2, <1>4, <1>5, <1>10, <1>11, Shells, OwnStep

\* Outside of a test's forgery, and as long as none was killed, manifests are
\* genuine.
LEMMA UnforgedManifest ==
    ASSUME EvidenceInv, NEW p \in Shell, Using(cmd[p], cmd[p].on), ~Forging(cmd[p]),
           HasContent(Files(p).manifest)
    PROVE  /\ GoodManifest(Files(p).manifest)
           /\ ~cut \/ cmd[p].on = "capture" => Files(p).manifest.archive = "session"
<1>1. GoodManifest(Files(p).manifest)
  BY Shells DEF EvidenceInv, DirectoryInv, Files
<1>2. CASE cmd[p].on = "capture"
  BY <1>1, <1>2 DEF EvidenceInv, DirectoryInv, Files
<1>3. CASE cmd[p].on = "policy"
  <2>1. \A q \in Shell : Forging(cmd[q]) => q = p
    BY <1>3 DEF EvidenceInv, CrossInv, Forging
  <2> QED BY <1>1, <1>3, <2>1 DEF EvidenceInv, Genuine, Files
<1> QED BY <1>2, <1>3, Shells DEF Dir

LEMMA RewriteStep ==
    ASSUME EvidenceInv, NEW p \in Shell, UpdateManifest(p) \/ Reload(p) \/ HashInputs(p) \/ Recovered(p)
    PROVE  EvidenceInv'
<1>1. /\ cmd[p].at \in {"update", "reload", "hash", "recovered"} /\ UNCHANGED <<dir, Rest>>
      /\ cmd[p].on \in Dir
  BY Shells DEF UpdateManifest, Reload, HashInputs, Recovered
<1>2. CASE Return(p) /\ cmd[p].at # "hash"
  BY <1>1, <1>2, ReturnStep
<1>3. ASSUME cmd[p].at # "recovered"
      PROVE  /\ Files(p).manifest # Absent => Sound(Files(p))
             /\ cmd[p].at = "hash" => Files(p).manifest # Absent
             /\ ~Forging(cmd[p]) /\ ~(cmd[p].op = "test" /\ cmd[p].control = "forged")
             /\ cmd[p].op \in {"test", "recover"}
  <2>1. /\ ~Maker(cmd[p]) /\ cmd[p].op \in {"test", "recover"}
        /\ Forging(cmd[p]) => cmd[p].op = "test" /\ cmd[p].control = "forged"
    BY <1>1, <1>3, Recovering DEF Forging
  <2> QED BY <1>1, <1>3, <2>1, Shells DEF CommandInv, RecoveryInv, TestInv, Files, Settled
<1>4. CASE GoTo(p, "reload") /\ cmd[p].at = "update"
  BY <1>1, <1>3, <1>4, RecoveryWalk
<1>5. CASE UpdateManifest(p) /\ HasContent(Files(p).manifest)
           /\ cmd' = [cmd EXCEPT ![p].at = "manifest",
                                 ![p].read = [Files(p).manifest EXCEPT !.run = cmd[p].id]]
  <2> DEFINE read == [Files(p).manifest EXCEPT !.run = cmd[p].id]
  <2>1. cmd[p].at = "update"
    BY <1>5 DEF UpdateManifest
  <2>2. /\ GoodManifest(Files(p).manifest)
        /\ ~cut \/ cmd[p].on = "capture" => Files(p).manifest.archive = "session"
    BY <1>3, <1>5, <2>1, UnforgedManifest DEF Using
  <2>3. /\ GoodManifest(read)
        /\ ~cut \/ cmd[p].on = "capture" => read.archive = "session"
    <3>1. cmd[p].id \in 0..MaxCommands
      BY Shells DEF Command
    <3> QED BY <2>2, <3>1 DEF GoodManifest, ManifestValue
  <2> HIDE DEF read
  <2>4. Keeps(p, "manifest", read)
    BY <1>5 DEF Keeps, read
  <2>5. Files(p).manifest # Absent /\ HasContent(Files(p).manifest)
    BY <1>5 DEF HasContent
  <2>6. Sound(Files(p))
    BY <1>3, <2>1, <2>5
  <2> QED BY <1>1, <2>1, <2>3, <2>4, <2>5, <2>6, ReadStep
<1>6. CASE Reload(p) /\ HasContent(Files(p).manifest) /\ GoTo(p, "hash")
  BY <1>1, <1>3, <1>6, RecoveryWalk DEF Reload, HasContent
<1>7. CASE HashInputs(p)
  <2> DEFINE read == [manifest |-> Files(p).manifest, archive |-> Files(p).archive,
                      oracle |-> Files(p).oracle]
  <2>1. cmd[p].at = "hash" /\ Files(p).manifest # Absent /\ Sound(Files(p))
    BY <1>3, <1>7 DEF HashInputs
  <2>2. read \in Provenance /\ read.archive = "session" /\ read.oracle = "session"
    <3>1. Files(p) \in Directory
      BY Shells DEF Files
    <3> QED BY <2>1, <3>1 DEF Provenance, Directory, Sound
  <2>3. Keeps(p, "provenance", read)
    BY <1>7 DEF HashInputs, Keeps
  <2> HIDE DEF read
  <2> QED BY <1>1, <2>1, <2>2, <2>3, ReadStep
<1> QED BY <1>1, <1>2, <1>4, <1>5, <1>6, <1>7 DEF UpdateManifest, Reload, Recovered
-----------------------------------------------------------------------------
(* Steps that write files.                                                 *)

\* A file is replaced.
LEMMA Updated ==
    ASSUME NEW d \in Dir, NEW x \in Data \cup {"manifest", "provenance"}, NEW v, EvidenceInv,
           x \in Data => v \in File,
           x = "manifest" => v \in ManifestValue \cup {Absent, Torn},
           x = "provenance" => v \in Provenance \cup {Absent, Torn}
    PROVE  LET E == [dir EXCEPT ![d][x] = v]
           IN  /\ E \in [Dir -> Directory] /\ \A e \in Dir : e # d => E[e] = dir[e]
               /\ E[d].made = dir[d].made
               /\ E[d].archive = IF x = "archive" THEN v ELSE dir[d].archive
               /\ E[d].oracle = IF x = "oracle" THEN v ELSE dir[d].oracle
               /\ E[d].manifest = IF x = "manifest" THEN v ELSE dir[d].manifest
               /\ E[d].provenance = IF x = "provenance" THEN v ELSE dir[d].provenance
<1> DEFINE E == [dir EXCEPT ![d][x] = v]
           R == [dir[d] EXCEPT ![x] = v]
<1>1. dir \in [Dir -> Directory] /\ dir[d] \in Directory
  BY DEF EvidenceInv, TypeInv
<1>2. /\ R.made = dir[d].made
      /\ R.archive = IF x = "archive" THEN v ELSE dir[d].archive
      /\ R.oracle = IF x = "oracle" THEN v ELSE dir[d].oracle
      /\ R.manifest = IF x = "manifest" THEN v ELSE dir[d].manifest
      /\ R.provenance = IF x = "provenance" THEN v ELSE dir[d].provenance
  BY <1>1 DEF Directory, Data
<1>3. R \in Directory
  BY <1>1 DEF Directory, Data
<1>4. E[d] = R /\ \A e \in Dir : e # d => E[e] = dir[e]
  BY <1>1
<1>5. E \in [Dir -> Directory]
  BY <1>1, <1>3
<1> QED BY <1>2, <1>4, <1>5

\* What a maker or a rewriting recovery p does to its directory leaves the
\* other commands what they rely on.
LEMMA OthersKeep ==
    ASSUME EvidenceInv, NEW p \in Shell, NEW q \in Shell, p # q, NEW d \in Dir, d = cmd[p].on, NEW E,
           \A e \in Dir : e # d => E[e] = dir[e],
           E[d].made = dir[d].made,
           \/ Placing(cmd[p]) /\ dir[d].manifest = Absent /\ E[d].manifest = Absent
           \/ /\ Placing(cmd[p]) \/ Settled(cmd[p])
              /\ E[d].archive = dir[d].archive /\ E[d].oracle = dir[d].oracle
              /\ E[d].manifest # Absent
              /\ Placing(cmd[p]) => Sound(dir[d])
              /\ Settled(cmd[p]) => dir[d].manifest # Absent
    PROVE  CommandInv(cmd[q], E, cut)
<1> DEFINE b == cmd[q]
           c == cmd[p]
<1>1. CommandInv(b, dir, cut) /\ b.on \in Dir /\ b \in Command /\ CrossInv(c, b) /\ CrossInv(b, c)
  BY Shells DEF EvidenceInv
<1>2. b.op = "test" => d = "capture" /\ b.on = "policy"
  <2>1. c.op # "none"
    BY Shells DEF CommandInv, StageInv, Placing, Maker, Builder, Settled
  <2>2. b.op = "test" => b.on = "policy"
    BY <1>1 DEF CommandInv, StageInv
  <2>3. b.op = "test" => ~Using(c, "policy")
    BY <1>1 DEF CrossInv
  <2> QED BY <2>1, <2>2, <2>3 DEF Using, Dir
<1>3. Placing(b) => b.on # d
  BY <1>1 DEF CrossInv
<1>4. Settled(b) => b.on # d \/ E[d].manifest # Absent
  BY <1>1 DEF CrossInv
<1> HIDE DEF b, c
<1>5. StageInv(b) /\ ReadInv(b, cut)
  BY <1>1 DEF CommandInv
<1>6. PlacedInv(b, E)
  BY <1>1, <1>3 DEF CommandInv, PlacedInv
<1>7. SourceInv(b, E)
  <2>1. CASE d = "policy"
    BY <1>1, <2>1 DEF CommandInv, SourceInv, Dir
  <2>2. CASE d = "capture"
    BY <1>1, <2>2 DEF CommandInv, SourceInv, Sound
  <2> QED BY <2>1, <2>2 DEF Dir
<1>8. TestInv(b, E)
  BY <1>1, <1>2 DEF CommandInv, TestInv, Dir
<1>9. RecoveryInv(b, E)
  <2>1. CASE b.on # d
    BY <1>1, <2>1 DEF CommandInv, RecoveryInv
  <2>2. CASE b.on = d
    BY <1>1, <1>4, <2>2 DEF CommandInv, RecoveryInv, Sound
  <2> QED BY <2>1, <2>2
<1>10. CommandInv(b, E, cut)
  BY <1>5, <1>6, <1>7, <1>8, <1>9 DEF CommandInv
<1> QED BY <1>10 DEF b

\* A maker or a rewriting recovery changes a file of its directory.
LEMMA FileStep ==
    ASSUME EvidenceInv, NEW p \in Shell, NEW c \in Command, cmd' = [cmd EXCEPT ![p] = c],
           UNCHANGED Rest, NEW d \in Dir, d = cmd[p].on, c.on = d, c.op = cmd[p].op,
           Placing(c) => Placing(cmd[p]), Settled(c) => Settled(cmd[p]), ~Forging(cmd[p]),
           dir' \in [Dir -> Directory], \A e \in Dir : e # d => dir'[e] = dir[e],
           dir'[d].made = dir[d].made,
           \/ Placing(cmd[p]) /\ dir[d].manifest = Absent /\ dir'[d].manifest = Absent
           \/ /\ Placing(cmd[p]) \/ Settled(cmd[p])
              /\ dir'[d].archive = dir[d].archive /\ dir'[d].oracle = dir[d].oracle
              /\ dir'[d].manifest # Absent
              /\ Placing(cmd[p]) => Sound(dir[d])
              /\ Settled(cmd[p]) => dir[d].manifest # Absent,
           dir'[d].archive # "forged" \/ dir'[d].archive = dir[d].archive,
           HasContent(dir'[d].manifest) =>
              /\ GoodManifest(dir'[d].manifest)
              /\ ~cut \/ d = "capture" => dir'[d].manifest.archive = "session",
           dir[d].made,
           HasContent(dir'[d].provenance) => Sound(dir'[d].provenance) /\ dir'[d].manifest # Absent,
           CommandInv(c, dir', cut)
    PROVE  EvidenceInv'
<1>1. cut' = cut /\ started' \in 0..MaxCommands
  BY Shells DEF Rest
<1>2. \A q \in Shell : q # p => CommandInv(cmd[q], dir', cut')
  <2> SUFFICES ASSUME NEW q \in Shell, q # p PROVE CommandInv(cmd[q], dir', cut)
    BY <1>1
  <2> HIDE DEF CommandInv
  <2> QED BY OthersKeep
<1>3. \A q \in Shell : q # p => CrossInv(c, cmd[q]) /\ CrossInv(cmd[q], c)
  <2> SUFFICES ASSUME NEW q \in Shell, q # p PROVE CrossInv(c, cmd[q]) /\ CrossInv(cmd[q], c)
    OBVIOUS
  <2>1. Within(cmd[p], c, dir[cmd[p].on].manifest)
    BY DEF Within, Using
  <2>2. CommandInv(cmd[q], dir, cut) /\ CrossInv(cmd[p], cmd[q]) /\ CrossInv(cmd[q], cmd[p])
    BY DEF EvidenceInv
  <2> QED BY <2>1, <2>2, WithinCross
<1>4. DirectoryInv(dir')
  <2>1. DirectoryInv(dir)
    BY DEF EvidenceInv
  <2>2. dir'["capture"].archive # "forged"
    BY <2>1 DEF DirectoryInv, Dir
  <2>3. HasContent(dir'["capture"].manifest) => dir'["capture"].manifest.archive = "session"
    BY <2>1 DEF DirectoryInv, Dir
  <2>4. \A e \in Dir :
          /\ ~dir'[e].made => dir'[e].manifest = Absent
          /\ HasContent(dir'[e].manifest) => GoodManifest(dir'[e].manifest)
          /\ HasContent(dir'[e].provenance) => Sound(dir'[e].provenance) /\ dir'[e].manifest # Absent
    BY <2>1 DEF DirectoryInv
  <2> QED BY <2>2, <2>3, <2>4 DEF DirectoryInv
<1>5. cut' \/ (\E q \in Shell : Forging(cmd'[q])) \/ Genuine(dir')
  <2>1. \A q \in Shell : Forging(cmd[q]) => cmd'[q] = cmd[q]
    BY Shells
  <2>2. CASE cut \/ \E q \in Shell : Forging(cmd[q])
    BY <1>1, <2>1, <2>2
  <2>3. CASE ~cut /\ Genuine(dir)
    BY <2>3 DEF Genuine, Dir
  <2> QED BY <2>2, <2>3 DEF EvidenceInv
<1> QED BY <1>1, <1>2, <1>3, <1>4, <1>5, Step

\* mkdir, of a directory that does not exist.
LEMMA MakeStep ==
    ASSUME EvidenceInv, NEW p \in Shell, MakeDirectories(p)
    PROVE  EvidenceInv'
<1> DEFINE d == cmd[p].on
           E == [dir EXCEPT ![d].made = TRUE]
           c == [cmd[p] EXCEPT !.at = "archive"]
<1>1. /\ Maker(cmd[p]) /\ ~cmd[p].open /\ ~Forging(cmd[p]) /\ cmd[p].at = "mkdir"
      /\ cmd[p].op # "none" /\ cmd[p].control = "none"
  BY Shells
     DEF MakeDirectories, Command, CommandInv, StageInv, Maker, Builder, Data, RecoverAt, Forging
<1>2. CASE End(p) /\ UNCHANGED <<dir, Rest>>
  BY <1>1, <1>2, EndStep DEF Rest
<1>3. CASE ~dir[d].made /\ GoTo(p, "archive") /\ dir' = E /\ UNCHANGED Rest
  <2>1. /\ c \in Command /\ c.at = "archive" /\ c.op = cmd[p].op /\ c.on = d
        /\ c.control = cmd[p].control /\ c.open = cmd[p].open
    BY Moved, Shells DEF At, BuildAt
  <2>2. d \in Dir /\ dir[d] \in Directory
    BY Shells
  <2>3. /\ E \in [Dir -> Directory] /\ \A e \in Dir : e # d => E[e] = dir[e]
        /\ E[d].made /\ E[d].archive = dir[d].archive /\ E[d].oracle = dir[d].oracle
        /\ E[d].manifest = dir[d].manifest /\ E[d].provenance = dir[d].provenance
    BY <2>2, Shells DEF Directory
  <2>4. dir[d].manifest = Absent
    BY <1>3, <2>2 DEF EvidenceInv, DirectoryInv
  <2>5. cmd' = [cmd EXCEPT ![p] = c] /\ dir' = E /\ cut' = cut /\ started' \in 0..MaxCommands
    BY <1>3, Shells DEF GoTo, Rest
  <2> HIDE DEF c, E
  <2>6. \A e \in Dir : /\ E[e].archive = dir[e].archive /\ E[e].oracle = dir[e].oracle
                       /\ E[e].manifest = dir[e].manifest /\ E[e].provenance = dir[e].provenance
                       /\ dir[e].made => E[e].made
    BY <2>3
  <2>7. \A q \in Shell : CommandInv(cmd[q], E, cut)
    <3> SUFFICES ASSUME NEW q \in Shell PROVE CommandInv(cmd[q], E, cut)
      OBVIOUS
    <3>1. /\ "capture" \in Dir /\ "policy" \in Dir /\ cmd[q].on \in Dir
          /\ CommandInv(cmd[q], dir, cut)
      BY Shells DEF Dir
    <3>2. PlacedInv(cmd[q], E)
      BY <2>6, <3>1 DEF CommandInv, PlacedInv
    <3>3. SourceInv(cmd[q], E) /\ TestInv(cmd[q], E)
      BY <2>6, <3>1 DEF CommandInv, SourceInv, TestInv, Sound
    <3>4. RecoveryInv(cmd[q], E)
      BY <2>6, <3>1 DEF CommandInv, RecoveryInv, Sound
    <3> QED BY <3>1, <3>2, <3>3, <3>4 DEF CommandInv
  <2>8. CommandInv(c, E, cut)
    <3>1. StageInv(c)
      BY <1>1, <2>1, Shells DEF CommandInv, StageInv, Data, BuildAt, Maker, Builder
    <3>2. PlacedInv(c, E)
      BY <1>1, <2>1, <2>3, <2>4 DEF PlacedInv
    <3>3. SourceInv(c, E)
      BY <1>1, <2>1, <2>7 DEF CommandInv, SourceInv, Builder
    <3>4. ReadInv(c, cut) /\ TestInv(c, E) /\ RecoveryInv(c, E)
      BY <1>1, <2>1 DEF ReadInv, TestInv, RecoveryInv, Maker, Builder, Rewriting, Forging
    <3> QED BY <3>1, <3>2, <3>3, <3>4 DEF CommandInv
  <2>9. DirectoryInv(E)
    BY <2>6 DEF EvidenceInv, DirectoryInv, Dir
  <2>10. \A q \in Shell : q # p => CrossInv(c, cmd[q]) /\ CrossInv(cmd[q], c)
    <3> SUFFICES ASSUME NEW q \in Shell, q # p PROVE CrossInv(c, cmd[q]) /\ CrossInv(cmd[q], c)
      OBVIOUS
    <3>1. /\ CommandInv(cmd[q], dir, cut) /\ cmd[q].on \in Dir
          /\ CrossInv(cmd[p], cmd[q]) /\ CrossInv(cmd[q], cmd[p])
      BY Shells DEF EvidenceInv
    <3>2. Placing(cmd[q]) => cmd[q].on # d
      BY <1>3, <3>1 DEF CommandInv, PlacedInv
    <3>3. Settled(cmd[q]) => cmd[q].on # d
      BY <2>4, <3>1 DEF CommandInv, RecoveryInv, Settled
    <3>4. ~Settled(c)
      BY <2>1 DEF Settled
    <3> QED BY <2>1, <3>1, <3>2, <3>3, <3>4 DEF CrossInv, Using
  <2>11. cut' \/ (\E q \in Shell : Forging(cmd'[q])) \/ Genuine(dir')
    <3>1. \A q \in Shell : Forging(cmd[q]) => cmd'[q] = cmd[q]
      BY <1>1, <2>5, Shells
    <3>2. Genuine(dir) => Genuine(dir')
      BY <2>5, <2>6 DEF Genuine, Dir
    <3> QED BY <2>5, <3>1, <3>2 DEF EvidenceInv
  <2> QED BY <2>1, <2>3, <2>5, <2>7, <2>8, <2>9, <2>10, <2>11, Step
<1> QED BY <1>2, <1>3 DEF MakeDirectories

\* A command that has reached a file.
LEMMA AtFile ==
    ASSUME EvidenceInv, NEW p \in Shell, cmd[p].at \in Data \cup {"manifest", "provenance"}
    PROVE  /\ cmd[p].op # "none" /\ ~Forging(cmd[p])
           /\ Placing(cmd[p]) \/ Settled(cmd[p])
           /\ cmd[p].at \in Data => Placing(cmd[p])
           /\ cmd[p].at = "provenance" => Settled(cmd[p])
           /\ Settled(cmd[p]) => ~(cmd[p].op = "test" /\ cmd[p].control = "forged")
BY Shells
   DEF Command, CommandInv, StageInv, TestInv, Forging, Placing, Settled, Maker, Builder, Data,
       BuildAt, RecoverAt

LEMMA OpenStep ==
    ASSUME EvidenceInv, NEW p \in Shell, OpenFile(p)
    PROVE  EvidenceInv'
<1> DEFINE d == cmd[p].on
           x == cmd[p].at
           c == [cmd[p] EXCEPT !.open = TRUE]
           E == [dir EXCEPT ![d][x] = Torn]
<1>1. /\ c \in Command /\ c.at = x /\ c.op = cmd[p].op /\ c.on = d /\ c.open
      /\ c.control = cmd[p].control /\ c.read = cmd[p].read
  BY Shells DEF Command
<1>2. cmd' = [cmd EXCEPT ![p] = c] /\ dir' = E /\ UNCHANGED Rest
  BY Shells DEF OpenFile
<1>3. d \in Dir /\ x \in Data \cup {"manifest", "provenance"} /\ ~cmd[p].open
  BY Shells DEF OpenFile
<1>4. /\ E \in [Dir -> Directory] /\ \A e \in Dir : e # d => E[e] = dir[e]
      /\ E[d].made = dir[d].made
      /\ E[d].archive = IF x = "archive" THEN Torn ELSE dir[d].archive
      /\ E[d].oracle = IF x = "oracle" THEN Torn ELSE dir[d].oracle
      /\ E[d].manifest = IF x = "manifest" THEN Torn ELSE dir[d].manifest
      /\ E[d].provenance = IF x = "provenance" THEN Torn ELSE dir[d].provenance
  BY <1>3, Updated DEF File
<1>5. /\ CommandInv(cmd[p], dir, cut) /\ DirectoryInv(dir)
  BY Shells DEF EvidenceInv
<1>6. /\ cmd[p].op # "none" /\ ~Forging(cmd[p])
      /\ Placing(cmd[p]) \/ Settled(cmd[p])
      /\ x \in Data => Placing(cmd[p])
      /\ x = "provenance" => Settled(cmd[p])
      /\ Settled(cmd[p]) => ~(cmd[p].op = "test" /\ cmd[p].control = "forged")
  BY <1>3, AtFile
<1> HIDE DEF c, E, d, x
<1>7. /\ Placing(c) <=> Placing(cmd[p])
      /\ Settled(c) <=> Settled(cmd[p])
      /\ Maker(c) <=> Maker(cmd[p])
  BY <1>1 DEF Placing, Settled, Maker, Builder, x
<1>8. CASE Placing(cmd[p])
  <2>1. /\ Maker(c) /\ dir[d].made /\ dir[d].manifest = Absent /\ x # "provenance"
        /\ x # "archive" => dir[d].archive = "session"
        /\ x \in {"truth", "manifest"} => dir[d].oracle = "session"
    BY <1>3, <1>5, <1>7, <1>8 DEF CommandInv, PlacedInv, d, x, Placing, Data
  <2>2. StageInv(c)
    BY <1>1, <1>3, <1>5 DEF CommandInv, StageInv, d, x
  <2>3. PlacedInv(c, E)
    BY <1>1, <1>4, <2>1 DEF PlacedInv
  <2>4. SourceInv(c, E)
    <3>1. Builder(c) => d = "policy" /\ Builder(cmd[p])
      BY <1>1, <1>5 DEF CommandInv, StageInv, Builder, d, x
    <3> QED BY <1>1, <1>4, <1>5, <3>1 DEF CommandInv, SourceInv, Dir, x
  <2>5. ReadInv(c, cut) /\ TestInv(c, E) /\ RecoveryInv(c, E)
    BY <1>1, <1>3, <2>1 DEF ReadInv, TestInv, RecoveryInv, Maker, Builder, Rewriting, Forging, Data
  <2>6. CommandInv(c, E, cut)
    BY <2>2, <2>3, <2>4, <2>5 DEF CommandInv
  <2>7. \/ dir[d].manifest = Absent /\ E[d].manifest = Absent
        \/ /\ E[d].archive = dir[d].archive /\ E[d].oracle = dir[d].oracle
           /\ E[d].manifest # Absent /\ Sound(dir[d])
    BY <1>4, <2>1, EvidenceAssumption DEF Sound
  <2>8. E[d].archive # "forged" \/ E[d].archive = dir[d].archive
    BY <1>4, EvidenceAssumption DEF Value
  <2>9. ~HasContent(E[d].manifest) /\ ~HasContent(E[d].provenance)
    BY <1>3, <1>4, <1>5, <2>1 DEF HasContent, DirectoryInv
  <2>10. ~Settled(cmd[p])
    BY <1>8 DEF Placing, Settled
  <2> QED BY <1>1, <1>2, <1>3, <1>4, <1>6, <1>7, <1>8, <2>1, <2>6, <2>7, <2>8, <2>9, <2>10, FileStep
             DEF d
<1>9. CASE Settled(cmd[p])
  <2>1. /\ ~Maker(c) /\ dir[d].manifest # Absent /\ x \in {"manifest", "provenance"}
        /\ Sound(dir[d]) /\ dir[d].made /\ E[d].manifest # Absent
    BY <1>3, <1>4, <1>5, <1>7, <1>9, EvidenceAssumption
       DEF CommandInv, RecoveryInv, DirectoryInv, d, x, Settled, Data
  <2>2. StageInv(c)
    BY <1>1, <1>3, <1>5 DEF CommandInv, StageInv, d, x
  <2>3. PlacedInv(c, E) /\ SourceInv(c, E)
    BY <1>1, <2>1 DEF PlacedInv, SourceInv, Placing, Maker
  <2>4. ReadInv(c, cut)
    BY <1>1, <1>5, <1>6, <1>7 DEF CommandInv, ReadInv, Rewriting, Forging, d, x
  <2>5. TestInv(c, E)
    <3>1. c.op = "test" => d = "policy" /\ c.control # "none"
      BY <1>1, <1>5, <2>1 DEF CommandInv, StageInv, Maker, Builder, d
    <3> QED BY <1>1, <1>4, <1>5, <1>6, <1>9, <2>1, <3>1, <1>3 DEF CommandInv, TestInv, d, x
  <2>6. RecoveryInv(c, E)
    BY <1>1, <1>4, <1>5, <2>1, <1>7 DEF CommandInv, RecoveryInv, Sound, d, x
  <2>7. CommandInv(c, E, cut)
    BY <2>2, <2>3, <2>4, <2>5, <2>6 DEF CommandInv
  <2>8. E[d].archive = dir[d].archive /\ E[d].oracle = dir[d].oracle
    BY <1>4, <2>1
  <2>9. HasContent(E[d].manifest) =>
           /\ GoodManifest(E[d].manifest)
           /\ ~cut \/ d = "capture" => E[d].manifest.archive = "session"
    <3>1. HasContent(E[d].manifest) => E[d].manifest = Files(p).manifest
      BY <1>4 DEF HasContent, Files, d
    <3>2. Using(cmd[p], cmd[p].on)
      BY <1>6 DEF Using
    <3> QED BY <1>6, <3>1, <3>2, UnforgedManifest DEF d
  <2>10. HasContent(E[d].provenance) => Sound(E[d].provenance)
    BY <1>3, <1>4, <1>5 DEF HasContent, DirectoryInv
  <2>11. ~Placing(cmd[p])
    BY <1>9 DEF Placing, Settled
  <2> QED BY <1>1, <1>2, <1>3, <1>4, <1>6, <1>7, <1>9, <2>1, <2>7, <2>8, <2>9, <2>10, <2>11,
             FileStep DEF d
<1> QED BY <1>6, <1>8, <1>9

\* What a write leaves in its file.
LEMMA WriteLeaves ==
    ASSUME NEW p \in Shell, WriteFile(p)
    PROVE  \E v : /\ dir' = [dir EXCEPT ![cmd[p].on][cmd[p].at] = v]
                  /\ v = Written(p) \/ (v = Torn /\ cmd[p].op = "recover")
BY DEF WriteFile, Overlapped

LEMMA WriteStep ==
    ASSUME EvidenceInv, NEW p \in Shell, WriteFile(p)
    PROVE  EvidenceInv'
<1> DEFINE d == cmd[p].on
           x == cmd[p].at
           y == Following(p)
           c == [cmd[p] EXCEPT !.open = FALSE, !.at = y]
<1>0. PICK v : /\ dir' = [dir EXCEPT ![d][x] = v]
               /\ v = Written(p) \/ (v = Torn /\ cmd[p].op = "recover")
  BY WriteLeaves
<1> DEFINE E == [dir EXCEPT ![d][x] = v]
<1>1. d \in Dir /\ x \in Data \cup {"manifest", "provenance"} /\ cmd[p].open
  BY Shells DEF WriteFile, CommandInv, StageInv
<1>2. /\ CommandInv(cmd[p], dir, cut) /\ DirectoryInv(dir) /\ dir[d] \in Directory
      /\ dir["capture"] \in Directory /\ cmd[p] \in Command
  BY Shells DEF EvidenceInv, Dir
<1>3. /\ cmd[p].op # "none" /\ ~Forging(cmd[p])
      /\ Placing(cmd[p]) \/ Settled(cmd[p])
      /\ x \in Data => Placing(cmd[p])
      /\ x = "provenance" => Settled(cmd[p])
      /\ Settled(cmd[p]) => ~(cmd[p].op = "test" /\ cmd[p].control = "forged")
  BY <1>1, AtFile
<1>4. Making(p) <=> Maker(cmd[p])
  BY DEF Making, Building, Maker, Builder
<1>5. y \in {"oracle", "truth", "manifest", "accept", "built", "reload", "recovered"}
  BY <1>1 DEF Following, Data
<1>6. /\ c \in Command /\ c.at = y /\ c.op = cmd[p].op /\ c.on = d /\ ~c.open
      /\ c.control = cmd[p].control /\ c.read = cmd[p].read
  <2>1. y \in At
    BY <1>5 DEF At, BuildAt, RecoverAt
  <2> HIDE DEF y
  <2> QED BY <1>2, <2>1 DEF Command
<1>7. cmd' = [cmd EXCEPT ![p] = c] /\ dir' = E /\ UNCHANGED Rest
  BY <1>0, Shells DEF WriteFile
<1>8. CASE Placing(cmd[p])
  <2>1. /\ Maker(cmd[p]) /\ dir[d].made /\ x # "provenance" /\ dir[d].manifest \in {Absent, Torn}
        /\ x # "manifest" => dir[d].manifest = Absent
        /\ x # "archive" => dir[d].archive = "session"
        /\ x \in {"truth", "manifest"} => dir[d].oracle = "session"
        /\ ~Settled(cmd[p])
    BY <1>1, <1>2, <1>8 DEF CommandInv, PlacedInv, Placing, Data, Settled
  <2>0. v = Written(p)
    BY <1>0, <2>1 DEF Maker, Builder
  <2>2. x = "truth" => cmd[p].op = "capture"
    BY <1>2, <2>1 DEF CommandInv, StageInv, Maker, Builder, BuildAt
  <2>3. x \in Data => v = "session"
    <3>1. Building(p) => (cmd[p].at # "load" /\ cmd[p].at # "truth") \/ x \notin Data
      BY <2>2 DEF Building, Data
    <3>2. Building(p) /\ x \in Data => Sound(dir["capture"])
      BY <1>2, <3>1 DEF CommandInv, SourceInv, Builder, Building, Data
    <3> QED BY <2>0, <2>2, <3>2 DEF Written, Building, Data, Sound
  <2>4. x = "manifest" => v \in ManifestValue /\ v.archive = "session" /\ v.oracle = "session"
    <3>1. x = "manifest" => v = ManifestOf(d)
      BY <1>4, <2>0, <2>1 DEF Written, Data
    <3>2. 0 \in 0..MaxCommands
      BY EvidenceAssumption
    <3> QED BY <1>2, <2>1, <3>1, <3>2 DEF ManifestOf, ManifestValue, Directory, File, Value
  <2>5. /\ x = "archive" => y = "oracle"
        /\ x = "oracle" => y = IF cmd[p].op = "capture" THEN "truth" ELSE "manifest"
        /\ x = "truth" => y = "manifest"
        /\ x = "manifest" => y = IF cmd[p].op = "capture" THEN "accept" ELSE "built"
    BY <2>1 DEF Following, Maker, Builder, Building
  <2> HIDE DEF c, E, y, d, x
  <2>6. /\ E \in [Dir -> Directory] /\ \A e \in Dir : e # d => E[e] = dir[e]
        /\ E[d].made = dir[d].made
        /\ E[d].archive = IF x = "archive" THEN v ELSE dir[d].archive
        /\ E[d].oracle = IF x = "oracle" THEN v ELSE dir[d].oracle
        /\ E[d].manifest = IF x = "manifest" THEN v ELSE dir[d].manifest
        /\ E[d].provenance = IF x = "provenance" THEN v ELSE dir[d].provenance
    <3>1. x \in Data => v \in File
      BY <2>3 DEF File, Value
    <3>2. x = "manifest" => v \in ManifestValue \cup {Absent, Torn}
      BY <2>4
    <3>3. x = "provenance" => v \in Provenance \cup {Absent, Torn}
      BY <2>1
    <3> QED BY <1>1, <3>1, <3>2, <3>3, Updated DEF E
  <2>7. Maker(c) /\ ~Settled(c) /\ (Placing(c) => Placing(cmd[p]))
    BY <1>6, <1>8, <2>1 DEF Maker, Builder, Settled
  <2>8. StageInv(c)
    BY <1>2, <1>6, <2>1, <2>5, <1>1 DEF CommandInv, StageInv, d, x, Data, BuildAt, Maker, Builder
  <2>9. PlacedInv(c, E)
    BY <1>1, <1>6, <2>1, <2>3, <2>5, <2>6 DEF PlacedInv, Placing, Data
  <2>10. SourceInv(c, E)
    <3>1. Builder(c) => d = "policy" /\ Builder(cmd[p]) /\ cmd[p].at # "load"
      BY <1>1, <1>2, <1>6 DEF CommandInv, StageInv, Builder, d, x, Data
    <3> QED BY <1>2, <2>6, <3>1 DEF CommandInv, SourceInv, Dir
  <2>11. GoodManifest(E["policy"].manifest) \/ c.at # "built" \/ c.op # "test"
    BY <1>1, <1>2, <1>6, <2>1, <2>4, <2>5, <2>6
       DEF GoodManifest, Data, CommandInv, StageInv, d, x
  <2>12. ReadInv(c, cut) /\ TestInv(c, E) /\ RecoveryInv(c, E)
    <3>1. c.op = "test" => c.control = "none"
      BY <2>7 DEF Maker, Builder
    <3>2. c.at # "forge"
      BY <1>5, <1>6
    <3> QED BY <2>7, <2>11, <3>1, <3>2 DEF ReadInv, TestInv, RecoveryInv, Rewriting, Forging
  <2>13. CommandInv(c, E, cut)
    BY <2>8, <2>9, <2>10, <2>12 DEF CommandInv
  <2>14. \/ dir[d].manifest = Absent /\ E[d].manifest = Absent
         \/ /\ E[d].archive = dir[d].archive /\ E[d].oracle = dir[d].oracle
            /\ E[d].manifest # Absent /\ Sound(dir[d])
    BY <1>1, <2>1, <2>4, <2>6, EvidenceAssumption DEF Sound, Data
  <2>15. E[d].archive # "forged" \/ E[d].archive = dir[d].archive
    BY <2>3, <2>6 DEF Data
  <2>16. /\ HasContent(E[d].manifest) =>
               GoodManifest(E[d].manifest) /\ E[d].manifest.archive = "session"
         /\ HasContent(E[d].provenance) => Sound(E[d].provenance) /\ E[d].manifest # Absent
    <3>1. HasContent(E[d].manifest) => x = "manifest"
      BY <2>1, <2>6 DEF HasContent
    <3>2. x = "manifest" => GoodManifest(E[d].manifest) /\ E[d].manifest.archive = "session"
                            /\ E[d].manifest # Absent
      BY <2>4, <2>6, EvidenceAssumption DEF GoodManifest
    <3>3. HasContent(E[d].provenance) => Sound(E[d].provenance) /\ dir[d].manifest # Absent
      BY <1>1, <1>2, <2>1, <2>6 DEF DirectoryInv
    <3> QED BY <2>1, <3>1, <3>2, <3>3
  <2> QED BY <1>1, <1>3, <1>6, <1>7, <1>8, <2>1, <2>6, <2>7, <2>13, <2>14, <2>15, <2>16, FileStep
             DEF d
<1>9. CASE Settled(cmd[p])
  <2>1. /\ ~Maker(cmd[p]) /\ dir[d].manifest # Absent /\ x \in {"manifest", "provenance"}
        /\ Sound(dir[d]) /\ dir[d].made /\ ~Placing(cmd[p])
    BY <1>1, <1>2, <1>9 DEF CommandInv, RecoveryInv, DirectoryInv, Settled, Data, Placing
  <2>2. (v = cmd[p].read \/ (v = Torn /\ cmd[p].op = "recover")) /\ y = IF x = "manifest" THEN "reload" ELSE "recovered"
    BY <1>0, <1>4, <2>1 DEF Written, Following, Data, Making
  <2>3. x = "manifest" /\ v = cmd[p].read =>
           /\ GoodManifest(v) /\ v \in ManifestValue
           /\ ~cut \/ d = "capture" => v.archive = "session"
    BY <1>2, <2>1, <2>2 DEF CommandInv, ReadInv, Rewriting, GoodManifest
  <2>4. x = "provenance" /\ v = cmd[p].read => v \in Provenance /\ Sound(v)
    BY <1>2, <2>1, <2>2 DEF CommandInv, RecoveryInv, Sound
  <2> HIDE DEF c, E, y, d, x
  <2>5. /\ E \in [Dir -> Directory] /\ \A e \in Dir : e # d => E[e] = dir[e]
        /\ E[d].made = dir[d].made
        /\ E[d].archive = dir[d].archive
        /\ E[d].oracle = dir[d].oracle
        /\ E[d].manifest = IF x = "manifest" THEN v ELSE dir[d].manifest
        /\ E[d].provenance = IF x = "provenance" THEN v ELSE dir[d].provenance
    <3>1. /\ x \in Data => v \in File
          /\ x # "archive" /\ x # "oracle"
      BY <2>1 DEF Data
    <3>2. x = "manifest" => v \in ManifestValue \cup {Absent, Torn}
      BY <2>2, <2>3
    <3>3. x = "provenance" => v \in Provenance \cup {Absent, Torn}
      BY <2>2, <2>4
    <3> QED BY <1>1, <3>1, <3>2, <3>3, Updated DEF E
  <2>6. ~Maker(c) /\ ~Settled(c) /\ ~Placing(c)
    BY <1>6, <2>1, <2>2 DEF Maker, Builder, Settled, Placing
  <2>7. /\ E[d].manifest # Absent
        /\ HasContent(E[d].manifest) =>
              /\ GoodManifest(E[d].manifest)
              /\ ~cut \/ d = "capture" => E[d].manifest.archive = "session"
    <3>1. Using(cmd[p], cmd[p].on)
      BY <1>3 DEF Using
    <3>2. HasContent(dir[d].manifest) =>
             /\ GoodManifest(dir[d].manifest)
             /\ ~cut \/ d = "capture" => dir[d].manifest.archive = "session"
      BY <1>3, <3>1, UnforgedManifest DEF d, Files
    <3>3. x = "manifest" /\ v = Torn => ~HasContent(E[d].manifest) /\ E[d].manifest # Absent
      BY <2>5, EvidenceAssumption DEF HasContent
    <3> QED BY <2>1, <2>2, <2>3, <2>5, <3>2, <3>3, EvidenceAssumption
  <2>8. StageInv(c)
    BY <1>2, <1>6, <2>1, <2>2 DEF CommandInv, StageInv, d, x, RecoverAt, Maker, Builder, Data
  <2>9. PlacedInv(c, E) /\ SourceInv(c, E) /\ ReadInv(c, cut)
    BY <1>3, <1>6, <2>1, <2>2, <2>6 DEF PlacedInv, SourceInv, ReadInv, Maker, Rewriting, Forging, x
  <2>10. TestInv(c, E)
    <3>1. c.op = "test" => d = "policy" /\ c.control # "none"
      BY <1>2, <1>6, <2>1 DEF CommandInv, StageInv, Maker, Builder, d
    <3>2. c.op = "test" /\ x = "provenance" => GoodManifest(dir[d].manifest)
      BY <1>2, <1>6, <3>1 DEF CommandInv, TestInv, d, x
    <3>3. c.op = "test" /\ x = "manifest" => GoodManifest(v)
      BY <1>6, <2>2, <2>3
    <3> QED BY <1>3, <1>6, <1>9, <2>1, <2>2, <2>5, <3>1, <3>2, <3>3, <1>2
        DEF CommandInv, TestInv, d, x
  <2>11. RecoveryInv(c, E)
    BY <1>6, <2>1, <2>2, <2>5, <2>6 DEF RecoveryInv, Sound
  <2>12. CommandInv(c, E, cut)
    BY <2>8, <2>9, <2>10, <2>11 DEF CommandInv
  <2>13. HasContent(E[d].provenance) => Sound(E[d].provenance)
    BY <1>1, <1>2, <2>2, <2>4, <2>5 DEF DirectoryInv, HasContent
  <2>14. E[d].archive = dir[d].archive
    BY <2>5
  <2> QED BY <1>1, <1>3, <1>6, <1>7, <1>9, <2>1, <2>5, <2>6, <2>7, <2>12, <2>13, <2>14, FileStep
             DEF d
<1> QED BY <1>3, <1>8, <1>9
-----------------------------------------------------------------------------
(* Steps of a policy test that change its archive.                         *)

\* A test has the archive for itself: what it does there concerns no other.
LEMMA TestStep ==
    ASSUME EvidenceInv, NEW p \in Shell, NEW c \in Command, cmd' = [cmd EXCEPT ![p] = c],
           UNCHANGED Rest, cmd[p].op = "test",
           dir' \in [Dir -> Directory], dir'["capture"] = dir["capture"],
           dir'["policy"].made = dir["policy"].made,
           dir'["policy"].provenance = dir["policy"].provenance,
           dir["policy"].manifest # Absent, GoodManifest(dir'["policy"].manifest),
           dir'["policy"].manifest # Absent,
           CommandInv(c, dir', cut), Within(cmd[p], c, Absent),
           cut \/ Forging(c) \/ dir'["policy"].manifest.archive = "session"
    PROVE  EvidenceInv'
<1>1. cut' = cut /\ started' \in 0..MaxCommands /\ "policy" \in Dir
  BY Shells DEF Rest, Dir
<1>2. \A q \in Shell : q # p => CommandInv(cmd[q], dir', cut')
  <2> SUFFICES ASSUME NEW q \in Shell, q # p PROVE CommandInv(cmd[q], dir', cut)
    BY <1>1
  <2>1. ~Using(cmd[q], "policy")
    BY DEF EvidenceInv, CrossInv
  <2>2. \A e \in Dir : e # "policy" => dir'[e] = dir[e]
    BY DEF Dir
  <2>3. cmd[q] \in Command /\ CommandInv(cmd[q], dir, cut)
    BY Shells
  <2> QED BY <1>1, <2>1, <2>2, <2>3, Elsewhere
<1>3. \A q \in Shell : q # p => CrossInv(c, cmd[q]) /\ CrossInv(cmd[q], c)
  <2> SUFFICES ASSUME NEW q \in Shell, q # p PROVE CrossInv(c, cmd[q]) /\ CrossInv(cmd[q], c)
    OBVIOUS
  <2>1. Within(cmd[p], c, dir[cmd[p].on].manifest)
    BY DEF Within, HasContent
  <2>2. CommandInv(cmd[q], dir, cut) /\ CrossInv(cmd[p], cmd[q]) /\ CrossInv(cmd[q], cmd[p])
    BY DEF EvidenceInv
  <2> QED BY <2>1, <2>2, WithinCross
<1>4. DirectoryInv(dir')
  <2>1. DirectoryInv(dir)
    BY DEF EvidenceInv
  <2>2. dir["policy"].made
    BY <2>1 DEF DirectoryInv, Dir
  <2> QED BY <2>1, <2>2 DEF DirectoryInv, Dir
<1>5. cut' \/ (\E q \in Shell : Forging(cmd'[q])) \/ Genuine(dir')
  <2>1. cmd'[p] = c
    BY Shells
  <2> QED BY <1>1, <2>1 DEF Genuine
<1> QED BY <1>1, <1>2, <1>3, <1>4, <1>5, Step

\* A test that runs its controls.
LEMMA Controlling ==
    ASSUME EvidenceInv, NEW p \in Shell, cmd[p].at \in {"control", "forge"}
    PROVE  /\ cmd[p].op = "test" /\ cmd[p].on = "policy" /\ cmd[p].control # "none" /\ ~cmd[p].open
           /\ GoodManifest(dir["policy"].manifest) /\ HasContent(dir["policy"].manifest)
           /\ Forging(cmd[p]) \/ cut \/ dir["policy"].manifest.archive = "session"
<1>1. cmd[p].op = "test" /\ cmd[p].on = "policy" /\ cmd[p].control # "none" /\ ~cmd[p].open
  BY Shells DEF Command, CommandInv, StageInv, BuildAt, RecoverAt, Data
<1>2. GoodManifest(dir["policy"].manifest)
  BY <1>1, Shells DEF CommandInv, TestInv
<1>3. HasContent(dir["policy"].manifest)
  BY <1>2, EvidenceAssumption DEF GoodManifest, HasContent
<1>4. \A q \in Shell : Forging(cmd[q]) => q = p
  BY <1>1 DEF EvidenceInv, CrossInv, Forging, Using
<1> QED BY <1>1, <1>2, <1>3, <1>4 DEF EvidenceInv, Genuine

\* A control changes the archive or the oracle, or puts it back.
LEMMA ControlStep ==
    ASSUME EvidenceInv, NEW p \in Shell, NEW control \in ControlName \ {"none"},
           NEW x \in {"resolve", "forge", "control"}, NEW file \in {"archive", "oracle"},
           NEW value \in File, NEW saved \in File,
           cmd[p].at = "control",
           dir' = [dir EXCEPT !["policy"][file] = value],
           cmd' = [cmd EXCEPT ![p] = [cmd[p] EXCEPT !.control = control, !.at = x,
                                                    !.saved = saved]],
           UNCHANGED Rest,
           control = "forged" => x = "forge" /\ file = "archive" /\ value = "forged",
           x = "forge" => control = "forged",
           control = "unforged" => cmd[p].control = "forged" /\ x = "control",
           Forging(cmd[p]) => control = "unforged"
    PROVE  EvidenceInv'
<1> DEFINE c == [cmd[p] EXCEPT !.control = control, !.at = x, !.saved = saved]
           E == [dir EXCEPT !["policy"][file] = value]
<1>1. /\ cmd[p].op = "test" /\ cmd[p].on = "policy" /\ cmd[p].control # "none" /\ ~cmd[p].open
      /\ GoodManifest(dir["policy"].manifest) /\ HasContent(dir["policy"].manifest)
      /\ Forging(cmd[p]) \/ cut \/ dir["policy"].manifest.archive = "session"
  BY Controlling
<1>2. /\ c \in Command /\ c.at = x /\ c.op = "test" /\ c.on = "policy" /\ ~c.open
      /\ c.control = control /\ c.read = cmd[p].read
  <2>1. x \in At /\ control \in ControlName
    BY DEF At, RecoverAt
  <2> QED BY <1>1, <2>1, Shells DEF Command
<1>3. /\ E \in [Dir -> Directory] /\ E["capture"] = dir["capture"]
      /\ E["policy"].made = dir["policy"].made
      /\ E["policy"].manifest = dir["policy"].manifest
      /\ E["policy"].provenance = dir["policy"].provenance
      /\ E["policy"].archive = IF file = "archive" THEN value ELSE dir["policy"].archive
  <2>1. "policy" \in Dir /\ "capture" \in Dir /\ file \in Data \cup {"manifest", "provenance"}
        /\ file # "manifest" /\ file # "provenance"
    BY DEF Dir, Data
  <2> QED BY <2>1, Updated
<1> HIDE DEF c, E
<1>4. StageInv(c) /\ PlacedInv(c, E) /\ SourceInv(c, E) /\ RecoveryInv(c, E)
  BY <1>2
     DEF StageInv, PlacedInv, SourceInv, RecoveryInv, Placing, Maker, Builder, Settled, RecoverAt,
         Data
<1>5. Forging(c) => control = "unforged" /\ Forging(cmd[p])
  BY <1>1, <1>2 DEF Forging
<1>6. ReadInv(c, cut)
  BY <1>1, <1>2, <1>5, Shells DEF CommandInv, ReadInv, Rewriting
<1>7. TestInv(c, E)
  BY <1>1, <1>2, <1>3 DEF TestInv
<1>8. CommandInv(c, E, cut)
  BY <1>4, <1>6, <1>7 DEF CommandInv
<1>9. Within(cmd[p], c, Absent)
  BY <1>1, <1>2 DEF Within, Using, Placing, Maker, Builder, Settled
<1>10. cut \/ Forging(c) \/ E["policy"].manifest.archive = "session"
  BY <1>1, <1>2, <1>3 DEF Forging
<1>11. dir' = E /\ cmd' = [cmd EXCEPT ![p] = c]
  BY DEF c, E
<1>12. dir["policy"].manifest # Absent
  BY <1>1 DEF HasContent
<1>13. /\ GoodManifest(dir'["policy"].manifest) /\ dir'["policy"].manifest # Absent
       /\ dir' \in [Dir -> Directory] /\ dir'["capture"] = dir["capture"]
       /\ dir'["policy"].made = dir["policy"].made
       /\ dir'["policy"].provenance = dir["policy"].provenance
       /\ cut \/ Forging(c) \/ dir'["policy"].manifest.archive = "session"
  BY <1>1, <1>3, <1>10, <1>11, <1>12
<1>14. CommandInv(c, dir', cut)
  BY <1>8, <1>11
<1>15. c \in Command /\ cmd[p].op = "test" /\ cmd' = [cmd EXCEPT ![p] = c]
  BY <1>1, <1>2, <1>11
<1> QED BY <1>9, <1>12, <1>13, <1>14, <1>15, TestStep

LEMMA ControlSteps ==
    ASSUME EvidenceInv, NEW p \in Shell,
           \/ FlipBit(p) \/ UnflipBit(p) \/ Withhold(p) \/ GiveBack(p) \/ ForgeArchive(p)
           \/ UnforgeArchive(p)
    PROVE  EvidenceInv'
<1>1. ASSUME NEW control \in ControlName \ {"none", "unforged"}, NEW x \in {"resolve", "forge"},
             NEW file \in {"archive", "oracle"}, NEW value \in File,
             NEW after \in {"positive", "flipped", "given_back"},
             Control(p, after, control, x, file, value),
             control = "forged" => x = "forge" /\ file = "archive" /\ value = "forged",
             x = "forge" => control = "forged"
      PROVE  EvidenceInv'
  <2>1. dir["policy"][file] \in File
    BY Shells DEF Dir, Directory
  <2>2. cmd' = [cmd EXCEPT ![p] = [cmd[p] EXCEPT !.control = control, !.at = x,
                                                 !.saved = dir["policy"][file]]]
    BY <1>1, Shells DEF Control
  <2>3. ~Forging(cmd[p])
    BY <1>1 DEF Control, Forging
  <2>4. cmd[p].at = "control" /\ UNCHANGED Rest /\ dir' = [dir EXCEPT !["policy"][file] = value]
    BY <1>1 DEF Control
  <2>5. control \in ControlName \ {"none"} /\ control # "unforged"
    OBVIOUS
  <2> QED BY <1>1, <2>1, <2>2, <2>3, <2>4, <2>5, ControlStep
<1>2. ASSUME NEW next \in ControlName \ {"none", "forged"}, NEW file \in {"archive", "oracle"},
             NEW control \in {"tampered", "withheld", "forged"},
             Restore(p, control, file, next), next = "unforged" <=> control = "forged"
      PROVE  EvidenceInv'
  <2>1. cmd[p].saved \in File /\ Absent \in File /\ cmd[p].at = "control"
    BY <1>2, Shells DEF Command, File, Restore
  <2>2. cmd' = [cmd EXCEPT ![p] = [cmd[p] EXCEPT !.control = next, !.at = "control",
                                                 !.saved = Absent]]
    BY <1>2, <2>1, Shells DEF Restore, Command
  <2>3. Forging(cmd[p]) => next = "unforged"
    BY <1>2 DEF Restore, Forging
  <2> QED BY <1>2, <2>1, <2>2, <2>3, ControlStep DEF Restore
<1>3. "rotten" \in File /\ "forged" \in File /\ Absent \in File
  BY DEF File, Value
<1>4. {"tampered", "flipped", "withheld", "given_back", "forged", "unforged"}
      \subseteq ControlName \ {"none"}
  BY DEF ControlName
<1>5. CASE FlipBit(p)
  BY <1>1, <1>3, <1>4, <1>5 DEF FlipBit
<1>6. CASE UnflipBit(p)
  BY <1>2, <1>4, <1>6 DEF UnflipBit
<1>7. CASE Withhold(p)
  BY <1>1, <1>3, <1>4, <1>7 DEF Withhold
<1>8. CASE GiveBack(p)
  BY <1>2, <1>4, <1>8 DEF GiveBack
<1>9. CASE ForgeArchive(p)
  BY <1>1, <1>3, <1>4, <1>9 DEF ForgeArchive
<1>10. CASE UnforgeArchive(p)
  BY <1>2, <1>4, <1>10 DEF UnforgeArchive
<1> QED BY <1>5, <1>6, <1>7, <1>8, <1>9, <1>10

LEMMA ForgeStep ==
    ASSUME EvidenceInv, NEW p \in Shell, ForgeManifest(p)
    PROVE  EvidenceInv'
<1> DEFINE m == dir["policy"].manifest
           n == [m EXCEPT !.archive = "forged"]
           c == [cmd[p] EXCEPT !.at = "resolve", !.read = m]
           E == [dir EXCEPT !["policy"]["manifest"] = n]
<1>1. /\ cmd[p].op = "test" /\ cmd[p].on = "policy" /\ cmd[p].control # "none" /\ ~cmd[p].open
      /\ GoodManifest(m) /\ HasContent(m) /\ (Forging(cmd[p]) \/ cut \/ m.archive = "session")
  BY Controlling DEF ForgeManifest
<1>2. cmd[p].at = "forge" /\ cmd[p].control = "forged" /\ dir["policy"].archive = "forged"
      /\ ~Forging(cmd[p])
  BY <1>1, Shells DEF ForgeManifest, CommandInv, TestInv, Forging
<1>3. n \in ManifestValue /\ GoodManifest(n) /\ n # Absent
  BY <1>1, EvidenceAssumption DEF GoodManifest, ManifestValue, Value
<1>4. /\ c \in Command /\ c.at = "resolve" /\ c.op = "test" /\ c.on = "policy" /\ ~c.open
      /\ c.control = "forged" /\ c.read = m
  <2>1. m \in ManifestValue /\ "resolve" \in At
    BY <1>1 DEF GoodManifest, At, RecoverAt
  <2> HIDE DEF m
  <2> QED BY <1>1, <1>2, <2>1, Shells DEF Command
<1>5. dir' = E /\ cmd' = [cmd EXCEPT ![p] = c] /\ UNCHANGED Rest
  BY Shells DEF ForgeManifest
<1> HIDE DEF m, n, c, E
<1>6. /\ E \in [Dir -> Directory] /\ E["capture"] = dir["capture"]
      /\ E["policy"].made = dir["policy"].made /\ E["policy"].manifest = n
      /\ E["policy"].provenance = dir["policy"].provenance
      /\ E["policy"].archive = dir["policy"].archive
  <2>1. "policy" \in Dir /\ "capture" \in Dir /\ "manifest" \in Data \cup {"manifest", "provenance"}
        /\ "manifest" \notin Data
    BY DEF Dir, Data
  <2> QED BY <1>3, <2>1, Updated DEF E
<1>7. StageInv(c) /\ PlacedInv(c, E) /\ SourceInv(c, E) /\ RecoveryInv(c, E)
  BY <1>4
     DEF StageInv, PlacedInv, SourceInv, RecoveryInv, Placing, Maker, Builder, Settled, RecoverAt,
         Data
<1>8. ReadInv(c, cut)
  BY <1>1, <1>2, <1>4 DEF ReadInv
<1>9. TestInv(c, E)
  BY <1>2, <1>3, <1>4, <1>6 DEF TestInv
<1>10. CommandInv(c, E, cut)
  BY <1>7, <1>8, <1>9 DEF CommandInv
<1>11. Within(cmd[p], c, Absent) /\ Forging(c)
  BY <1>1, <1>4 DEF Within, Using, Placing, Maker, Builder, Settled, Forging
<1>12. dir["policy"].manifest # Absent
  BY <1>1 DEF HasContent, m
<1> QED BY <1>1, <1>3, <1>4, <1>5, <1>6, <1>10, <1>11, <1>12, TestStep

LEMMA EndTestStep ==
    ASSUME EvidenceInv, NEW p \in Shell, EndTest(p)
    PROVE  EvidenceInv'
<1>1. /\ cmd[p].op = "test" /\ cmd[p].on = "policy" /\ HasContent(dir["policy"].manifest)
      /\ cmd[p].at = "control" /\ End(p) /\ UNCHANGED Rest
  BY Controlling DEF EndTest
<1>2. CASE cmd[p].control = "given_back" /\ UNCHANGED dir
  BY <1>1, <1>2, EndStep DEF Rest, Forging
<1>3. CASE cmd[p].control = "unforged" /\ dir' = [dir EXCEPT !["policy"]["manifest"] = cmd[p].read]
  <2> DEFINE m == cmd[p].read
             E == [dir EXCEPT !["policy"]["manifest"] = m]
  <2>1. GoodManifest(m) /\ (~cut => m.archive = "session") /\ m # Absent /\ m \in ManifestValue
    BY <1>1, <1>3, Shells, EvidenceAssumption DEF CommandInv, ReadInv, Forging, GoodManifest
  <2> HIDE DEF m
  <2>2. /\ E \in [Dir -> Directory] /\ E["capture"] = dir["capture"]
        /\ E["policy"].made = dir["policy"].made /\ E["policy"].manifest = m
        /\ E["policy"].provenance = dir["policy"].provenance
    <3>1. "policy" \in Dir /\ "capture" \in Dir /\ "manifest" \in Data \cup {"manifest", "provenance"}
          /\ "manifest" \notin Data
      BY DEF Dir, Data
    <3> QED BY <2>1, <3>1, Updated
  <2>3. dir' = E
    BY <1>3 DEF m
  <2> HIDE DEF E
  <2>4. CommandInv(NoCommand, dir', cut) /\ NoCommand \in Command
    BY NoCommandInv, NoCommandFacts
  <2>5. Within(cmd[p], NoCommand, Absent)
    BY NoCommandFacts DEF Within, Using, Placing, Maker, Builder, Settled, Data
  <2>6. dir["policy"].manifest # Absent
    BY <1>1 DEF HasContent
  <2>7. cmd' = [cmd EXCEPT ![p] = NoCommand]
    BY <1>1 DEF End
  <2> QED BY <1>1, <2>1, <2>2, <2>3, <2>4, <2>5, <2>6, <2>7, TestStep
<1> QED BY <1>2, <1>3 DEF EndTest
-----------------------------------------------------------------------------
(* Failures.                                                               *)

LEMMA KillStep ==
    ASSUME EvidenceInv, NEW p \in Shell, Kill(p)
    PROVE  EvidenceInv'
BY EndStep DEF Kill, Testing, Forging

LEMMA RotStep ==
    ASSUME EvidenceInv, NEW d \in Dir, NEW f \in Data \cup {"manifest", "provenance"}, Rot(d, f)
    PROVE  EvidenceInv'
<1> DEFINE v == IF f \in Data THEN "rotten" ELSE Torn
           E == [dir EXCEPT ![d][f] = v]
<1>1. /\ f \in Data => v \in File
      /\ f \notin Data => v = Torn
      /\ v # "forged"
  BY EvidenceAssumption DEF File, Value
<1>2. dir' = E /\ cmd' = cmd /\ cut' = cut /\ started' = started /\ HasContent(dir[d][f])
      /\ \A q \in Shell : ~Using(cmd[q], d)
  BY DEF Rot, Using, Uses
<1> HIDE DEF v
<1>3. /\ E \in [Dir -> Directory] /\ \A e \in Dir : e # d => E[e] = dir[e]
      /\ E[d].made = dir[d].made
      /\ E[d].archive = IF f = "archive" THEN v ELSE dir[d].archive
      /\ E[d].manifest = IF f = "manifest" THEN v ELSE dir[d].manifest
      /\ E[d].provenance = IF f = "provenance" THEN v ELSE dir[d].provenance
  <2>1. /\ f = "manifest" => v \in ManifestValue \cup {Absent, Torn}
        /\ f = "provenance" => v \in Provenance \cup {Absent, Torn}
    BY <1>1 DEF Data
  <2> QED BY <1>1, <2>1, Updated
<1>4. f = "manifest" => dir[d].manifest # Absent /\ v = Torn
  BY <1>1, <1>2 DEF HasContent, Data
<1>5. f = "provenance" => v = Torn
  BY <1>1 DEF Data
<1> HIDE DEF E
<1>6. TypeInv'
  BY <1>2, <1>3 DEF EvidenceInv, TypeInv
<1>7. \A q \in Shell : CommandInv(cmd[q], E, cut)
  BY <1>2, <1>3, Shells, Elsewhere
<1>8. DirectoryInv(E)
  <2>1. DirectoryInv(dir)
    BY DEF EvidenceInv
  <2>2. HasContent(E[d].manifest) => E[d].manifest = dir[d].manifest
    BY <1>3, <1>4 DEF HasContent
  <2>3. HasContent(E[d].provenance) => E[d].provenance = dir[d].provenance
    BY <1>3, <1>5 DEF HasContent
  <2>4. (dir[d].manifest # Absent => E[d].manifest # Absent)
        /\ (dir[d].manifest = Absent => E[d].manifest = Absent)
    BY <1>3, <1>4, EvidenceAssumption
  <2> QED BY <1>1, <1>3, <2>1, <2>2, <2>3, <2>4 DEF DirectoryInv, Dir
<1>9. Genuine(dir) => Genuine(E)
  BY <1>3, <1>4 DEF Genuine, Dir, HasContent
<1> QED BY <1>2, <1>6, <1>7, <1>8, <1>9 DEF EvidenceInv

LEMMA EvidenceInvStep == EvidenceInv /\ [Next]_vars => EvidenceInv'
<1> SUFFICES ASSUME EvidenceInv, [Next]_vars PROVE EvidenceInv'
  OBVIOUS
<1>1. ASSUME NEW p \in Shell,
             \/ StartCapture(p) \/ StartArchive(p, "archive") \/ StartArchive(p, "test")
             \/ \E d \in {"capture", "policy"}, named \in BOOLEAN : StartRecover(p, d, named)
      PROVE  EvidenceInv'
  BY <1>1, StartSteps DEF Dir
<1>2. ASSUME NEW p \in Shell, Build(p) PROVE EvidenceInv'
  BY <1>2, BuilderLooks, MakeStep, OpenStep, WriteStep, MakerGoesOn DEF Build
<1>3. ASSUME NEW p \in Shell, Recovery(p) PROVE EvidenceInv'
  BY <1>3, ResolveStep, RewriteStep DEF Recovery
<1>4. ASSUME NEW p \in Shell, Controls(p) PROVE EvidenceInv'
  BY <1>4, ControlSteps, ForgeStep, EndTestStep DEF Controls
<1>5. ASSUME NEW d \in {"capture", "policy"}, NEW f \in Data \cup {"manifest", "provenance"}, Rot(d, f)
      PROVE  EvidenceInv'
  BY <1>5, RotStep DEF Dir
<1>6. CASE UNCHANGED vars
  BY <1>6 DEF EvidenceInv, TypeInv, vars
<1> QED BY <1>1, <1>2, <1>3, <1>4, <1>5, <1>6, KillStep DEF Next

LEMMA EvidenceInvHolds == Spec => []EvidenceInv
BY InitInv, EvidenceInvStep, PTL DEF Spec
-----------------------------------------------------------------------------
\* However captures, archivers, tests and recoveries of any number of shells
\* interleave, whatever is killed between two of their steps and whatever rots
\* on the disk: a provenance file names the session's wire data and the genuine
\* simulated recovery, in a directory that has had a manifest.
THEOREM ProvenanceIsGenuine == Spec => []ProvenanceNamesEvidence
<1>1. EvidenceInv => ProvenanceNamesEvidence
  BY DEF EvidenceInv, DirectoryInv, ProvenanceNamesEvidence, Sound, Dir
<1> QED BY <1>1, EvidenceInvHolds, PTL

\* While no test runs and none was killed, a directory whose manifest verifies
\* holds the session's wire data and the genuine simulated recovery.
THEOREM VerifiedIsFaithful == Spec => []EvidenceIsFaithful
<1>1. EvidenceInv => EvidenceIsFaithful
  <2> SUFFICES ASSUME EvidenceInv, Quiet, ~cut, NEW d \in Dir, Verifies(d)
               PROVE  dir[d].archive = "session" /\ dir[d].oracle = "session"
    BY DEF EvidenceIsFaithful, Dir
  <2>1. /\ GoodManifest(dir[d].manifest) /\ dir[d].archive = dir[d].manifest.archive
        /\ dir[d].oracle = "session"
    BY VerifiedEvidence
  <2>2. \A p \in Shell : ~Forging(cmd[p])
    BY DEF Quiet, Testing, Forging
  <2>3. dir[d].manifest.archive = "session"
    BY <2>2 DEF EvidenceInv, DirectoryInv, Genuine, Verifies, Dir
  <2> QED BY <2>1, <2>3
<1> QED BY <1>1, EvidenceInvHolds, PTL
-----------------------------------------------------------------------------
(* What no command changes.                                                *)

\* Two manifests that record the same data; a manifest whose records all hold
\* of the directory D, and one of which they would hold if file g were v.
Alike(m, n)           == \A f \in Data : m[f] = n[f]
Covers(m, D)          == \A f \in Data : m[f] \in {Absent, D[f]}
CoversBut(m, D, g, v) == m[g] \in {Absent, v} /\ \A f \in Data \ {g} : m[f] \in {Absent, D[f]}

\* Whatever recovery is to write a manifest back writes the one that is there,
\* but for the recovery it names.
Agrees(c, D) ==
    Rewriting(c) /\ HasContent(D[c.on].manifest) => Alike(c.read, D[c.on].manifest)
Agree(b, c)  == Rewriting(b) /\ Rewriting(c) /\ b.on = c.on => Alike(b.read, c.read)

AgreeInv ==
    /\ \A p \in Shell : Agrees(cmd[p], dir)
    /\ \A p, q \in Shell : p # q => Agree(cmd[p], cmd[q])

\* A control that has changed the policy archive, and what it will put back.
Changing(c) == c.op = "test" /\ c.control \in {"tampered", "withheld", "forged", "unforged"}

ChangeInv(c, D) ==
    Changing(c) =>
       /\ c.control \in {"tampered", "withheld"} => c.at \in {"resolve", "control"}
       /\ c.control = "tampered" =>
             D.archive = "rotten" /\ CoversBut(D.manifest, D, "archive", c.saved)
       /\ c.control = "withheld" =>
             D.oracle = Absent /\ CoversBut(D.manifest, D, "oracle", c.saved)
       /\ c.control = "forged" =>
             CoversBut(IF c.at = "forge" THEN D.manifest ELSE c.read, D, "archive", c.saved)
       /\ c.control = "unforged" => Covers(c.read, D)

\* Without rot, and unless a test was killed, every manifest that is there or
\* is to be written back verifies, except while a control runs.
Matches(c, D) == (Rewriting(c) => Covers(c.read, D[c.on])) /\ ChangeInv(c, D["policy"])
Complete(d)   ==
    HasContent(dir[d].manifest) =>
       Covers(dir[d].manifest, dir[d]) \/ (d = "policy" /\ \E p \in Shell : Changing(cmd[p]))

MatchInv ==
    /\ rots \in Nat
    /\ rots = 0 /\ ~cut => /\ \A p \in Shell : Matches(cmd[p], dir)
                           /\ \A d \in Dir : Complete(d)

KeptInv == AgreeInv /\ MatchInv

SameEvidence(d) == dir'[d].manifest = dir[d].manifest /\ \A f \in Data : dir'[d][f] = dir[d][f]

\* A command that changes nothing of what it will put back.
Retains(b, c) ==
    /\ Changing(c) => Changing(b)
    /\ Changing(b) =>
          /\ Changing(c) /\ c.control = b.control /\ c.saved = b.saved /\ c.read = b.read
          /\ c.at = "forge" <=> b.at = "forge"
          /\ c.control \in {"tampered", "withheld"} => c.at \in {"resolve", "control"}

LEMMA NotChanging ==
    ASSUME NEW c, NEW D, ~Rewriting(c), ~Changing(c)
    PROVE  Agrees(c, D) /\ Matches(c, D)
BY DEF Agrees, Matches, ChangeInv

\* A step of one shell that leaves the evidence of every directory alone.
LEMMA WalkKeeps ==
    ASSUME EvidenceInv, KeptInv, NEW p \in Shell, NEW c, cmd' = [cmd EXCEPT ![p] = c],
           \A d \in Dir : SameEvidence(d), rots' = rots, cut => cut',
           ~Rewriting(c), rots = 0 /\ ~cut' => Retains(cmd[p], c)
    PROVE  KeptInv'
<1>1. cmd'[p] = c /\ \A q \in Shell : q # p => cmd'[q] = cmd[q]
  BY Shells
<1>2. \A q \in Shell : cmd[q].on \in Dir
  BY Shells
<1>3. AgreeInv'
  <2>1. ASSUME NEW q \in Shell PROVE Agrees(cmd'[q], dir')
    BY <1>1, <1>2 DEF KeptInv, AgreeInv, Agrees, SameEvidence
  <2>2. ASSUME NEW q \in Shell, NEW r \in Shell, q # r PROVE Agree(cmd'[q], cmd'[r])
    BY <1>1, <2>2 DEF KeptInv, AgreeInv, Agree
  <2> QED BY <2>1, <2>2 DEF AgreeInv
<1>4. MatchInv'
  <2>1. rots' \in Nat
    BY DEF KeptInv, MatchInv
  <2> SUFFICES ASSUME rots = 0, ~cut' PROVE /\ \A q \in Shell : Matches(cmd'[q], dir')
                                            /\ \A d \in Dir : Complete(d)'
    BY <2>1 DEF MatchInv
  <2>2. (\A q \in Shell : Matches(cmd[q], dir)) /\ \A d \in Dir : Complete(d)
    BY DEF KeptInv, MatchInv
  <2>3. ASSUME NEW b, NEW m, NEW g \in Data, NEW v
        PROVE  /\ Covers(m, dir["policy"]) => Covers(m, dir'["policy"])
               /\ CoversBut(m, dir["policy"], g, v) => CoversBut(m, dir'["policy"], g, v)
    BY DEF SameEvidence, Covers, CoversBut, Dir
  <2>4. ASSUME NEW b, ChangeInv(b, dir["policy"]) PROVE ChangeInv(b, dir'["policy"])
    BY <2>3, <2>4 DEF ChangeInv, SameEvidence, Data, Dir
  <2>5. ASSUME NEW q \in Shell PROVE Matches(cmd'[q], dir')
    <3>1. CASE q = p
      <4>1. ChangeInv(cmd[p], dir["policy"]) /\ Retains(cmd[p], c)
        BY <2>2 DEF Matches
      <4>2. ChangeInv(c, dir["policy"])
        BY <4>1 DEF ChangeInv, Retains
      <4> QED BY <1>1, <2>4, <3>1, <4>2 DEF Matches
    <3>2. CASE q # p
      <4>1. Rewriting(cmd[q]) => Covers(cmd[q].read, dir'[cmd[q].on])
        BY <1>2, <2>2 DEF Matches, Covers, SameEvidence
      <4> QED BY <1>1, <2>2, <2>4, <3>2, <4>1 DEF Matches
    <3> QED BY <3>1, <3>2
  <2>6. ASSUME NEW d \in Dir PROVE Complete(d)'
    <3>1. (\E q \in Shell : Changing(cmd[q])) => \E q \in Shell : Changing(cmd'[q])
      BY <1>1 DEF Retains
    <3>2. Covers(dir[d].manifest, dir[d]) => Covers(dir'[d].manifest, dir'[d])
      BY DEF Covers, SameEvidence
    <3> QED BY <2>2, <3>1, <3>2 DEF Complete, SameEvidence
  <2> QED BY <2>5, <2>6
<1> QED BY <1>3, <1>4 DEF KeptInv

\* A step that is not one of a control leaves the evidence of every directory
\* alone and goes to no manifest.
LEMMA PlainKeeps ==
    ASSUME EvidenceInv, KeptInv, NEW p \in Shell, NEW x \in At,
           cmd' = [cmd EXCEPT ![p].at = x], UNCHANGED <<rots, cut>>,
           \A d \in Dir : SameEvidence(d),
           Maker(cmd[p]) \/ x # "manifest",
           x # "forge", cmd[p].at # "forge",
           rots = 0 /\ ~cut /\ Changing(cmd[p]) /\ cmd[p].control \in {"tampered", "withheld"}
              => x \in {"resolve", "control"}
    PROVE  KeptInv'
<1> DEFINE c == [cmd[p] EXCEPT !.at = x]
<1>1. /\ c.at = x /\ c.op = cmd[p].op /\ c.control = cmd[p].control
      /\ c.read = cmd[p].read /\ c.saved = cmd[p].saved
  BY Moved, Shells
<1>2. cmd' = [cmd EXCEPT ![p] = c]
  BY Shells
<1> HIDE DEF c
<1>3. ~Rewriting(c)
  BY <1>1 DEF Rewriting, Maker, Builder
<1>4. rots = 0 /\ ~cut' => Retains(cmd[p], c)
  BY <1>1 DEF Retains, Changing
<1> QED BY <1>2, <1>3, <1>4, WalkKeeps

\* The end of a command, unless it is that of a control.
LEMMA EndKeeps ==
    ASSUME EvidenceInv, KeptInv, NEW p \in Shell, End(p), dir' = dir, rots' = rots,
           cut => cut', rots = 0 /\ ~cut' => ~Changing(cmd[p])
    PROVE  KeptInv'
<1>1. ~Rewriting(NoCommand) /\ ~Changing(NoCommand)
  BY NoCommandFacts DEF Rewriting, Changing
<1>2. rots = 0 /\ ~cut' => Retains(cmd[p], NoCommand)
  BY <1>1 DEF Retains
<1> QED BY <1>1, <1>2, WalkKeeps DEF End, SameEvidence

LEMMA StartKeeps ==
    ASSUME EvidenceInv, KeptInv, NEW p \in Shell, NEW op, NEW d \in Dir, NEW at, NEW named,
           Start(p, op, d, at, named), at # "manifest"
    PROVE  KeptInv'
<1> DEFINE c == [NoCommand EXCEPT !.op = op, !.on = d, !.at = at, !.named = named,
!.id = started + 1]
<1>1. c.op = op /\ c.at = at /\ c.control = "none"
  BY DEF NoCommand
<1>2. cmd' = [cmd EXCEPT ![p] = c] /\ dir' = dir /\ cut' = cut /\ rots' = rots /\ cmd[p].op = "none"
  BY DEF Start
<1> HIDE DEF c
<1>3. ~Rewriting(c) /\ ~Changing(c) /\ ~Changing(cmd[p])
  BY <1>1, <1>2 DEF Rewriting, Changing
<1>4. Retains(cmd[p], c)
  BY <1>3 DEF Retains
<1> QED BY <1>2, <1>3, <1>4, WalkKeeps DEF SameEvidence

\* No other command uses the archive of a test.
LEMMA AloneInPolicy ==
    ASSUME EvidenceInv, NEW p \in Shell, NEW q \in Shell, p # q, cmd[p].op = "test"
    PROVE  ~Using(cmd[q], "policy") /\ ~Changing(cmd[q])
BY Shells DEF EvidenceInv, CrossInv, Using, Changing, CommandInv, StageInv

\* A command that has the policy archive, or a test that is not changing it,
\* leaves no other to change it.
LEMMA NoneChanging ==
    ASSUME EvidenceInv, NEW p \in Shell, Using(cmd[p], "policy"), ~Changing(cmd[p])
    PROVE  \A q \in Shell : ~Changing(cmd[q])
BY AloneInPolicy DEF Changing

\* A recovery that is not at its first or its last place changes nothing that
\* its test has to put back.
LEMMA RecoveringKeeps ==
    ASSUME EvidenceInv, KeptInv, NEW p \in Shell, rots = 0, ~cut, Changing(cmd[p])
    PROVE  /\ cmd[p].at \in {"resolve", "materialize", "derive", "control", "forge"}
           /\ cmd[p].control \in {"tampered", "withheld"} => cmd[p].at \in {"resolve", "control"}
           /\ cmd[p].control = "unforged" => cmd[p].at = "control"
BY Shells DEF KeptInv, MatchInv, Matches, ChangeInv, Changing, CommandInv, TestInv

\* The steps of a builder or a capture that write no file.
LEMMA MakerKeeps ==
    ASSUME EvidenceInv, KeptInv, NEW p \in Shell,
           \/ LoadSource(p) \/ InspectDestination(p) \/ MakeDirectories(p)
           \/ AcceptCapture(p) \/ Built(p)
    PROVE  KeptInv'
<1>1. /\ cmd[p].at \in {"load", "inspect", "mkdir", "accept", "built"} /\ cut' = cut /\ rots' = rots
      /\ Maker(cmd[p]) /\ ~Changing(cmd[p]) /\ ~Rewriting(cmd[p])
  <2>1. cmd[p].at \in {"load", "inspect", "mkdir", "accept", "built"} /\ UNCHANGED Rest
    BY DEF LoadSource, InspectDestination, MakeDirectories, AcceptCapture, Built
  <2> QED BY <2>1, Shells
          DEF Rest, CommandInv, StageInv, Maker, Builder, Changing, Rewriting, Data, BuildAt,
              RecoverAt, Command
<1>2. \A d \in Dir : SameEvidence(d)
  <2>1. CASE dir' = dir
    BY <2>1 DEF SameEvidence
  <2>2. CASE dir' = [dir EXCEPT ![cmd[p].on].made = TRUE]
    BY <2>2, Shells DEF SameEvidence, Data, Directory
  <2> QED BY <2>1, <2>2
          DEF LoadSource, InspectDestination, MakeDirectories, AcceptCapture, Built
<1>3. ASSUME NEW c, cmd' = [cmd EXCEPT ![p] = c], ~Rewriting(c), ~Changing(c)
      PROVE  KeptInv'
  <2>1. Retains(cmd[p], c)
    BY <1>1, <1>3 DEF Retains
  <2> QED BY <1>1, <1>2, <1>3, <2>1, WalkKeeps
<1>4. CASE End(p)
  <2>1. ~Rewriting(NoCommand) /\ ~Changing(NoCommand)
    BY NoCommandFacts DEF Rewriting, Changing
  <2> QED BY <1>3, <1>4, <2>1 DEF End
<1>5. ASSUME NEW x \in {"inspect", "mkdir", "archive"}, GoTo(p, x) PROVE KeptInv'
  <2>1. x \in At /\ x \notin {"manifest", "forge"}
    BY DEF At, BuildAt
  <2> QED BY <1>1, <1>2, <1>5, <2>1, PlainKeeps DEF GoTo
<1>6. CASE cmd' = [cmd EXCEPT ![p].at = "resolve", ![p].op = "recover"]
  <2> DEFINE c == [cmd[p] EXCEPT !.at = "resolve", !.op = "recover"]
  <2>1. c.at = "resolve" /\ c.op = "recover" /\ cmd' = [cmd EXCEPT ![p] = c]
    BY <1>6, Shells DEF Command
  <2> HIDE DEF c
  <2> QED BY <1>3, <2>1 DEF Rewriting, Changing
<1>7. CASE cmd' = [cmd EXCEPT ![p].at = "resolve", ![p].control = "positive"]
  <2> DEFINE c == [cmd[p] EXCEPT !.at = "resolve", !.control = "positive"]
  <2>1. c.at = "resolve" /\ c.control = "positive" /\ cmd' = [cmd EXCEPT ![p] = c]
    BY <1>7, Shells DEF Command
  <2> HIDE DEF c
  <2> QED BY <1>3, <2>1 DEF Rewriting, Changing
<1> QED BY <1>4, <1>5, <1>6, <1>7
        DEF LoadSource, InspectDestination, MakeDirectories, AcceptCapture, Built

LEMMA ReturnKeeps ==
    ASSUME EvidenceInv, KeptInv, NEW p \in Shell, Return(p), UNCHANGED <<dir, Rest>>,
           cmd[p].at \in {"resolve", "materialize", "derive", "update", "reload", "recovered"}
    PROVE  KeptInv'
<1>1. \A d \in Dir : SameEvidence(d)
  BY DEF SameEvidence
<1>2. CASE Testing(p)
  <2>1. "control" \in At /\ "control" # "manifest" /\ "control" # "forge"
    BY DEF At
  <2> QED BY <1>1, <1>2, <2>1, PlainKeeps DEF Return, GoTo, Rest
<1>3. CASE ~Testing(p)
  BY <1>3, EndKeeps DEF Return, Rest, Testing, Changing
<1> QED BY <1>2, <1>3

\* A recovery's steps up to the writing of a file.
LEMMA RecoveryKeeps ==
    ASSUME EvidenceInv, KeptInv, NEW p \in Shell,
           \/ Resolve(p) \/ Materialize(p) \/ Derive(p) \/ Reload(p) \/ Recovered(p)
           \/ UpdateManifest(p) /\ (GoTo(p, "reload") \/ Return(p))
    PROVE  KeptInv'
<1>1. /\ cmd[p].at \in {"resolve", "materialize", "derive", "update", "reload", "recovered"}
      /\ UNCHANGED <<dir, Rest>>
  BY DEF Resolve, Materialize, Derive, Reload, Recovered, UpdateManifest
<1>2. CASE Return(p)
  BY <1>1, <1>2, ReturnKeeps
<1>3. ASSUME NEW x \in {"materialize", "derive", "update", "reload", "hash"}, GoTo(p, x),
             cmd[p].at = "resolve" => Files(p).manifest = Absent \/ Verifies(cmd[p].on)
      PROVE  KeptInv'
  <2>1. x \in At /\ x \notin {"manifest", "forge"}
    BY DEF At, RecoverAt
  <2>2. ASSUME rots = 0, ~cut, Changing(cmd[p]), cmd[p].control \in {"tampered", "withheld"}
        PROVE  FALSE
    <3>1. cmd[p].at = "resolve" /\ cmd[p].op = "test" /\ cmd[p].on = "policy" /\ cmd[p].at # "manifest"
      BY <1>1, <2>2, RecoveringKeeps, Shells DEF Changing, CommandInv, StageInv
    <3>2. GoodManifest(dir["policy"].manifest)
      BY <2>2, <3>1, Shells DEF CommandInv, TestInv
    <3>3. Verifies("policy")
      BY <1>3, <3>1, <3>2, EvidenceAssumption DEF Files, GoodManifest
    <3>4. dir["policy"].archive # "rotten" /\ dir["policy"].oracle # Absent
      BY <3>3, VerifiedEvidence, EvidenceAssumption DEF Dir, Value
    <3>5. ChangeInv(cmd[p], dir["policy"])
      BY <2>2 DEF KeptInv, MatchInv, Matches
    <3> QED BY <2>2, <3>4, <3>5 DEF ChangeInv
  <2>3. \A d \in Dir : SameEvidence(d)
    BY <1>1 DEF SameEvidence
  <2> QED BY <1>1, <1>3, <2>1, <2>2, <2>3, PlainKeeps DEF GoTo, Rest
<1> QED BY <1>1, <1>2, <1>3
        DEF Resolve, Materialize, Derive, Reload, Recovered, UpdateManifest

LEMMA HashKeeps ==
    ASSUME EvidenceInv, KeptInv, NEW p \in Shell, HashInputs(p)
    PROVE  KeptInv'
<1> DEFINE read == [manifest |-> Files(p).manifest, archive |-> Files(p).archive,
                    oracle |-> Files(p).oracle]
           c == [cmd[p] EXCEPT !.at = "provenance", !.read = read]
<1>1. cmd' = [cmd EXCEPT ![p] = c] /\ c.at = "provenance" /\ c.op = cmd[p].op /\ c.control = cmd[p].control
  BY Shells DEF HashInputs, Command
<1>2. UNCHANGED <<dir, Rest>> /\ cmd[p].at = "hash"
  BY DEF HashInputs
<1> HIDE DEF c
<1>3. ~Rewriting(c)
  BY <1>1 DEF Rewriting
<1>4. ASSUME rots = 0, ~cut PROVE Retains(cmd[p], c)
  BY <1>1, <1>2, <1>4, RecoveringKeeps DEF Retains, Changing
<1> QED BY <1>1, <1>2, <1>3, <1>4, WalkKeeps DEF SameEvidence, Rest

\* A recovery reads the manifest that it is to write back.
LEMMA UpdateKeeps ==
    ASSUME EvidenceInv, KeptInv, NEW p \in Shell, UpdateManifest(p)
    PROVE  KeptInv'
<1>1. CASE GoTo(p, "reload") \/ Return(p)
  BY <1>1, RecoveryKeeps
<1>2. CASE /\ HasContent(Files(p).manifest)
           /\ cmd' = [cmd EXCEPT ![p].at = "manifest",
                                 ![p].read = [Files(p).manifest EXCEPT !.run = cmd[p].id]]
  <2> DEFINE d == cmd[p].on
             m == dir[d].manifest
             read == [m EXCEPT !.run = cmd[p].id]
             c == [cmd[p] EXCEPT !.at = "manifest", !.read = read]
  <2>1. d \in Dir /\ dir' = dir /\ cut' = cut /\ rots' = rots /\ cmd[p].at = "update" /\ HasContent(m)
    BY <1>2, Shells DEF UpdateManifest, Rest, Files
  <2>2. /\ c.at = "manifest" /\ c.op = cmd[p].op /\ c.on = d /\ c.control = cmd[p].control
        /\ c.read = read
    BY Shells DEF Command
  <2>3. cmd'[p] = c /\ \A q \in Shell : q # p => cmd'[q] = cmd[q]
    BY <1>2, Shells DEF Files
  <2>4. m \in ManifestValue
    BY <2>1, Shells DEF Directory, HasContent
  <2>5. \A f \in Data : read[f] = m[f]
    BY <2>4 DEF ManifestValue, Data
  <2>6. cmd[p].op \in {"test", "recover"} /\ (cmd[p].op = "test" => d = "policy")
    BY <2>1, Recovering
  <2> HIDE DEF m, read, c
  <2>7. AgreeInv'
    <3>1. \A q \in Shell : q # p => Agree(cmd[q], c) /\ Agree(c, cmd[q])
      <4> SUFFICES ASSUME NEW q \in Shell, q # p PROVE Agree(cmd[q], c) /\ Agree(c, cmd[q])
        OBVIOUS
      <4>1. Rewriting(cmd[q]) /\ cmd[q].on = d => Alike(cmd[q].read, m)
        BY <2>1 DEF KeptInv, AgreeInv, Agrees, m
      <4> QED BY <2>2, <2>5, <4>1 DEF Agree, Alike
    <3>2. Agrees(c, dir)
      BY <2>2, <2>5 DEF Agrees, Alike, m
    <3> QED BY <2>1, <2>3, <3>1, <3>2 DEF KeptInv, AgreeInv
  <2>8. MatchInv'
    <3> SUFFICES ASSUME rots = 0, ~cut PROVE /\ \A q \in Shell : Matches(cmd'[q], dir')
                                             /\ \A e \in Dir : Complete(e)'
      BY <2>1 DEF KeptInv, MatchInv
    <3>1. /\ \A q \in Shell : Matches(cmd[q], dir)
          /\ \A e \in Dir : Complete(e)
      BY DEF KeptInv, MatchInv
    <3>2. ~Changing(cmd[p]) /\ ~Changing(c)
      BY <2>1, <2>2, RecoveringKeeps DEF Changing
    <3>3. d = "policy" => \A q \in Shell : ~Changing(cmd[q])
      BY <2>6, <3>2, NoneChanging DEF Using
    <3>4. Covers(m, dir[d])
      BY <2>1, <3>1, <3>3 DEF Complete, m
    <3>5. Matches(c, dir)
      BY <2>2, <2>5, <3>2, <3>4 DEF Matches, ChangeInv, Covers
    <3>6. \A e \in Dir : Complete(e)'
      <4>1. (\E q \in Shell : Changing(cmd[q])) => \E q \in Shell : Changing(cmd'[q])
        BY <2>3, <3>2
      <4> QED BY <2>1, <3>1, <4>1 DEF Complete
    <3> QED BY <2>1, <2>3, <3>1, <3>5, <3>6
  <2> QED BY <2>7, <2>8 DEF KeptInv
<1> QED BY <1>1, <1>2 DEF UpdateManifest

\* A file is replaced.
LEMMA Replaced ==
    ASSUME EvidenceInv, NEW d \in Dir, NEW x \in Data \cup {"manifest", "provenance"}, NEW v
    PROVE  LET E == [dir EXCEPT ![d][x] = v]
           IN  /\ \A e \in Dir : e # d => E[e] = dir[e]
               /\ \A f \in Data \cup {"manifest"} : E[d][f] = IF f = x THEN v ELSE dir[d][f]
<1>1. dir \in [Dir -> Directory] /\ dir[d] \in Directory
  BY DEF EvidenceInv, TypeInv
<1> DEFINE E == [dir EXCEPT ![d][x] = v]
<1>2. E[d] = [dir[d] EXCEPT ![x] = v] /\ \A e \in Dir : e # d => E[e] = dir[e]
  BY <1>1
<1>3. \A f \in Data \cup {"manifest"} : [dir[d] EXCEPT ![x] = v][f] = IF f = x THEN v ELSE dir[d][f]
  BY <1>1 DEF Directory, Data
<1> QED BY <1>2, <1>3

\* A command that writes files puts x into its directory: nobody else relies
\* on what it replaces.
LEMMA FileKeeps ==
    ASSUME EvidenceInv, KeptInv, NEW p \in Shell, NEW d \in Dir, d = cmd[p].on,
           NEW x \in Data \cup {"manifest"}, NEW v, NEW c, cmd' = [cmd EXCEPT ![p] = c],
           dir' = [dir EXCEPT ![d][x] = v], UNCHANGED Rest, cmd[p].op # "none",
           \/ Placing(cmd[p]) /\ x \in Data /\ dir[d].manifest = Absent
           \/ /\ x = "manifest" /\ (Placing(cmd[p]) \/ Rewriting(cmd[p]))
              /\ v = Torn \/ (Placing(cmd[p]) /\ v = ManifestOf(d)) \/ (Rewriting(cmd[p]) /\ v = cmd[p].read),
           Changing(c) => Changing(cmd[p]),
           Rewriting(c) => Rewriting(cmd[p]) /\ c.on = d /\ c.read = cmd[p].read /\ v = Torn
    PROVE  KeptInv'
<1>1. cmd'[p] = c /\ (\A q \in Shell : q # p => cmd'[q] = cmd[q]) /\ cut' = cut /\ rots' = rots
  BY Shells DEF Rest
<1>2. /\ \A e \in Dir : e # d => dir'[e] = dir[e]
      /\ \A f \in Data \cup {"manifest"} : dir'[d][f] = IF f = x THEN v ELSE dir[d][f]
  <2> DEFINE E == [dir EXCEPT ![d][x] = v]
  <2>1. x \in Data \cup {"manifest", "provenance"} /\ dir' = E
    OBVIOUS
  <2>2. /\ \A e \in Dir : e # d => E[e] = dir[e]
        /\ \A f \in Data \cup {"manifest"} : E[d][f] = IF f = x THEN v ELSE dir[d][f]
    <3>1. EvidenceInv /\ d \in Dir
      OBVIOUS
    <3> HIDE DEF E
    <3>2. x \in Data \cup {"manifest", "provenance"}
      BY <2>1
    <3> QED BY ONLY <3>1, <3>2, Replaced DEF E
  <2> QED BY <2>1, <2>2
<1>3. /\ dir'[d].manifest = IF x = "manifest" THEN v ELSE dir[d].manifest
      /\ \A f \in Data : dir'[d][f] = IF f = x THEN v ELSE dir[d][f]
  BY <1>2 DEF Data
<1>4. \A q \in Shell : cmd[q].on \in Dir
  BY Shells
<1>5. ASSUME Placing(cmd[p]), NEW q \in Shell, Rewriting(cmd[q]) PROVE cmd[q].on # d
  <2>1. q # p /\ Settled(cmd[q])
    BY <1>5 DEF Placing, Rewriting, Settled
  <2> QED BY <1>5, <2>1 DEF EvidenceInv, CrossInv
<1>6. AgreeInv'
  <2>1. ASSUME NEW q \in Shell, q # p PROVE Agrees(cmd[q], dir')
    <3>1. CASE cmd[q].on # d \/ ~Rewriting(cmd[q])
      BY <1>2, <1>4, <3>1 DEF KeptInv, AgreeInv, Agrees
    <3>2. CASE cmd[q].on = d /\ Rewriting(cmd[q])
      <4>1. x = "manifest" /\ Rewriting(cmd[p]) /\ (v = Torn \/ v = cmd[p].read)
        BY <1>5, <3>2
      <4>2. Alike(cmd[q].read, cmd[p].read)
        BY <2>1, <3>2, <4>1 DEF KeptInv, AgreeInv, Agree
      <4> QED BY <1>3, <3>2, <4>1, <4>2 DEF Agrees, HasContent
    <3> QED BY <3>1, <3>2
  <2>2. Agrees(c, dir')
    <3>1. Rewriting(c) => dir'[c.on].manifest = Torn
      BY <1>3, <1>5
    <3> QED BY <3>1 DEF Agrees, HasContent
  <2>3. ASSUME NEW q \in Shell, q # p PROVE Agree(cmd[q], c) /\ Agree(c, cmd[q])
    BY <2>3 DEF KeptInv, AgreeInv, Agree
  <2> QED BY <1>1, <2>1, <2>2, <2>3 DEF KeptInv, AgreeInv
<1>7. MatchInv'
  <2> SUFFICES ASSUME rots = 0, ~cut PROVE /\ \A q \in Shell : Matches(cmd'[q], dir')
                                           /\ \A e \in Dir : Complete(e)'
    BY <1>1 DEF KeptInv, MatchInv
  <2>1. /\ \A q \in Shell : Matches(cmd[q], dir)
        /\ \A e \in Dir : Complete(e)
    BY DEF KeptInv, MatchInv
  <2>2. ~Changing(cmd[p]) /\ ~Changing(c)
    BY RecoveringKeeps DEF Placing, Maker, Builder, Rewriting, Changing, Data
  <2>3. d = "policy" => \A q \in Shell : ~Changing(cmd[q])
    BY <2>2, NoneChanging DEF Using
  <2>4. ASSUME NEW q \in Shell, q # p PROVE Matches(cmd[q], dir')
    <3>1. ChangeInv(cmd[q], dir'["policy"])
      <4>1. CASE d = "policy"
        BY <2>3, <4>1 DEF ChangeInv
      <4>2. CASE d # "policy"
        BY <1>2, <2>1, <4>2 DEF Matches, Dir
      <4> QED BY <4>1, <4>2
    <3>2. Rewriting(cmd[q]) => Covers(cmd[q].read, dir'[cmd[q].on])
      <4> SUFFICES ASSUME Rewriting(cmd[q]) PROVE Covers(cmd[q].read, dir'[cmd[q].on])
        OBVIOUS
      <4>1. Covers(cmd[q].read, dir[cmd[q].on])
        BY <2>1 DEF Matches
      <4>2. \A f \in Data : dir'[cmd[q].on][f] = dir[cmd[q].on][f]
        <5>1. cmd[q].on = d => x = "manifest"
          BY <1>5
        <5>2. "manifest" \notin Data
          BY DEF Data
        <5> QED BY <1>2, <1>3, <1>4, <5>1, <5>2
      <4> QED BY <4>1, <4>2 DEF Covers
    <3> QED BY <3>1, <3>2 DEF Matches
  <2>5. Matches(c, dir')
    <3>1. Rewriting(c) => Covers(c.read, dir'[c.on])
      BY <1>3, <1>5, <2>1 DEF Matches, Covers, Data
    <3> QED BY <2>2, <3>1 DEF Matches, ChangeInv
  <2>6. ASSUME NEW e \in Dir PROVE Complete(e)'
    <3>1. CASE e # d
      <4>1. (\E q \in Shell : Changing(cmd[q])) => \E q \in Shell : Changing(cmd'[q])
        BY <1>1, <2>2
      <4> QED BY <1>2, <2>1, <3>1, <4>1 DEF Complete
    <3>2. CASE e = d /\ HasContent(dir'[d].manifest)
      <4>1. x = "manifest" /\ \A f \in Data : dir'[d][f] = dir[d][f]
        BY <1>3, <3>2 DEF HasContent, Data
      <4>2. CASE v = ManifestOf(d)
        <5>1. \A f \in Data : ManifestOf(d)[f] = dir[d][f]
          BY DEF ManifestOf, Data
        <5>2. dir'[d].manifest = ManifestOf(d)
          BY <1>3, <4>1, <4>2
        <5>3. Covers(dir'[d].manifest, dir'[d])
          BY <4>1, <5>1, <5>2 DEF Covers
        <5> QED BY <3>2, <5>3 DEF Complete
      <4>3. CASE Rewriting(cmd[p]) /\ v = cmd[p].read
        <5>1. Covers(cmd[p].read, dir[d])
          BY <2>1, <4>3 DEF Matches
        <5> QED BY <1>3, <3>2, <4>1, <4>3, <5>1 DEF Complete, Covers
      <4> QED BY <1>3, <3>2, <4>1, <4>2, <4>3 DEF HasContent
    <3> QED BY <3>1, <3>2 DEF Complete
  <2> QED BY <1>1, <2>4, <2>5, <2>6
<1> QED BY <1>6, <1>7 DEF KeptInv

\* A provenance file is no evidence.
LEMMA ProvenanceKeeps ==
    ASSUME EvidenceInv, KeptInv, NEW p \in Shell, cmd[p].at = "provenance", NEW v, NEW c,
           cmd' = [cmd EXCEPT ![p] = c], dir' = [dir EXCEPT ![cmd[p].on]["provenance"] = v],
           UNCHANGED Rest, c.at \in {"provenance", "recovered"}, c.op = cmd[p].op, c.control = cmd[p].control
    PROVE  KeptInv'
<1>1. \A d \in Dir : SameEvidence(d)
  <2>1. cmd[p].on \in Dir /\ "provenance" \notin Data \cup {"manifest"}
    BY Shells DEF Data
  <2>2. \A d \in Dir : \A f \in Data \cup {"manifest"} : dir'[d][f] = dir[d][f]
    BY <2>1, Replaced
  <2> QED BY <2>2 DEF SameEvidence
<1>2. ~Rewriting(c)
  BY DEF Rewriting
<1>3. rots = 0 /\ ~cut => ~Changing(cmd[p]) /\ ~Changing(c)
  BY RecoveringKeeps DEF Changing
<1> QED BY <1>1, <1>2, <1>3, WalkKeeps DEF Rest, Retains

LEMMA OpenKeeps ==
    ASSUME EvidenceInv, KeptInv, NEW p \in Shell, OpenFile(p)
    PROVE  KeptInv'
<1> DEFINE d == cmd[p].on
           x == cmd[p].at
           c == [cmd[p] EXCEPT !.open = TRUE]
<1>1. /\ c.at = x /\ c.op = cmd[p].op /\ c.on = d /\ c.control = cmd[p].control /\ c.read = cmd[p].read
  BY Shells DEF Command
<1>2. /\ cmd' = [cmd EXCEPT ![p] = c] /\ dir' = [dir EXCEPT ![d][x] = Torn] /\ UNCHANGED Rest
      /\ ~cmd[p].open /\ x \in Data \cup {"manifest", "provenance"} /\ d \in Dir
  BY Shells DEF OpenFile
<1>3. /\ cmd[p].op # "none" /\ (Placing(cmd[p]) \/ Settled(cmd[p]))
      /\ x \in Data => Placing(cmd[p])
      /\ CommandInv(cmd[p], dir, cut)
  BY <1>2, AtFile, Shells
<1> HIDE DEF c
<1>4. CASE x = "provenance"
  BY <1>1, <1>2, <1>4, ProvenanceKeeps
<1>5. CASE x # "provenance"
  <2>1. /\ Changing(c) => Changing(cmd[p])
        /\ Rewriting(c) => Rewriting(cmd[p])
    BY <1>1 DEF Changing, Rewriting, Maker, Builder
  <2>2. x = "manifest" => Placing(cmd[p]) \/ Rewriting(cmd[p])
    BY DEF Placing, Rewriting
  <2>3. x \in Data => dir[d].manifest = Absent
    BY <1>3 DEF CommandInv, PlacedInv, Data
  <2> QED BY <1>1, <1>2, <1>3, <1>5, <2>1, <2>2, <2>3, FileKeeps
<1> QED BY <1>4, <1>5

LEMMA WriteKeeps ==
    ASSUME EvidenceInv, KeptInv, NEW p \in Shell, WriteFile(p)
    PROVE  KeptInv'
<1> DEFINE d == cmd[p].on
           x == cmd[p].at
           c == [cmd[p] EXCEPT !.open = FALSE, !.at = Following(p)]
<1>1. /\ c.at = Following(p) /\ c.op = cmd[p].op /\ c.on = d /\ c.control = cmd[p].control
      /\ c.read = cmd[p].read
  BY Shells DEF Command
<1>0. PICK v : /\ dir' = [dir EXCEPT ![d][x] = v]
               /\ v = Written(p) \/ (v = Torn /\ cmd[p].op = "recover")
  BY WriteLeaves
<1>2. /\ CommandInv(cmd[p], dir, cut) /\ d \in Dir /\ cmd[p].open
  BY Shells DEF WriteFile
<1>3. x \in Data \cup {"manifest", "provenance"}
  BY <1>2 DEF CommandInv, StageInv
<1>4. cmd' = [cmd EXCEPT ![p] = c] /\ dir' = [dir EXCEPT ![d][x] = v] /\ UNCHANGED Rest
  BY <1>0, Shells DEF WriteFile
<1>5. /\ cmd[p].op # "none" /\ (Placing(cmd[p]) \/ Settled(cmd[p]))
      /\ x \in Data => Placing(cmd[p])
  BY <1>3, AtFile
<1> HIDE DEF c
<1>6. CASE x = "provenance"
  <2>1. c.at = "recovered"
    BY <1>1, <1>6 DEF Following
  <2> QED BY <1>1, <1>4, <1>6, <2>1, ProvenanceKeeps
<1>7. CASE x # "provenance"
  <2>1. Changing(c) => Changing(cmd[p])
    BY <1>1 DEF Changing
  <2>2. ~Rewriting(c)
    <3>1. Maker(c) <=> Maker(cmd[p])
      BY <1>1 DEF Maker, Builder
    <3>2. CASE Placing(cmd[p])
      BY <3>1, <3>2 DEF Placing, Rewriting
    <3>3. CASE ~Placing(cmd[p])
      <4>1. x = "manifest" /\ ~Maker(cmd[p])
        BY <1>5, <1>7, <3>3, <1>3 DEF Placing
      <4>2. c.at = "reload"
        BY <1>1, <4>1 DEF Following, Maker, Builder, Building, Data
      <4> QED BY <4>2 DEF Rewriting
    <3> QED BY <3>2, <3>3
  <2>3. x \in Data => dir[d].manifest = Absent
    BY <1>2, <1>5 DEF CommandInv, PlacedInv, Data
  <2>4. x = "manifest" => \/ v = Torn
                          \/ Placing(cmd[p]) /\ v = ManifestOf(d)
                          \/ Rewriting(cmd[p]) /\ v = cmd[p].read
    BY <1>0 DEF Placing, Rewriting, Written, Making, Maker, Builder, Building, Data
  <2>5. x \in Data \cup {"manifest"}
    BY <1>3, <1>7
  <2>8. x = "manifest" => Placing(cmd[p]) \/ Rewriting(cmd[p])
    BY DEF Placing, Rewriting
  <2> HIDE DEF x, d
  <2>6. d = cmd[p].on
    BY DEF d
  <2>7. \/ Placing(cmd[p]) /\ x \in Data /\ dir[d].manifest = Absent
        \/ /\ x = "manifest" /\ (Placing(cmd[p]) \/ Rewriting(cmd[p]))
           /\ \/ v = Torn
              \/ Placing(cmd[p]) /\ v = ManifestOf(d)
              \/ Rewriting(cmd[p]) /\ v = cmd[p].read
    BY <1>5, <2>3, <2>4, <2>5, <2>8
  <2> QED BY <1>2, <1>4, <1>5, <2>1, <2>2, <2>5, <2>6, <2>7, FileKeeps
<1> QED BY <1>6, <1>7

\* A control works on an archive that it has for itself.
LEMMA ControlKeeps ==
    ASSUME EvidenceInv, KeptInv, NEW p \in Shell, NEW c, cmd' = [cmd EXCEPT ![p] = c],
           UNCHANGED Rest, cmd[p].op = "test", cmd[p].on = "policy",
           dir'["capture"] = dir["capture"], ~Rewriting(c),
           rots = 0 /\ ~cut => /\ ChangeInv(c, dir'["policy"])
                               /\ Changing(c) \/ Covers(dir'["policy"].manifest, dir'["policy"])
    PROVE  KeptInv'
<1>1. cmd'[p] = c /\ (\A q \in Shell : q # p => cmd'[q] = cmd[q]) /\ cut' = cut /\ rots' = rots
  BY Shells DEF Rest
<1>2. ASSUME NEW q \in Shell, q # p
      PROVE  ~Changing(cmd[q]) /\ (Rewriting(cmd[q]) => cmd[q].on = "capture")
  <2>1. ~Using(cmd[q], "policy") /\ ~Changing(cmd[q]) /\ cmd[q].on \in Dir
    BY <1>2, AloneInPolicy, Shells
  <2>2. Rewriting(cmd[q]) => cmd[q].op # "none"
    BY Shells DEF Rewriting, CommandInv, StageInv
  <2> QED BY <2>1, <2>2 DEF Using, Dir
<1>3. AgreeInv'
  <2>1. ASSUME NEW q \in Shell PROVE Agrees(cmd'[q], dir')
    BY <1>1, <1>2 DEF KeptInv, AgreeInv, Agrees
  <2>2. ASSUME NEW q \in Shell, NEW r \in Shell, q # r PROVE Agree(cmd'[q], cmd'[r])
    BY <1>1, <2>2 DEF KeptInv, AgreeInv, Agree
  <2> QED BY <2>1, <2>2 DEF AgreeInv
<1>4. MatchInv'
  <2> SUFFICES ASSUME rots = 0, ~cut PROVE /\ \A q \in Shell : Matches(cmd'[q], dir')
                                           /\ \A e \in Dir : Complete(e)'
    BY <1>1 DEF KeptInv, MatchInv
  <2>1. /\ \A q \in Shell : Matches(cmd[q], dir)
        /\ Complete("capture")
    BY DEF KeptInv, MatchInv, Dir
  <2>2. ASSUME NEW q \in Shell, q # p PROVE Matches(cmd[q], dir')
    BY <1>2, <2>1, <2>2 DEF Matches, ChangeInv
  <2>3. Matches(c, dir')
    BY DEF Matches
  <2>4. Complete("capture")' /\ Complete("policy")'
    BY <1>1, <2>1 DEF Complete
  <2> QED BY <1>1, <2>2, <2>3, <2>4 DEF Dir
<1> QED BY <1>3, <1>4 DEF KeptInv

\* A control changes a file and saves what it was.
LEMMA ControlsKeep ==
    ASSUME EvidenceInv, KeptInv, NEW p \in Shell,
           FlipBit(p) \/ Withhold(p) \/ ForgeArchive(p) \/ UnflipBit(p) \/ GiveBack(p) \/ UnforgeArchive(p)
    PROVE  KeptInv'
<1>1. cmd[p].at = "control" /\ UNCHANGED Rest
  BY DEF FlipBit, Withhold, ForgeArchive, UnflipBit, GiveBack, UnforgeArchive, Control, Restore
<1>2. /\ cmd[p].op = "test" /\ cmd[p].on = "policy" /\ HasContent(dir["policy"].manifest)
      /\ cmd[p] \in Command /\ cmd \in [Shell -> Command]
  BY <1>1, Controlling, Shells
<1>3. ASSUME NEW f \in {"archive", "oracle"}, NEW v, dir' = [dir EXCEPT !["policy"][f] = v]
      PROVE  /\ dir'["capture"] = dir["capture"] /\ dir'["policy"].manifest = dir["policy"].manifest
             /\ \A g \in Data : dir'["policy"][g] = IF g = f THEN v ELSE dir["policy"][g]
  <2>1. f \in Data \cup {"manifest", "provenance"} /\ f # "manifest" /\ "policy" \in Dir /\ "capture" \in Dir
    BY DEF Data, Dir
  <2> DEFINE E == [dir EXCEPT !["policy"][f] = v]
  <2>2. /\ \A e \in Dir : e # "policy" => E[e] = dir[e]
        /\ \A g \in Data \cup {"manifest"} : E["policy"][g] = IF g = f THEN v ELSE dir["policy"][g]
    BY <2>1, Replaced
  <2>3. dir' = E
    BY <1>3
  <2> HIDE DEF E
  <2> QED BY <2>1, <2>2, <2>3 DEF Data
<1>4. rots = 0 /\ ~cut => /\ ChangeInv(cmd[p], dir["policy"])
                          /\ ~Changing(cmd[p]) => Covers(dir["policy"].manifest, dir["policy"])
  <2>1. rots = 0 /\ ~cut => ChangeInv(cmd[p], dir["policy"]) /\ Complete("policy")
    BY DEF KeptInv, MatchInv, Matches, Dir
  <2>2. ~Changing(cmd[p]) => \A q \in Shell : ~Changing(cmd[q])
    BY <1>2, NoneChanging DEF Using
  <2> QED BY <1>2, <2>1, <2>2 DEF Complete
<1>5. ASSUME NEW f \in {"archive", "oracle"}, NEW after, NEW control, NEW at \in {"resolve", "forge"},
             NEW v, Control(p, after, control, at, f, v),
             after \in {"positive", "flipped", "given_back"},
             \/ control = "tampered" /\ at = "resolve" /\ f = "archive" /\ v = "rotten"
             \/ control = "withheld" /\ at = "resolve" /\ f = "oracle" /\ v = Absent
             \/ control = "forged" /\ at = "forge" /\ f = "archive"
      PROVE  KeptInv'
  <2> DEFINE c == [cmd[p] EXCEPT !.control = control, !.at = at, !.saved = dir["policy"][f]]
  <2>1. /\ cmd' = [cmd EXCEPT ![p] = c] /\ c.op = "test" /\ c.control = control /\ c.at = at
        /\ c.saved = dir["policy"][f] /\ dir' = [dir EXCEPT !["policy"][f] = v]
    BY <1>2, <1>5 DEF Control, Command
  <2> HIDE DEF c
  <2>2. ~Changing(cmd[p])
    BY <1>5 DEF Control, Changing
  <2>3. /\ dir'["capture"] = dir["capture"] /\ dir'["policy"].manifest = dir["policy"].manifest
        /\ \A g \in Data : dir'["policy"][g] = IF g = f THEN v ELSE dir["policy"][g]
    BY <1>3, <2>1
  <2>4. ASSUME rots = 0, ~cut PROVE ChangeInv(c, dir'["policy"])
    <3>1. Covers(dir["policy"].manifest, dir["policy"])
      BY <1>4, <2>2, <2>4
    <3>2. CoversBut(dir'["policy"].manifest, dir'["policy"], f, c.saved)
      BY <2>1, <2>3, <3>1 DEF Covers, CoversBut, Data
    <3> QED BY <1>5, <2>1, <2>3, <3>2 DEF ChangeInv, Data
  <2>5. Changing(c) /\ ~Rewriting(c)
    BY <1>5, <2>1 DEF Changing, Rewriting
  <2> QED BY <1>1, <1>2, <2>1, <2>3, <2>4, <2>5, ControlKeeps
<1>6. ASSUME NEW f \in {"archive", "oracle"}, NEW control, NEW next, Restore(p, control, f, next),
             \/ control = "tampered" /\ f = "archive" /\ next = "flipped"
             \/ control = "withheld" /\ f = "oracle" /\ next = "given_back"
             \/ control = "forged" /\ f = "archive" /\ next = "unforged"
      PROVE  KeptInv'
  <2> DEFINE c == [cmd[p] EXCEPT !.control = next, !.saved = Absent]
             v == cmd[p].saved
  <2>1. /\ cmd' = [cmd EXCEPT ![p] = c] /\ c.op = "test" /\ c.control = next /\ c.at = "control"
        /\ c.read = cmd[p].read /\ dir' = [dir EXCEPT !["policy"][f] = v]
    BY <1>1, <1>2, <1>6 DEF Restore, Command
  <2> HIDE DEF c
  <2>2. Changing(cmd[p]) /\ cmd[p].control = control
    BY <1>2, <1>6 DEF Restore, Changing
  <2>3. /\ dir'["capture"] = dir["capture"] /\ dir'["policy"].manifest = dir["policy"].manifest
        /\ \A g \in Data : dir'["policy"][g] = IF g = f THEN v ELSE dir["policy"][g]
    BY <1>3, <2>1
  <2>4. ASSUME rots = 0, ~cut
        PROVE  IF control = "forged" THEN Covers(c.read, dir'["policy"])
                                     ELSE Covers(dir'["policy"].manifest, dir'["policy"])
    <3>1. CoversBut(IF control = "forged" THEN cmd[p].read ELSE dir["policy"].manifest,
                    dir["policy"], f, v)
      BY <1>1, <1>4, <1>6, <2>2, <2>4 DEF ChangeInv
    <3> QED BY <2>1, <2>3, <3>1 DEF Covers, CoversBut, Data
  <2>5. ~Rewriting(c) /\ (Changing(c) <=> control = "forged") /\ (control = "forged" <=> c.control = "unforged")
    BY <1>6, <2>1 DEF Changing, Rewriting
  <2>6. rots = 0 /\ ~cut => /\ ChangeInv(c, dir'["policy"])
                            /\ Changing(c) \/ Covers(dir'["policy"].manifest, dir'["policy"])
    BY <2>4, <2>5 DEF ChangeInv
  <2> QED BY <1>1, <1>2, <2>1, <2>3, <2>5, <2>6, ControlKeeps
<1> QED BY <1>5, <1>6 DEF FlipBit, Withhold, ForgeArchive, UnflipBit, GiveBack, UnforgeArchive

LEMMA ForgeKeeps ==
    ASSUME EvidenceInv, KeptInv, NEW p \in Shell, ForgeManifest(p)
    PROVE  KeptInv'
<1>1. /\ cmd[p].op = "test" /\ cmd[p].on = "policy" /\ cmd[p].control = "forged"
      /\ cmd[p].at = "forge" /\ cmd[p] \in Command /\ UNCHANGED Rest
  BY Controlling, Shells DEF ForgeManifest, CommandInv, TestInv
<1> DEFINE m == dir["policy"].manifest
           c == [cmd[p] EXCEPT !.at = "resolve", !.read = m]
<1>2. /\ cmd' = [cmd EXCEPT ![p] = c] /\ c.op = "test" /\ c.control = "forged" /\ c.at = "resolve"
      /\ c.read = m /\ c.saved = cmd[p].saved
  BY <1>1, Shells DEF ForgeManifest, Command
<1>3. /\ dir'["capture"] = dir["capture"]
      /\ \A f \in Data : dir'["policy"][f] = dir["policy"][f]
  <2>1. dir["policy"] \in Directory /\ dir \in [Dir -> Directory] /\ "policy" \in Dir /\ "capture" \in Dir
    BY Shells DEF Dir
  <2> QED BY <2>1 DEF ForgeManifest, Data, Directory
<1> HIDE DEF c, m
<1>4. ASSUME rots = 0, ~cut PROVE ChangeInv(c, dir'["policy"])
  <2>1. CoversBut(m, dir["policy"], "archive", cmd[p].saved)
    BY <1>1, <1>4 DEF KeptInv, MatchInv, Matches, ChangeInv, Changing, m
  <2>2. CoversBut(c.read, dir'["policy"], "archive", c.saved)
    BY <1>2, <1>3, <2>1 DEF CoversBut
  <2> QED BY <1>2, <2>2 DEF ChangeInv
<1>5. Changing(c) /\ ~Rewriting(c)
  BY <1>2 DEF Changing, Rewriting
<1> QED BY <1>1, <1>2, <1>3, <1>4, <1>5, ControlKeeps

LEMMA EndTestKeeps ==
    ASSUME EvidenceInv, KeptInv, NEW p \in Shell, EndTest(p)
    PROVE  KeptInv'
<1>1. cmd[p].op = "test" /\ cmd[p].on = "policy" /\ cmd[p].at = "control" /\ End(p) /\ UNCHANGED Rest
  BY Controlling DEF EndTest
<1>2. CASE cmd[p].control = "given_back" /\ UNCHANGED dir
  BY <1>1, <1>2, EndKeeps DEF Changing, Rest
<1>3. CASE cmd[p].control = "unforged" /\ dir' = [dir EXCEPT !["policy"].manifest = cmd[p].read]
  <2>1. /\ dir'["capture"] = dir["capture"] /\ dir'["policy"].manifest = cmd[p].read
        /\ \A f \in Data : dir'["policy"][f] = dir["policy"][f]
    <3>1. dir["policy"] \in Directory /\ dir \in [Dir -> Directory] /\ "policy" \in Dir /\ "capture" \in Dir
      BY Shells DEF Dir
    <3> QED BY <1>3, <3>1 DEF Data, Directory
  <2>2. rots = 0 /\ ~cut => Covers(cmd[p].read, dir["policy"])
    BY <1>1, <1>3 DEF KeptInv, MatchInv, Matches, ChangeInv, Changing
  <2>3. rots = 0 /\ ~cut => Covers(dir'["policy"].manifest, dir'["policy"])
    BY <2>1, <2>2 DEF Covers
  <2>4. ~Changing(NoCommand) /\ ~Rewriting(NoCommand)
    BY NoCommandFacts DEF Changing, Rewriting
  <2>5. cmd' = [cmd EXCEPT ![p] = NoCommand] /\ ChangeInv(NoCommand, dir'["policy"])
    BY <1>1, <2>4 DEF End, ChangeInv
  <2> QED BY <1>1, <2>1, <2>3, <2>4, <2>5, ControlKeeps
<1> QED BY <1>2, <1>3 DEF EndTest

LEMMA RotKeeps ==
    ASSUME EvidenceInv, KeptInv, NEW d \in Dir, NEW f \in Data \cup {"manifest", "provenance"}, Rot(d, f)
    PROVE  KeptInv'
<1> DEFINE v == IF f \in Data THEN "rotten" ELSE Torn
           E == [dir EXCEPT ![d][f] = v]
<1>1. dir' = E /\ cmd' = cmd /\ rots' = rots + 1 /\ \A q \in Shell : ~Using(cmd[q], d)
  BY DEF Rot, Using, Uses
<1>2. \A e \in Dir : e # d => E[e] = dir[e]
  BY Replaced
<1> HIDE DEF v, E
<1>3. ASSUME NEW q \in Shell PROVE Agrees(cmd[q], dir')
  <2>1. Rewriting(cmd[q]) => cmd[q].op # "none" /\ cmd[q].on \in Dir
    BY Shells DEF Rewriting, CommandInv, StageInv
  <2> QED BY <1>1, <1>2, <2>1 DEF KeptInv, AgreeInv, Agrees, Using
<1>4. AgreeInv'
  BY <1>1, <1>3 DEF KeptInv, AgreeInv
<1>5. rots' \in Nat /\ rots' # 0
  BY <1>1 DEF KeptInv, MatchInv
<1> QED BY <1>4, <1>5 DEF KeptInv, MatchInv

LEMMA KeptInvInit == Init => KeptInv
<1> SUFFICES ASSUME Init PROVE KeptInv
  OBVIOUS
<1>1. \A p \in Shell : ~Rewriting(cmd[p]) /\ ~Changing(cmd[p])
  BY NoCommandFacts DEF Init, Rewriting, Changing
<1>2. \A d \in Dir : ~HasContent(dir[d].manifest)
  BY DEF Init, Empty, HasContent, Dir
<1> QED BY <1>1, <1>2
        DEF Init, KeptInv, AgreeInv, Agrees, Agree, MatchInv, Matches, ChangeInv, Complete

LEMMA KeptInvStep == EvidenceInv /\ KeptInv /\ [Next]_vars => KeptInv'
<1> SUFFICES ASSUME EvidenceInv, KeptInv, [Next]_vars PROVE KeptInv'
  OBVIOUS
<1>1. ASSUME NEW p \in Shell,
             \/ StartCapture(p) \/ StartArchive(p, "archive") \/ StartArchive(p, "test")
             \/ \E d \in {"capture", "policy"}, named \in BOOLEAN : StartRecover(p, d, named)
      PROVE  KeptInv'
  BY <1>1, StartKeeps DEF StartCapture, StartArchive, StartRecover, Dir
<1>2. ASSUME NEW p \in Shell, Build(p) PROVE KeptInv'
  BY <1>2, MakerKeeps, OpenKeeps, WriteKeeps DEF Build
<1>3. ASSUME NEW p \in Shell, Recovery(p) PROVE KeptInv'
  BY <1>3, RecoveryKeeps, UpdateKeeps, HashKeeps DEF Recovery
<1>4. ASSUME NEW p \in Shell, Controls(p) PROVE KeptInv'
  BY <1>4, ControlsKeep, ForgeKeeps, EndTestKeeps DEF Controls
<1>5. ASSUME NEW p \in Shell, Kill(p) PROVE KeptInv'
  BY <1>5, EndKeeps DEF Kill, Changing, Testing
<1>6. ASSUME NEW d \in {"capture", "policy"}, NEW f \in Data \cup {"manifest", "provenance"}, Rot(d, f)
      PROVE  KeptInv'
  BY <1>6, RotKeeps DEF Dir
<1>7. CASE UNCHANGED vars
  BY <1>7 DEF KeptInv, AgreeInv, MatchInv, Complete, vars
<1> QED BY <1>1, <1>2, <1>3, <1>4, <1>5, <1>6, <1>7 DEF Next

LEMMA KeptInvHolds == Spec => []KeptInv
BY EvidenceInvHolds, KeptInvInit, KeptInvStep, PTL DEF Spec
-----------------------------------------------------------------------------
\* While nothing has rotted, no test runs and none was killed, every manifest
\* that can be read verifies, although recoveries of SSH archives write it back
\* one after the other and any of them may be killed with the file open.
THEOREM ManifestsAlwaysVerify == Spec => []ManifestsVerify
<1>1. EvidenceInv /\ KeptInv => ManifestsVerify
  <2> SUFFICES ASSUME EvidenceInv, KeptInv, rots = 0, ~cut, Quiet, NEW d \in Dir,
                      HasContent(dir[d].manifest)
               PROVE  Verifies(d)
    BY DEF ManifestsVerify, Dir
  <2>1. \A p \in Shell : ~Changing(cmd[p])
    BY DEF Quiet, Testing, Changing
  <2>2. Covers(dir[d].manifest, dir[d])
    BY <2>1 DEF KeptInv, MatchInv, Complete
  <2> QED BY <2>2 DEF Covers, Verifies
<1> QED BY <1>1, EvidenceInvHolds, KeptInvHolds, PTL

\* What a step leaves of a directory that has a manifest.
Preserved(d) ==
    \A f \in Data : /\ dir'[d][f] = dir[d][f]
                    /\ dir'[d].manifest = Torn \/ dir'[d].manifest[f] = dir[d].manifest[f]

LEMMA FilePreserves ==
    ASSUME EvidenceInv, KeptInv, NEW p \in Shell, OpenFile(p) \/ WriteFile(p),
           NEW d \in Dir, HasContent(dir[d].manifest)
    PROVE  Preserved(d)
<1> DEFINE e == cmd[p].on
           x == cmd[p].at
<1>0. PICK v : /\ dir' = [dir EXCEPT ![e][x] = v]
               /\ v = Torn \/ (cmd[p].open /\ v = Written(p))
  BY WriteLeaves DEF OpenFile, WriteFile
<1> DEFINE E == [dir EXCEPT ![e][x] = v]
<1>1. dir' = E /\ e \in Dir /\ x \in Data \cup {"manifest", "provenance"}
  <2>1. cmd[p].open => x \in Data \cup {"manifest", "provenance"}
    BY Shells DEF CommandInv, StageInv
  <2> QED BY <1>0, <2>1, Shells DEF OpenFile, WriteFile
<1>2. /\ \A g \in Dir : g # e => E[g] = dir[g]
      /\ \A f \in Data \cup {"manifest"} : E[e][f] = IF f = x THEN v ELSE dir[e][f]
  <2>1. e \in Dir /\ x \in Data \cup {"manifest", "provenance"}
    BY <1>1
  <2> HIDE DEF e, x
  <2> QED BY <2>1, Replaced
<1> HIDE DEF E
<1>3. CASE d # e
  BY <1>1, <1>2, <1>3 DEF Preserved
<1>4. CASE d = e
  <2>1. x \in Data => Placing(cmd[p])
    BY <1>1, AtFile
  <2>2. CommandInv(cmd[p], dir, cut)
    BY Shells
  <2>3. x \notin Data /\ (x = "manifest" /\ cmd[p].open => ~Placing(cmd[p]) \/ dir[d].manifest = Torn)
    BY <1>4, <2>1, <2>2 DEF CommandInv, PlacedInv, HasContent, Data
  <2>4. ASSUME x = "manifest", cmd[p].open, v = Written(p) PROVE Alike(v, dir[d].manifest)
    <3>1. ~Placing(cmd[p])
      BY <2>3, <2>4 DEF HasContent
    <3>2. Rewriting(cmd[p])
      BY <2>4, <3>1 DEF Placing, Rewriting
    <3>3. Alike(cmd[p].read, dir[d].manifest)
      BY <1>4, <3>2 DEF KeptInv, AgreeInv, Agrees
    <3>4. v = cmd[p].read
      BY <2>4, <3>2 DEF Written, Rewriting, Making, Maker, Builder, Building, Data
    <3> QED BY <3>3, <3>4
  <2>5. x = "manifest" => v = Torn \/ Alike(v, dir[d].manifest)
    BY <1>0, <2>4
  <2> HIDE DEF x
  <2>6. /\ \A f \in Data : dir'[d][f] = dir[d][f]
        /\ dir'[d].manifest = IF x = "manifest" THEN v ELSE dir[d].manifest
    BY <1>1, <1>2, <1>4, <2>3 DEF Data
  <2> QED BY <2>5, <2>6 DEF Preserved, Alike
<1> QED BY <1>3, <1>4

\* No command changes the data of a directory that has a manifest, or what the
\* manifest records of it, even after a test was killed: recoveries that rewrite
\* one manifest at the same time write back the same records.
THEOREM EvidenceStaysPut == Spec => EvidenceIsImmutable
<1>1. ASSUME EvidenceInv, KeptInv, Next, Quiet, rots' = rots, NEW d \in Dir, HasContent(dir[d].manifest)
      PROVE  Preserved(d)
  <2>1. ASSUME dir' = dir PROVE Preserved(d)
    BY <2>1 DEF Preserved
  <2>2. ASSUME NEW p \in Shell,
               \/ StartCapture(p) \/ StartArchive(p, "archive") \/ StartArchive(p, "test")
               \/ \E e \in {"capture", "policy"}, named \in BOOLEAN : StartRecover(p, e, named)
               \/ Recovery(p) \/ Kill(p)
        PROVE  Preserved(d)
    BY <2>1, <2>2
       DEF StartCapture, StartArchive, StartRecover, Start, Kill, Recovery, Resolve, Materialize,
           Derive, UpdateManifest, Reload, HashInputs, Recovered
  <2>3. ASSUME NEW p \in Shell, Controls(p) PROVE Preserved(d)
    <3>1. cmd[p].at \in {"control", "forge"}
      BY <2>3 DEF Controls, FlipBit, UnflipBit, Withhold, GiveBack, ForgeArchive, ForgeManifest,
                  UnforgeArchive, EndTest, Control, Restore
    <3> QED BY <1>1, <3>1, Controlling DEF Quiet, Testing
  <2>4. ASSUME NEW p \in Shell, Build(p) PROVE Preserved(d)
    <3>1. CASE OpenFile(p) \/ WriteFile(p)
      BY <1>1, <3>1, FilePreserves
    <3>2. CASE MakeDirectories(p)
      <4>1. CASE dir' = [dir EXCEPT ![cmd[p].on].made = TRUE]
        BY <1>1, <4>1, Shells DEF Preserved, Data, Directory
      <4> QED BY <2>1, <3>2, <4>1 DEF MakeDirectories
    <3> QED BY <2>1, <2>4, <3>1, <3>2
            DEF Build, LoadSource, InspectDestination, AcceptCapture, Built
  <2>5. ASSUME NEW e \in {"capture", "policy"}, NEW f \in Data \cup {"manifest", "provenance"}, Rot(e, f)
        PROVE  FALSE
    BY <1>1, <2>5 DEF Rot, KeptInv, MatchInv
  <2> QED BY <1>1, <2>2, <2>3, <2>4, <2>5 DEF Next
<1>2. EvidenceInv /\ KeptInv /\ [Next]_vars =>
        [\A d \in {"capture", "policy"} :
           /\ Quiet /\ rots' = rots /\ HasContent(dir[d].manifest)
           => \A f \in Data : /\ dir'[d][f] = dir[d][f]
                              /\ dir'[d].manifest = Torn \/ dir'[d].manifest[f] = dir[d].manifest[f]]_vars
  BY <1>1 DEF Preserved, Dir, vars
<1> QED BY <1>2, EvidenceInvHolds, KeptInvHolds, PTL DEF Spec, EvidenceIsImmutable
=============================================================================
