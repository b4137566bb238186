------------------------------ MODULE Evidence ------------------------------
(***************************************************************************)
(* What the commands of hndl.py and scripts/archive_policy_test.py leave   *)
(* in a capture directory and in the policy archive built from it: the     *)
(* retained wire data, the simulated recovery, the comparison-only truth,  *)
(* manifest.json with the hashes of all three, and the provenance that a   *)
(* successful recovery writes.  Every shell runs one command at a time and *)
(* a command may be killed between any two of its steps.                   *)
(*                                                                         *)
(* A file is Absent, Torn (truncated by an open whose write has not        *)
(* happened, or unreadable) or has a content; a hash is the content it is  *)
(* taken of.  Wire data that stands for the session is "session"; "rotten" *)
(* differs from it in some bit; "forged" differs in an authenticated one.  *)
(* The archives of a session are one file here, the other derived files    *)
(* and the decoder's temporary PCAPs none.                                 *)
(***************************************************************************)
EXTENDS Integers

CONSTANTS
    Shell,        \* terminals
    Absent, Torn, \* states of a file that has no content
    MaxCommands,  \* bound: commands started
    MaxRots       \* bound: files that change on the disk by themselves

Value == {"session", "rotten", "forged"}

\* What manifest.json can say: the hashes of the data, and the recovery that
\* rewrote it last, 0 for none.
ManifestValue ==
    [archive : Value \cup {Absent, Torn}, oracle : Value \cup {Absent, Torn},
     truth : Value \cup {Absent, Torn}, run : 0..MaxCommands]

ASSUME EvidenceAssumption ==
    /\ MaxCommands \in Nat /\ MaxRots \in Nat
    /\ Absent # Torn /\ {Absent, Torn} \cap (Value \cup ManifestValue) = {}

VARIABLES
    ssh,       \* the protocol is SSH: recovery rewrites manifest.json
    dir,       \* dir[d]: the files of directory d
    cmd,       \* cmd[p]: the command that shell p runs
    started,   \* commands started
    rots,      \* files that have rotted
    cut        \* a policy test was killed

vars == <<ssh, dir, cmd, started, rots, cut>>

Data   == {"archive", "oracle", "truth"}
Empty  == [made |-> FALSE, archive |-> Absent, oracle |-> Absent, truth |-> Absent,
           manifest |-> Absent, provenance |-> Absent]
NoCommand == [op |-> "none", on |-> "capture", at |-> "none", open |-> FALSE, named |-> FALSE,
              control |-> "none", read |-> Absent, saved |-> Absent, id |-> 0]

Init ==
    /\ ssh \in BOOLEAN
    /\ dir = [d \in {"capture", "policy"} |-> Empty]
    /\ cmd = [p \in Shell |-> NoCommand]
    /\ started = 0 /\ rots = 0 /\ cut = FALSE

HasContent(file) == file \notin {Absent, Torn}

\* verify_recorded_artifacts, of a manifest that RunManifest.load accepts.
Verifies(d) ==
    /\ HasContent(dir[d].manifest)
    /\ \A f \in Data : dir[d].manifest[f] # Absent => dir[d][f] = dir[d].manifest[f]

\* write_run_manifest and _write_policy_manifest: the hashes of the data.
ManifestOf(d) ==
    [archive |-> dir[d].archive, oracle |-> dir[d].oracle, truth |-> dir[d].truth, run |-> 0]

Testing(p) == cmd[p].op = "test"
Uses(p, d) == cmd[p].op # "none" /\ (cmd[p].on = d \/ cmd[p].op \in {"archive", "test"})
-----------------------------------------------------------------------------
(* Commands.  One started while a test runs leaves the test's archive      *)
(* alone, and the other way round.                                         *)

Start(p, op, d, at, named) ==
    /\ cmd[p].op = "none" /\ started < MaxCommands
    /\ cmd' = [cmd EXCEPT ![p] = [NoCommand EXCEPT !.op = op, !.on = d, !.at = at,
                                                   !.named = named, !.id = started + 1]]
    /\ started' = started + 1
    /\ UNCHANGED <<ssh, dir, rots, cut>>

\* A capture directory is named after the microsecond.
StartCapture(p) ==
    /\ ~dir["capture"].made
    /\ \A q \in Shell : cmd[q].op = "none"
    /\ Start(p, "capture", "capture", "mkdir", FALSE)

\* hndl archive, and _run of the policy test.
StartArchive(p, op) ==
    /\ dir["capture"].made
    /\ \A q \in Shell : ~Testing(q) /\ (op = "test" => ~Uses(q, "policy"))
    /\ Start(p, op, "policy", "load", FALSE)

\* hndl recover, or --decrypt-only with a protocol.
StartRecover(p, d, named) ==
    /\ dir[d].made
    /\ \A q \in Shell : ~(Testing(q) /\ d = "policy")
    /\ Start(p, "recover", d, "resolve", named)

GoTo(p, at) == cmd' = [cmd EXCEPT ![p].at = at]
End(p) == cmd' = [cmd EXCEPT ![p] = NoCommand]
Rest == <<ssh, started, rots, cut>>

\* Nothing of it is undone.
Kill(p) ==
    /\ cmd[p].op # "none"
    /\ End(p) /\ cut' = (cut \/ Testing(p))
    /\ UNCHANGED <<ssh, dir, started, rots>>

\* A file changes while no command uses its directory.
Rot(d, f) ==
    /\ rots < MaxRots /\ \A p \in Shell : ~Uses(p, d)
    /\ HasContent(dir[d][f])
    /\ dir' = [dir EXCEPT ![d][f] = IF f \in Data THEN "rotten" ELSE Torn]
    /\ rots' = rots + 1 /\ UNCHANGED <<ssh, cmd, started, cut>>
-----------------------------------------------------------------------------
(* capture_protocol and build_policy_archive, then the writing of files.   *)

Building(p) == cmd[p].op \in {"archive", "test"} /\ cmd[p].control = "none"

\* Mutant: The source is loaded but not verified.
LoadSourceOnly(p) ==
    /\ cmd[p].at = "load"
    /\ IF HasContent(dir["capture"].manifest) THEN GoTo(p, "inspect") ELSE End(p)
    /\ UNCHANGED <<dir, Rest>>

\* RunManifest.load and verify_recorded_artifacts of the source.
LoadSource(p) ==
    /\ cmd[p].at = "load"
    /\ IF Verifies("capture") THEN GoTo(p, "inspect") ELSE End(p)
    /\ UNCHANGED <<dir, Rest>>

\* The destination has to be empty.
InspectDestination(p) ==
    /\ cmd[p].at = "inspect"
    /\ IF dir["policy"].made THEN End(p) ELSE GoTo(p, "mkdir")
    /\ UNCHANGED <<dir, Rest>>

\* Mutant: mkdir(exist_ok=True).
MakeDirectoriesAnyway(p) ==
    /\ cmd[p].at = "mkdir"
    /\ GoTo(p, "archive") /\ dir' = [dir EXCEPT ![cmd[p].on].made = TRUE]
    /\ UNCHANGED Rest

\* mkdir raises when the directory exists.
MakeDirectories(p) ==
    /\ cmd[p].at = "mkdir"
    /\ IF dir[cmd[p].on].made
       THEN End(p) /\ UNCHANGED dir
       ELSE GoTo(p, "archive") /\ dir' = [dir EXCEPT ![cmd[p].on].made = TRUE]
    /\ UNCHANGED Rest

\* The command makes its directory: a capture, or a builder.
Making(p) == cmd[p].op = "capture" \/ Building(p)

Following(p) ==
    CASE cmd[p].at = "archive"    -> "oracle"
      [] cmd[p].at = "oracle"     -> IF cmd[p].op = "capture" THEN "truth" ELSE "manifest"
      [] cmd[p].at = "truth"      -> "manifest"
      [] cmd[p].at = "manifest"   -> IF cmd[p].op = "capture" THEN "accept"
                                     ELSE IF Building(p) THEN "built" ELSE "reload"
      [] cmd[p].at = "provenance" -> "recovered"

\* What is written: a capture's files hold the session, a policy archive's
\* the content of its source, and a recovery's what it computed.
Written(p) ==
    IF cmd[p].at \in Data
    THEN IF Building(p) THEN dir["capture"][cmd[p].at] ELSE "session"
    ELSE IF Making(p) THEN ManifestOf(cmd[p].on) ELSE cmd[p].read

OpenFile(p) ==
    /\ cmd[p].at \in Data \cup {"manifest", "provenance"} /\ ~cmd[p].open
    /\ dir' = [dir EXCEPT ![cmd[p].on][cmd[p].at] = Torn]
    /\ cmd' = [cmd EXCEPT ![p].open = TRUE]
    /\ UNCHANGED Rest

\* Another recovery is writing the same file, or has written it since p
\* truncated it: the two texts may be left interleaved.  A capture and a
\* builder have made their directory, and a test has the archive for itself.
Overlapped(p) ==
    /\ cmd[p].op = "recover"
    /\ \/ dir[cmd[p].on][cmd[p].at] # Torn
       \/ \E q \in Shell \ {p} :
             cmd[q].open /\ cmd[q].on = cmd[p].on /\ cmd[q].at = cmd[p].at

WriteFile(p) ==
    /\ cmd[p].open
    /\ \E content \in {Written(p)} \cup (IF Overlapped(p) THEN {Torn} ELSE {}) :
          dir' = [dir EXCEPT ![cmd[p].on][cmd[p].at] = content]
    /\ cmd' = [cmd EXCEPT ![p].open = FALSE, ![p].at = Following(p)]
    /\ UNCHANGED Rest

\* CaptureResult.from_manifest; with --capture-only that is all.
AcceptCapture(p) ==
    /\ cmd[p].at = "accept"
    /\ \/ End(p)
       \/ Verifies("capture") /\ cmd' = [cmd EXCEPT ![p].at = "resolve", ![p].op = "recover"]
    /\ UNCHANGED <<dir, Rest>>

\* The test goes on to recover what was built.
Built(p) ==
    /\ cmd[p].at = "built"
    /\ IF cmd[p].op = "archive" THEN End(p)
       ELSE cmd' = [cmd EXCEPT ![p].at = "resolve", ![p].control = "positive"]
    /\ UNCHANGED <<dir, Rest>>
-----------------------------------------------------------------------------
(* recover_protocol.                                                       *)

Files(p) == dir[cmd[p].on]

\* A recovery returns to the shell, or to the test that called it.
Return(p) == IF Testing(p) THEN GoTo(p, "control") ELSE End(p)

\* resolve_recovery_spec: without a manifest a given protocol will do.
Resolve(p) ==
    /\ cmd[p].at = "resolve"
    /\ \/ Files(p).manifest = Absent /\ cmd[p].named /\ GoTo(p, "materialize")
       \/ Verifies(cmd[p].on) /\ GoTo(p, "materialize")
       \/ ~Verifies(cmd[p].on) /\ ~(Files(p).manifest = Absent /\ cmd[p].named) /\ Return(p)
    /\ UNCHANGED <<dir, Rest>>

\* materialized_recovery_spec loads the manifest again.
Materialize(p) ==
    /\ cmd[p].at = "materialize"
    /\ IF Files(p).manifest = Torn THEN Return(p) ELSE GoTo(p, "derive")
    /\ UNCHANGED <<dir, Rest>>

\* Mutant: A forged archive decodes: its tags are not checked.
DecodableUnauthenticated(p) == Files(p).archive # Absent /\ HasContent(Files(p).oracle)

\* Whatever is damaged may happen not to matter, unless it is authenticated.
Decodable(p) == Files(p).archive \notin {Absent, "forged"} /\ HasContent(Files(p).oracle)

\* _derive_mapping; a tool may fail.
Derive(p) ==
    /\ cmd[p].at = "derive"
    /\ \/ Return(p)
       \/ Decodable(p) /\ GoTo(p, IF ssh THEN "update" ELSE "reload")
    /\ UNCHANGED <<dir, Rest>>

\* _record_derivation_manifest reads the manifest and then rewrites it.
UpdateManifest(p) ==
    /\ cmd[p].at = "update"
    /\ \/ Files(p).manifest = Absent /\ GoTo(p, "reload")
       \/ Files(p).manifest = Torn /\ Return(p)
       \/ /\ HasContent(Files(p).manifest)
          /\ cmd' = [cmd EXCEPT ![p].at = "manifest",
                                ![p].read = [Files(p).manifest EXCEPT !.run = cmd[p].id]]
    /\ UNCHANGED <<dir, Rest>>

\* _record_provenance loads the manifest before anything else.
Reload(p) ==
    /\ cmd[p].at = "reload"
    /\ IF HasContent(Files(p).manifest) THEN GoTo(p, "hash") ELSE Return(p)
    /\ UNCHANGED <<dir, Rest>>

HashInputs(p) ==
    /\ cmd[p].at = "hash"
    /\ cmd' = [cmd EXCEPT ![p].at = "provenance",
                          ![p].read = [manifest |-> Files(p).manifest, archive |-> Files(p).archive,
                                       oracle |-> Files(p).oracle]]
    /\ UNCHANGED <<dir, Rest>>

Recovered(p) ==
    /\ cmd[p].at = "recovered"
    /\ Return(p)
    /\ UNCHANGED <<dir, Rest>>
-----------------------------------------------------------------------------
(* _negative_controls and _authenticated_tamper_rejected.                  *)

\* A control saves what it changes and runs a recovery.
Control(p, after, control, at, file, value) ==
    /\ cmd[p].at = "control" /\ cmd[p].control = after
    /\ dir' = [dir EXCEPT !["policy"][file] = value]
    /\ cmd' = [cmd EXCEPT ![p].control = control, ![p].at = at,
                          ![p].saved = dir["policy"][file]]
    /\ UNCHANGED Rest

\* Its finally clause; the next control starts from there.
Restore(p, control, file, next) ==
    /\ cmd[p].at = "control" /\ cmd[p].control = control
    /\ dir' = [dir EXCEPT !["policy"][file] = cmd[p].saved]
    /\ cmd' = [cmd EXCEPT ![p].control = next, ![p].saved = Absent]
    /\ UNCHANGED Rest

FlipBit(p)      == Control(p, "positive", "tampered", "resolve", "archive", "rotten")
UnflipBit(p)    == Restore(p, "tampered", "archive", "flipped")
Withhold(p)     == Control(p, "flipped", "withheld", "resolve", "oracle", Absent)
GiveBack(p)     == Restore(p, "withheld", "oracle", "given_back")
ForgeArchive(p) == Control(p, "given_back", "forged", "forge", "archive", "forged")

\* The manifest is made to fit; the old one is saved in read.
ForgeManifest(p) ==
    /\ cmd[p].at = "forge"
    /\ dir' = [dir EXCEPT !["policy"].manifest.archive = "forged"]
    /\ cmd' = [cmd EXCEPT ![p].at = "resolve", ![p].read = dir["policy"].manifest]
    /\ UNCHANGED Rest

UnforgeArchive(p) == Restore(p, "forged", "archive", "unforged")

\* Mutant: The archive's original manifest is not written back.
EndTestForged(p) ==
    /\ cmd[p].at = "control" /\ cmd[p].control \in {"given_back", "unforged"}
    /\ End(p) /\ UNCHANGED <<dir, Rest>>

\* Only a compact archive is forged.
EndTest(p) ==
    /\ cmd[p].at = "control"
    /\ \/ cmd[p].control = "given_back" /\ UNCHANGED dir
       \/ /\ cmd[p].control = "unforged"
          /\ dir' = [dir EXCEPT !["policy"].manifest = cmd[p].read]
    /\ End(p) /\ UNCHANGED Rest
-----------------------------------------------------------------------------
Build(p)    == LoadSource(p) \/ InspectDestination(p) \/ MakeDirectories(p) \/ OpenFile(p)
               \/ WriteFile(p) \/ AcceptCapture(p) \/ Built(p)
Recovery(p) == Resolve(p) \/ Materialize(p) \/ Derive(p) \/ UpdateManifest(p) \/ Reload(p)
               \/ HashInputs(p) \/ Recovered(p)
Controls(p) == FlipBit(p) \/ UnflipBit(p) \/ Withhold(p) \/ GiveBack(p) \/ ForgeArchive(p)
               \/ ForgeManifest(p) \/ UnforgeArchive(p) \/ EndTest(p)

Next ==
    \/ \E p \in Shell :
          \/ StartCapture(p) \/ StartArchive(p, "archive") \/ StartArchive(p, "test")
          \/ \E d \in {"capture", "policy"}, named \in BOOLEAN : StartRecover(p, d, named)
          \/ Build(p) \/ Recovery(p) \/ Controls(p) \/ Kill(p)
    \/ \E d \in {"capture", "policy"}, f \in Data \cup {"manifest", "provenance"} : Rot(d, f)

Spec == Init /\ [][Next]_vars
-----------------------------------------------------------------------------
Quiet == \A p \in Shell : ~Testing(p)

\* A provenance file only ever names the session's wire data and the genuine
\* simulated recovery, in a directory that has had a manifest: neither a file
\* that rotted, nor an interrupted capture recovered by protocol name, nor an
\* archive that a killed test left forged gets one.
ProvenanceNamesEvidence ==
    \A d \in {"capture", "policy"} : HasContent(dir[d].provenance) =>
       /\ dir[d].provenance.archive = "session" /\ dir[d].provenance.oracle = "session"
       /\ dir[d].manifest # Absent

\* A directory whose manifest verifies holds the session, whatever was
\* interrupted, unless a killed test left it forged.
EvidenceIsFaithful ==
    Quiet /\ ~cut =>
       \A d \in {"capture", "policy"} : Verifies(d) =>
          dir[d].archive = "session" /\ dir[d].oracle = "session"

\* Without rot a manifest that can be read verifies: nothing is written into a
\* directory that is complete, and a test restores what it changed.
ManifestsVerify ==
    rots = 0 /\ ~cut /\ Quiet =>
       \A d \in {"capture", "policy"} : HasContent(dir[d].manifest) => Verifies(d)

\* No command changes the data of a directory that has a manifest, or what
\* the manifest records of it.
EvidenceIsImmutable ==
    [][\A d \in {"capture", "policy"} :
          /\ Quiet /\ rots' = rots /\ HasContent(dir[d].manifest)
          => \A f \in Data : /\ dir'[d][f] = dir[d][f]
                             /\ dir'[d].manifest = Torn \/ dir'[d].manifest[f] = dir[d].manifest[f]]_vars
=============================================================================
