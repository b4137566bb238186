---------------------------- MODULE PskCausality ----------------------------
(***************************************************************************)
(* scripts/psk_causality_test.py on the archive that a 0-RTT capture left, *)
(* or on that of an external-PSK connection: it recovers the session,      *)
(* withholds one input after another by renaming its file (and overwrites  *)
(* an external PSK), recovers again and checks what each absence must and  *)
(* must not prevent.  Tools may fail inside a recovery, and the process    *)
(* may be killed anywhere and the test started again on the same archive.  *)
(***************************************************************************)
EXTENDS ResumptionCapture, SequencesExt

CONSTANT MaxRuns   \* bound: how often the test is started

ASSUME RunsAssumption == MaxRuns \in Nat \ {0}

VARIABLES
    external,  \* the archive is that of capture_external_psk
    changed,   \* simulated_external_psk.json holds the wrong PSK
    runs,      \* times the test was started
    step,      \* position in Script of the step to do next
    withheld,  \* files renamed to *.withheld
    results,   \* the results of this run's recoveries
    derived,   \* the keys in the three output files, {} when absent
    outcome    \* how the last run ended

testVars == <<external, changed, runs, step, withheld, results, derived, outcome>>
vars == <<captureVars, testVars>>

Early == {"early", "no_parent", "early_without_child_dh", "early_without_truth"}
Child == {"child", "child_without_dh", "child_with_wrong_psk", "child_without_truth"}
Grandchild == {"grandchild", "grandchild_without_truth", "grandchild_with_blocked_child"}
Alone == {"external", "external_without_psk", "external_with_wrong_psk", "external_without_truth"}
Recoveries == Early \union Child \union Grandchild \union Alone

\* The capture's input files and the comparison-only ones, all of them
\* recorded in the manifest.
TruthFiles == <<"sslkeylog", "truth">> \o IF Fresh THEN <<"truth_phase2">> ELSE <<>>

Do(op, names) == [i \in DOMAIN names |-> [op |-> op, on |-> names[i]]]

\* The steps of _run_external_psk.
ExternalScript ==
       Do("derive", <<"external">>)
    \o Do("withhold", <<"psk">>) \o Do("derive", <<"external_without_psk">>) \o Do("restore", <<"psk">>)
    \o Do("overwrite", <<"psk">>) \o Do("derive", <<"external_with_wrong_psk">>)
    \o Do("write_back", <<"psk">>)
    \o Do("withhold", TruthFiles) \o Do("derive", <<"external_without_truth">>)
    \o Do("restore", Reverse(TruthFiles))

\* The steps of run_causality_test, one recovery or one rename each.
ChainScript ==
    LET If(condition, steps) == IF condition THEN steps ELSE <<>>
    IN     Do("derive", <<"early", "child">>)
        \o If(grandchild, Do("derive", <<"grandchild">>))
        \o Do("withhold", <<"parent">>) \o Do("derive", <<"no_parent">>) \o Do("restore", <<"parent">>)
        \o If(Fresh, Do("withhold", <<"child">>))
        \o Do("derive", <<"early_without_child_dh", "child_without_dh">>)
        \o If(Fresh, Do("restore", <<"child">>))
        \o Do("derive", <<"child_with_wrong_psk">>)
        \o Do("withhold", TruthFiles)
        \o Do("derive", <<"early_without_truth", "child_without_truth">>)
        \o If(grandchild, Do("derive", <<"grandchild_without_truth">>))
        \o Do("restore", Reverse(TruthFiles))
        \o If(grandchild, Do("derive", <<"grandchild_with_blocked_child">>))

Script == IF external THEN ExternalScript ELSE ChainScript

\* What capture_external_psk leaves: one connection, and none of the files of
\* capture_0rtt.
ExternalArchive ==
    /\ kex = "psk-only" /\ grandchild = FALSE /\ timely = TRUE /\ cpc = "captured"
    /\ wire = <<[ticket |-> External, dh |-> FALSE, early |-> FALSE, archived |-> {}]>>
    /\ saved = <<0>> /\ pipe = <<>> /\ store = NoPair /\ phase1 = NoPair /\ phase2 = NoPair
    /\ taken = 0 /\ oracle = [p \in 1..2 |-> NoFile] /\ manifest = FALSE

Init ==
    /\ \/ external = FALSE /\ CaptureInit
       \/ external = TRUE /\ ExternalArchive
    /\ changed = FALSE /\ runs = 0 /\ step = 0 /\ withheld = {} /\ outcome = "none"
    /\ results = [r \in Recoveries |-> Failed]
    /\ derived = [f \in {"early", "child", "grandchild", "external"} |-> {}]

Capture == CaptureNext /\ UNCHANGED testVars
-----------------------------------------------------------------------------
\* RunManifest.load and verify_recorded_artifacts: every recorded file must
\* be in place and unchanged.
Load ==
    /\ manifest \/ external
    /\ outcome /= "running" /\ runs < MaxRuns
    /\ runs' = runs + 1
    /\ results' = [r \in Recoveries |-> Failed]
    /\ IF withheld = {} /\ ~changed THEN step' = 1 /\ outcome' = "running"
       ELSE outcome' = "refused" /\ UNCHANGED step
    /\ UNCHANGED <<external, changed, withheld, derived, captureVars>>

Doing(op) == outcome = "running" /\ step \in DOMAIN Script /\ Script[step].op = op

File(name, p) == IF name \in withheld THEN NoFile ELSE oracle[p]
Truth == "sslkeylog" \notin withheld

\* The PSK of the baseline, its first octet flipped.
WrongPsk == <<"not", results["early"].psk>>

\* What the recovery of an external PSK finds in its file.
PskFile == IF "psk" \in withheld THEN Nothing ELSE IF changed THEN <<"not", ExternalPsk>> ELSE ExternalPsk

Recover(r) ==
    CASE r \in Alone -> derive_external_psk(wire, PskFile, Truth)
      [] r \in Early -> derive_0rtt(wire, File("parent", 1), Truth)
      [] r \in Child ->
           derive_resumed_1rtt(wire, 2, File("child", 2),
               IF r = "child_with_wrong_psk" THEN WrongPsk ELSE results["early"].psk,
               results["early"].early, Fresh, Truth)
      [] r = "grandchild" -> derive_grandchild_early(wire, results["child"], Truth)
      [] r = "grandchild_without_truth" ->
           derive_grandchild_early(wire, results["child_without_truth"], Truth)
      [] r = "grandchild_with_blocked_child" ->
           derive_grandchild_early(wire,
               results[IF Fresh THEN "child_without_dh" ELSE "child_with_wrong_psk"], Truth)

OutputOf(r) ==
    CASE r \in Early -> "early" [] r \in Child -> "child"
      [] r \in Grandchild -> "grandchild" [] r \in Alone -> "external"

\* One recovery; the test ends when the baseline of early data fails.
Derive ==
    /\ Doing("derive")
    /\ LET r == Script[step].on
           result == Recover(r)
       IN /\ results' = [results EXCEPT ![r] = result]
          /\ derived' = IF result.keylog = {} THEN derived
                        ELSE [derived EXCEPT ![OutputOf(r)] = result.keylog]
          /\ IF r = "early" /\ ~result.success
             THEN outcome' = "no baseline" /\ UNCHANGED step
             ELSE step' = step + 1 /\ UNCHANGED outcome
    /\ UNCHANGED <<external, changed, runs, withheld, captureVars>>

Withhold ==
    /\ Doing("withhold")
    /\ withheld' = withheld \union {Script[step].on}
    /\ step' = step + 1
    /\ UNCHANGED <<external, changed, runs, results, derived, outcome, captureVars>>

Restore ==
    /\ Doing("restore")
    /\ withheld' = withheld \ {Script[step].on}
    /\ step' = step + 1
    /\ UNCHANGED <<external, changed, runs, results, derived, outcome, captureVars>>

\* The PSK file is written with its first octet flipped, and as it was.
Overwrite ==
    /\ Doing("overwrite") \/ Doing("write_back")
    /\ changed' = Doing("overwrite")
    /\ step' = step + 1
    /\ UNCHANGED <<external, runs, withheld, results, derived, outcome, captureVars>>

\* Mutant: the renames are not undone on an exception.
ToolFailsForGood ==
    /\ Doing("derive")
    /\ outcome' = "exception"
    /\ UNCHANGED <<external, changed, runs, step, withheld, results, derived, captureVars>>

\* A recovery raises (tshark is missing or times out): the finally clause
\* puts the withheld files back, the last one first, and the exception goes
\* on.
ToolFails ==
    /\ Doing("derive")
    /\ outcome' = IF withheld = {} /\ ~changed THEN "exception" ELSE "unwinding"
    /\ UNCHANGED <<external, changed, runs, step, withheld, results, derived, captureVars>>

\* The last of the withheld files in the order of their renaming.
LastWithheld ==
    LET files == <<"parent", "child", "psk">> \o TruthFiles
    IN  {files[i] : i \in {i \in DOMAIN files : /\ files[i] \in withheld
                                              /\ \A j \in DOMAIN files : files[j] \in withheld => j <= i}}

Unwind ==
    /\ outcome = "unwinding"
    /\ IF changed
       THEN changed' = FALSE /\ outcome' = "exception" /\ UNCHANGED withheld
       ELSE \E f \in LastWithheld :
                /\ withheld' = withheld \ {f}
                /\ outcome' = IF withheld = {f} THEN "exception" ELSE outcome
                /\ UNCHANGED changed
    /\ UNCHANGED <<external, runs, step, results, derived, captureVars>>

\* The assertions of the evidence file.
ExternalAssertions ==
    LET ok(r) == results[r].success
    IN  /\ ok("external") /\ ok("external_without_truth")
        /\ ~ok("external_without_psk") /\ ~ok("external_with_wrong_psk")
        /\ ~wire[1].dh

ChainAssertions ==
    LET ok(r) == results[r].success
    IN  /\ ok("early") /\ ok("child")
        /\ ~ok("no_parent")
        /\ ok("early_without_child_dh")
        /\ results["early_without_child_dh"].early = results["early"].early
        /\ IF Fresh THEN ~ok("child_without_dh")
           ELSE ok("child_without_dh") /\ oracle[2] = NoFile
        /\ ~ok("child_with_wrong_psk")
        /\ ok("early_without_truth") /\ ok("child_without_truth")
        /\ grandchild =>
             /\ ok("grandchild") /\ ~ok("grandchild_with_blocked_child")
             /\ ok("grandchild_without_truth")

Conclude ==
    /\ outcome = "running" /\ step \notin DOMAIN Script
    /\ outcome' = IF IF external THEN ExternalAssertions ELSE ChainAssertions THEN "passed" ELSE "failed"
    /\ UNCHANGED <<external, changed, runs, step, withheld, results, derived, captureVars>>

\* A rename or a write fails.  The renames of the ground truth and the write of
\* the wrong PSK are not inside a try statement, and a finally clause whose
\* own rename fails does nothing more: what is renamed away stays away.
RenameFails ==
    /\ \/ Doing("withhold") \/ Doing("restore") \/ Doing("overwrite") \/ Doing("write_back")
       \/ outcome = "unwinding"
    /\ outcome' = "os error"
    /\ changed' \in IF Doing("overwrite") THEN BOOLEAN ELSE {changed}
    /\ UNCHANGED <<external, runs, step, withheld, results, derived, captureVars>>

\* The process is killed.
Kill ==
    /\ outcome \in {"running", "unwinding"}
    /\ outcome' = "killed"
    /\ UNCHANGED <<external, changed, runs, step, withheld, results, derived, captureVars>>

TestStep == Load \/ Derive \/ Withhold \/ Restore \/ Overwrite \/ Unwind \/ Conclude
Next == Capture \/ TestStep \/ ToolFails \/ RenameFails \/ Kill

Spec == Init /\ [][Next]_vars
-----------------------------------------------------------------------------
\* The keys in an output file are those of the endpoints, whatever material
\* the capture kept and whichever inputs were withheld: the recoveries write
\* derived/nss_*.keylog before they have verified any plaintext, and the test
\* runs them with a wrong PSK and without their inputs.
DerivedAreGenuine ==
    /\ derived["early"] /= {} => derived["early"] = {Endpoint(wire)[2].early}
    /\ derived["child"] /= {} =>
         LET real == Endpoint(wire)[2] IN derived["child"] = {real.early, real.hs, real.app}
    /\ derived["external"] /= {} =>
         LET real == Endpoint(wire)[1] IN derived["external"] = {real.hs, real.app}
    /\ derived["grandchild"] /= {} => derived["grandchild"] = {Endpoint(wire)[3].early}

\* A run that ends by itself, with a verdict or with the exception of a recovery,
\* has put every input back under its name and with its content (_withheld, the
\* finally around the recoveries without the ground truth, and the one around
\* the wrong PSK).  Only a failure of the renames and writes themselves is
\* excepted ("os error").
InputsRestored ==
    outcome \in {"passed", "failed", "no baseline", "exception"} => withheld = {} /\ ~changed

\* On an archive whose capture kept up, the assertions of the test hold: the
\* parent's scalar opens the early data, the child needs the parent's PSK and
\* its own fresh scalar unless it is a pure-PSK child, the grandchild needs
\* the child's ticket state, an external PSK is needed in its exact value, and
\* nothing needs the ground truth.
CausalityHolds == timely => outcome \notin {"failed", "no baseline"}
=============================================================================
