--------------------------- MODULE RekeyBenchmark ---------------------------
(***************************************************************************)
(* main of scripts/ssh_rekey_benchmark.py: the timed samples in their      *)
(* order, one diagnostic run for each cell, and the files that are left    *)
(* behind when everything succeeded, a sample failed, or an exception that *)
(* main does not catch ended it.                                           *)
(***************************************************************************)
EXTENDS BenchSample, FiniteSets, SequencesExt

CONSTANTS
    Plans,       \* the arguments that are tried
    Repetitions

ASSUME BenchmarkAssumption == Repetitions \in Nat \ {0}

VARIABLES
    plan,       \* the arguments of this run
    position,   \* position in the schedule of the sample under way
    results,    \* directories that hold a result.json
    dirs,       \* sample directories made
    samples,    \* timed samples kept, by their position
    diagnoses,  \* diagnostic runs kept, by their position
    files       \* files written at the end

mainVars == <<plan, position, results, dirs, samples, diagnoses, files>>
vars == <<sampleVars, mainVars>>

\* Three lists of the command line.  Repeated values of --rekey-limits are
\* refused, those of --rtt-ms and --workloads are not.
ASSUME PlanAssumption ==
    \A p \in Plans :
        /\ p.rtts \in Seq(ToSet(p.rtts)) /\ p.workloads \in Seq(ToSet(p.workloads))
        /\ p.limits \in Seq(ToSet(p.limits)) /\ IsInjective(p.limits)
        /\ p.diagnose \in BOOLEAN

\* The loops over RTTs, workloads and limits.
Cells(p, limits) ==
    FlattenSeq([i \in DOMAIN p.rtts |->
        FlattenSeq([j \in DOMAIN p.workloads |->
            [k \in DOMAIN limits |->
                [rtt |-> p.rtts[i], workload |-> p.workloads[j], limit |-> limits[k]]]])])

\* Every other repetition has the limits reversed; the diagnoses come last.
Schedule(p) ==
    FlattenSeq([r \in 1..Repetitions |->
                   Cells(p, IF r % 2 = 1 THEN p.limits ELSE Reverse(p.limits))])
    \o (IF p.diagnose THEN Cells(p, p.limits) ELSE <<>>)

\* The command line accepts no other workload.
ASSUME WorkloadAssumption ==
    \A p \in Plans : \A i \in DOMAIN Schedule(p) : Schedule(p)[i].workload \in {"bulk", "interactive"}

Timed(p) == Repetitions * Len(Cells(p, p.limits))
Cell == Schedule(plan)[position]

\* Timed samples are numbered, diagnoses are named by their cell alone.
Directory ==
    IF position <= Timed(plan) THEN <<"runs", position, Cell>> ELSE <<"diagnostics", 0, Cell>>

Init ==
    /\ plan \in Plans
    /\ position = 1 /\ results = {} /\ dirs = {} /\ samples = <<>> /\ diagnoses = <<>> /\ files = {}
    /\ pc = "next" /\ interrupts = 0 /\ failure = "none" /\ workload = "bulk"
    /\ server = [thread |-> "off", stop |-> FALSE, error |-> FALSE]
    /\ relay = [thread |-> "off", stop |-> FALSE, error |-> FALSE, listed |-> FALSE]
    /\ pump = [d \in Direction |-> "off"]
    /\ conn = [c \in {"front", "back"} |-> "none"]
    /\ fin = [d \in Direction |-> FALSE]
    /\ count = [d \in Direction |-> [written |-> 0, pumped |-> 0, sent |-> 0, read |-> 0]]
    /\ client = "none" /\ sshd = "none"

Sample == (SampleStep \/ ServerThread \/ RelayThreads \/ Processes \/ Misfortune)
          /\ UNCHANGED mainVars
-----------------------------------------------------------------------------
\* Mutant of BeginSample: an existing directory is used again.
BeginSampleAgain ==
    /\ pc = "next" /\ position \in DOMAIN Schedule(plan)
    /\ dirs' = dirs \union {Directory}
    /\ Fresh(Cell.workload)
    /\ pc' = "start_server"
    /\ UNCHANGED <<interrupts, plan, position, results, samples, diagnoses, files>>

\* mkdir refuses an existing directory; it, the search for free ports and the
\* write of sshd_config may fail otherwise: main catches the OSError.
BeginSample ==
    /\ pc = "next" /\ position \in DOMAIN Schedule(plan)
    /\ \/ /\ pc' = "partial" /\ dirs' \in {dirs, dirs \union {Directory}}
          /\ UNCHANGED <<workload, failure, threadVars, netVars, client, sshd>>
       \/ /\ Directory \notin dirs /\ dirs' = dirs \union {Directory}
          /\ Fresh(Cell.workload)
          /\ pc' = "start_server"
    /\ UNCHANGED <<interrupts, plan, position, results, samples, diagnoses, files>>

\* Mutant of SampleFails: a failed sample is passed over.
SampleFailsSoftly ==
    /\ pc = "sampled" /\ failure # "none"
    /\ pc' = IF failure = "error" THEN "next" ELSE "exit"
    /\ position' = position + 1
    /\ UNCHANGED <<workload, failure, interrupts, threadVars, netVars, client, sshd,
                   plan, results, dirs, samples, diagnoses, files>>

\* RuntimeError and OSError are caught, ValueError and KeyboardInterrupt are not.
SampleFails ==
    /\ pc = "sampled" /\ failure # "none"
    /\ pc' = IF failure = "error" THEN "partial" ELSE "exit"
    /\ UNCHANGED <<workload, failure, interrupts, threadVars, netVars, client, sshd, mainVars>>

\* result.json is written before the sample counts; the disk may be full.
KeepResult ==
    /\ pc = "sampled" /\ failure = "none"
    /\ \/ /\ results' = results \union {Directory}
          /\ IF position <= Timed(plan)
             THEN samples' = Append(samples, position) /\ UNCHANGED diagnoses
             ELSE diagnoses' = Append(diagnoses, position) /\ UNCHANGED samples
          /\ position' = position + 1
          /\ pc' = "next"
       \/ pc' = "partial" /\ UNCHANGED <<position, results, samples, diagnoses>>
    /\ UNCHANGED <<workload, failure, interrupts, threadVars, netVars, client, sshd,
                   plan, dirs, files>>

WritePartial ==
    /\ pc = "partial"
    /\ files' \in {files, files \union {"partial_results.json"}}
    /\ pc' = "exit"
    /\ UNCHANGED <<workload, failure, interrupts, threadVars, netVars, client, sshd,
                   plan, position, results, dirs, samples, diagnoses>>

\* samples.csv, summary.csv and results.json, outside of the try statement.
WriteResults ==
    /\ pc = "next" /\ position \notin DOMAIN Schedule(plan)
    /\ \/ files' = {"samples.csv", "summary.csv", "results.json"}
       \/ files' \in {{}, {"samples.csv"}, {"samples.csv", "summary.csv"}}
    /\ pc' = "exit"
    /\ UNCHANGED <<workload, failure, interrupts, threadVars, netVars, client, sshd,
                   plan, position, results, dirs, samples, diagnoses>>

\* The process ends: its threads stop and its sockets are closed.
Exit ==
    /\ pc = "exit"
    /\ pc' = "exited"
    /\ server' = [server EXCEPT !.thread = "done"] /\ relay' = [relay EXCEPT !.thread = "done"]
    /\ pump' = [d \in Direction |-> "done"]
    /\ conn' = [c \in DOMAIN conn |-> "closed"]
    /\ UNCHANGED <<workload, failure, interrupts, fin, count, client, sshd, mainVars>>

MainStep ==
    \/ SampleStep /\ UNCHANGED mainVars
    \/ BeginSample \/ SampleFails \/ KeepResult \/ WritePartial \/ WriteResults \/ Exit

Next ==
    \/ Sample \/ BeginSample \/ SampleFails \/ KeepResult \/ WritePartial \/ WriteResults \/ Exit

\* Every wait of the main thread has a timeout; the other threads and the
\* processes are scheduled by the operating system.
Fairness ==
    /\ WF_vars(MainStep)
    /\ WF_vars(ServerThread /\ UNCHANGED mainVars)
    /\ WF_vars((RelayBind \/ RelayAccept \/ RelayConnect \/ RelayJoin) /\ UNCHANGED mainVars)
    /\ \A d \in Direction : WF_vars((PumpRecv(d) \/ PumpSend(d)) /\ UNCHANGED mainVars)
    /\ WF_vars((SshdServe \/ SshdEof) /\ UNCHANGED mainVars)
    /\ WF_vars(ClientExits /\ UNCHANGED mainVars)
    /\ WF_vars(Terminates /\ UNCHANGED mainVars)

Spec == Init /\ [][Next]_vars /\ Fairness
-----------------------------------------------------------------------------
\* A sample starts on a quiet machine: no thread, ssh or sshd of an earlier
\* one is left, although a sample only waits for them with timeouts.
SamplesDoNotOverlap ==
    [][BeginSample =>
         /\ {client, sshd} \intersect Running = {}
         /\ {server.thread, relay.thread} \subseteq {"off", "done"}]_vars

\* A sample that returns a result carried its whole workload through both
\* pumps, and both processes ended by themselves: ssh with success, sshd with
\* 0 or 255, none was killed, and the CPU times that GNU time wrote are theirs.
ResultsAreWhole ==
    pc = "sampled" /\ failure = "none" =>
        /\ count["reply"].read = Replies /\ count["request"].read = Requests
        /\ client = "clean" /\ sshd \in Accepted /\ ~relay.error

\* results.json compares like with like: for an RTT and a workload, every
\* limit was sampled equally often, and diagnosed if the run diagnoses.
ResultsAreMatched ==
    "results.json" \in files =>
        LET Of(cell) == {i \in 1..Len(samples) : Schedule(plan)[samples[i]] = cell}
            cells == {Schedule(plan)[i] : i \in DOMAIN Schedule(plan)}
        IN  \A a, b \in cells :
              /\ a.rtt = b.rtt /\ a.workload = b.workload => Cardinality(Of(a)) = Cardinality(Of(b))
              /\ plan.diagnose => \E i \in DOMAIN diagnoses : Schedule(plan)[diagnoses[i]] = a

\* The evidence of a run that failed: what is kept has its result.json, and
\* partial_results.json never stands beside results.json.
EvidenceIsKept ==
    /\ ~({"partial_results.json", "results.json"} \subseteq files)
    /\ Cardinality(results) = Len(samples) + Len(diagnoses)
    /\ Len(samples) + Len(diagnoses) < position

\* The benchmark ends: no wait on a thread, a pipe or a process is for ever.
BenchmarkEnds == <>(pc = "exited")
=============================================================================
