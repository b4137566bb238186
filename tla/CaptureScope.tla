---------------------------- MODULE CaptureScope ----------------------------
(***************************************************************************)
(* CaptureLifecycle (capture/common.py) around one TLS 1.3 capture         *)
(* (capture/tls13/capture_1rtt.py): the dumpcap writer, a server and a     *)
(* client are started, registered, waited for and stopped by start_capture,*)
(* start_process, terminate and stop_capture, and __exit__ cleans up after *)
(* an exception.  The three operating-system processes act by themselves;  *)
(* every wait of the main thread has a timeout, which may expire whenever  *)
(* its condition is false.  A KeyboardInterrupt may strike once.           *)
(***************************************************************************)
EXTENDS Integers, Sequences, FiniteSets, SequencesExt

CONSTANTS
    InterruptAt,     \* where the interrupt may strike: a subset of Places
    WriterMayCrash   \* whether dumpcap may exit by itself

Places == {"body", "terminate", "stop_capture", "exit"}

ASSUME ScopeAssumption == InterruptAt \subseteq Places /\ WriterMayCrash \in BOOLEAN

Child == {"server", "client"}
Process == Child \union {"dumpcap"}

VARIABLES
    os,           \* os[x]: "none", "alive", or how it exited
    sig,          \* sig[x]: the last signal sent to x
    processes,    \* _processes: the registered children
    active,       \* _active: the registered writers
    registered,   \* history: what has ever been registered
    pc,           \* control point of the capture function or of __exit__
    sub, arg,     \* control point and argument of terminate or stop_capture
    error,        \* the exception that left the with block
    cleanupError, \* __exit__'s local
    outcome       \* how the with statement ended

osVars == <<os, sig>>
registryVars == <<processes, active, registered>>
exitVars == <<error, cleanupError, outcome>>
vars == <<osVars, registryVars, pc, sub, arg, exitVars>>

InStop == {"sigint", "wait_int", "wait_term", "wait_kill", "joined"}
InTerminate == {"terminate", "grace"}
InExit == {"exit_processes", "exit_captures", "exit_end"}

Exited(x) == os[x] \in {"clean", "failed", "killed"}
Alive(x) == os[x] = "alive"

Init ==
    /\ os = [x \in Process |-> "none"] /\ sig = [x \in Process |-> "none"]
    /\ processes = <<>> /\ active = {} /\ registered = {}
    /\ pc = "spawn_dumpcap" /\ sub = "idle" /\ arg = "dumpcap"
    /\ error = "none" /\ cleanupError = FALSE /\ outcome = "running"
-----------------------------------------------------------------------------
(* The operating-system processes.                                         *)

\* A process told to stop may do so; a child may exit at any time.
Exits(x) ==
    /\ Alive(x) /\ sig[x] # "KILL"
    /\ \/ x \in Child /\ \E how \in {"clean", "failed"} : os' = [os EXCEPT ![x] = how]
       \/ x = "dumpcap" /\ sig[x] # "none" /\ os' = [os EXCEPT ![x] = "clean"]
       \/ x = "dumpcap" /\ WriterMayCrash /\ os' = [os EXCEPT ![x] = "failed"]
    /\ UNCHANGED <<sig, registryVars, pc, sub, arg, exitVars>>

IsKilled(x) ==
    /\ Alive(x) /\ sig[x] = "KILL"
    /\ os' = [os EXCEPT ![x] = "killed"]
    /\ UNCHANGED <<sig, registryVars, pc, sub, arg, exitVars>>

Signal(x, s) == sig' = IF Alive(x) THEN [sig EXCEPT ![x] = s] ELSE sig
-----------------------------------------------------------------------------
(* The body of the with statement.                                         *)

At(point) == pc = point /\ sub = "idle"
Goto(point) == pc' = point /\ UNCHANGED <<sub, arg>>
Call(step, x, then) == sub' = step /\ arg' = x /\ pc' = then
Raise(e) == error' = e /\ Goto("exit_processes") /\ UNCHANGED <<cleanupError, outcome>>

Stay == UNCHANGED exitVars

\* subprocess.Popen: the process is alive, or OSError is raised.
Spawn(x, then) ==
    \/ os' = [os EXCEPT ![x] = "alive"] /\ Goto(then) /\ Stay
    \/ Raise("error") /\ UNCHANGED os

SpawnDumpcap == /\ At("spawn_dumpcap") /\ Spawn("dumpcap", "ready_dumpcap")
                /\ UNCHANGED <<sig, registryVars>>
SpawnServer  == /\ At("spawn_server") /\ Spawn("server", "register_server")
                /\ UNCHANGED <<sig, registryVars>>
SpawnClient  == /\ At("spawn_client") /\ Spawn("client", "register_client")
                /\ UNCHANGED <<sig, registryVars>>

\* start_capture waits three seconds for dumpcap to report readiness.
ReadyDumpcap ==
    /\ At("ready_dumpcap")
    /\ \/ Exited("dumpcap") /\ Raise("error")
       \/ Alive("dumpcap") /\ Goto("register_dumpcap") /\ Stay
       \/ Alive("dumpcap") /\ Call("terminate", "dumpcap", "fail") /\ Stay
    /\ UNCHANGED <<osVars, registryVars>>

RegisterDumpcap ==
    /\ At("register_dumpcap")
    /\ active' = active \union {"dumpcap"} /\ registered' = registered \union {"dumpcap"}
    /\ Goto("spawn_server")
    /\ UNCHANGED <<osVars, processes, exitVars>>

register_process(x) ==
    /\ processes' = Append(processes, x) /\ registered' = registered \union {x}
    /\ UNCHANGED active

RegisterServer == /\ At("register_server") /\ register_process("server") /\ Goto("ready_server")
                  /\ UNCHANGED <<osVars, exitVars>>
RegisterClient == /\ At("register_client") /\ register_process("client") /\ Goto("await_client")
                  /\ UNCHANGED <<osVars, exitVars>>

\* Five seconds for the server to accept.
ReadyServer ==
    /\ At("ready_server")
    /\ \/ Exited("server") /\ Call("sigint", "dumpcap", "fail")
       \/ Alive("server") /\ Goto("spawn_client")
       \/ Alive("server") /\ Call("terminate", "server", "fail_stop")
    /\ UNCHANGED <<osVars, registryVars, exitVars>>

\* client.wait(timeout=8), then terminate.
AwaitClient ==
    /\ At("await_client")
    /\ IF Exited("client")
       THEN Goto("client_done")
       ELSE Call("terminate", "client", "client_done")
    /\ UNCHANGED <<osVars, registryVars, exitVars>>

\* client.poll() in (0, None): a killed client that is not reaped yet passes.
ClientDone ==
    /\ At("client_done")
    /\ IF os["client"] \in {"clean", "alive"}
       THEN Call("terminate", "server", "stop")
       ELSE Call("terminate", "server", "fail_stop")
    /\ UNCHANGED <<osVars, registryVars, exitVars>>

Stop ==
    /\ pc \in {"stop", "fail_stop"} /\ sub = "idle"
    /\ Call("sigint", "dumpcap", IF pc = "stop" THEN "check" ELSE "fail")
    /\ UNCHANGED <<osVars, registryVars, exitVars>>

FailBody == /\ At("fail") /\ Raise("error") /\ UNCHANGED <<osVars, registryVars>>

\* The response is looked for, then the keys and the manifest are written.
Check ==
    /\ At("check")
    /\ Raise("error") \/ (Goto("exit_processes") /\ Stay)
    /\ UNCHANGED <<osVars, registryVars>>
-----------------------------------------------------------------------------
(* terminate                                                               *)

\* The other items of a list, in their order.
Without(list, x) == FoldLeft(LAMBDA kept, p : IF p = x THEN kept ELSE Append(kept, p), <<>>, list)

\* Its finally clause.
unregister_process == processes' = Without(processes, arg)

Terminate ==
    /\ sub = "terminate"
    /\ IF Alive(arg)
       THEN /\ Signal(arg, "TERM")
            /\ sub' = "grace"
            /\ UNCHANGED processes
       ELSE unregister_process /\ sub' = "idle" /\ UNCHANGED sig
    /\ UNCHANGED <<os, active, registered, pc, arg, exitVars>>

\* Mutant of Grace: no kill() after the grace period.
GraceWithoutKill ==
    /\ sub = "grace"
    /\ unregister_process /\ sub' = "idle"
    /\ UNCHANGED <<osVars, active, registered, pc, arg, exitVars>>

\* Two seconds; then kill(), without waiting for its effect.
Grace ==
    /\ sub = "grace"
    /\ Signal(arg, "KILL")
    /\ unregister_process /\ sub' = "idle"
    /\ UNCHANGED <<os, active, registered, pc, arg, exitVars>>
-----------------------------------------------------------------------------
(* stop_capture                                                            *)

Interrupt_dumpcap ==
    /\ sub = "sigint"
    /\ Signal(arg, "INT") /\ sub' = "wait_int"
    /\ UNCHANGED <<os, registryVars, pc, arg, exitVars>>

\* wait(10), SIGTERM to the group, wait(2), SIGKILL to the group.
WaitExit ==
    /\ sub \in {"wait_int", "wait_term"}
    /\ \/ /\ Exited(arg)
          /\ sub' = "joined" /\ UNCHANGED sig
       \/ /\ Alive(arg)
          /\ Signal(arg, IF sub = "wait_int" THEN "TERM" ELSE "KILL")
          /\ sub' = IF sub = "wait_int" THEN "wait_term" ELSE "wait_kill"
    /\ UNCHANGED <<os, registryVars, pc, arg, exitVars>>

\* Mutants of WaitKilled: the last wait's TimeoutExpired is swallowed too, and
\* the last wait has no timeout.
WaitKilledSwallow ==
    /\ sub = "wait_kill"
    /\ sub' = "joined"
    /\ UNCHANGED <<osVars, registryVars, pc, arg, exitVars>>

WaitKilledForever ==
    /\ sub = "wait_kill" /\ Exited(arg)
    /\ sub' = "joined"
    /\ UNCHANGED <<osVars, registryVars, pc, arg, exitVars>>

\* The last wait(2) may raise TimeoutExpired: out of the body, or into the
\* handler of __exit__.
WaitKilled ==
    /\ sub = "wait_kill"
    /\ \/ Exited(arg) /\ sub' = "joined" /\ UNCHANGED <<pc, exitVars>>
       \/ /\ Alive(arg) /\ sub' = "idle"
          /\ IF pc \in InExit
             THEN cleanupError' = TRUE /\ UNCHANGED <<pc, error>>
             ELSE error' = "error" /\ pc' = "exit_processes" /\ UNCHANGED cleanupError
          /\ UNCHANGED outcome
    /\ UNCHANGED <<osVars, registryVars, arg>>

\* The reader threads are joined and the writer is unregistered.
Joined ==
    /\ sub = "joined"
    /\ active' = active \ {arg} /\ sub' = "idle"
    /\ UNCHANGED <<osVars, processes, registered, pc, arg, exitVars>>
-----------------------------------------------------------------------------
(* __exit__                                                                *)

\* Mutant of ExitProcesses: the writers are stopped before the children.
ExitCapturesFirst ==
    /\ At("exit_processes")
    /\ \/ /\ active # {}
          /\ active' = {} /\ Call("sigint", "dumpcap", "exit_processes")
          /\ UNCHANGED processes
       \/ /\ active = {} /\ processes # <<>>
          /\ processes' = SubSeq(processes, 1, Len(processes) - 1)
          /\ Call("terminate", processes[Len(processes)], "exit_processes")
          /\ UNCHANGED active
       \/ /\ active = {} /\ processes = <<>>
          /\ Goto("exit_captures") /\ UNCHANGED <<processes, active>>
    /\ UNCHANGED <<osVars, registered, exitVars>>

ExitProcesses ==
    /\ At("exit_processes")
    /\ IF processes = <<>>
       THEN Goto("exit_captures") /\ UNCHANGED processes
       ELSE /\ processes' = SubSeq(processes, 1, Len(processes) - 1)
            /\ Call("terminate", processes[Len(processes)], "exit_processes")
    /\ UNCHANGED <<osVars, active, registered, exitVars>>

ExitCaptures ==
    /\ At("exit_captures")
    /\ IF active = {}
       THEN Goto("exit_end") /\ UNCHANGED active
       ELSE \E x \in active :
               /\ active' = active \ {x}
               /\ Call("sigint", x, "exit_captures")
    /\ UNCHANGED <<osVars, processes, registered, exitVars>>

ExitEnd ==
    /\ At("exit_end") /\ outcome = "running"
    /\ outcome' = IF error # "none" THEN error ELSE IF cleanupError THEN "cleanup_error" ELSE "ok"
    /\ UNCHANGED <<osVars, registryVars, pc, sub, arg, error, cleanupError>>
-----------------------------------------------------------------------------
\* KeyboardInterrupt: terminate's finally clause still runs; the rest of the
\* body, or of __exit__, does not.
Place ==
    IF pc \in InExit THEN "exit"
    ELSE IF sub \in InTerminate THEN "terminate"
    ELSE IF sub \in InStop THEN "stop_capture" ELSE "body"

Interrupt ==
    /\ error # "interrupt" /\ outcome = "running"
    /\ Place \in InterruptAt
    /\ error' = "interrupt"
    /\ IF sub \in InTerminate THEN unregister_process ELSE UNCHANGED processes
    /\ sub' = "idle"
    /\ pc' = IF pc \in InExit THEN "exit_end" ELSE "exit_processes"
    /\ UNCHANGED <<osVars, active, registered, arg, cleanupError, outcome>>

Body ==
    \/ SpawnDumpcap \/ ReadyDumpcap \/ RegisterDumpcap
    \/ SpawnServer \/ RegisterServer \/ ReadyServer
    \/ SpawnClient \/ RegisterClient \/ AwaitClient \/ ClientDone
    \/ Stop \/ FailBody \/ Check

Main ==
    \/ Body
    \/ Terminate \/ Grace
    \/ Interrupt_dumpcap \/ WaitExit \/ WaitKilled \/ Joined
    \/ ExitProcesses \/ ExitCaptures \/ ExitEnd

Next == Main \/ Interrupt \/ \E x \in Process : Exits(x) \/ IsKilled(x)

Spec == Init /\ [][Next]_vars

\* The main thread is scheduled; nothing is assumed of the other processes.
FairSpec == Spec /\ WF_vars(Main)
-----------------------------------------------------------------------------
(* Properties.                                                             *)

\* The registries and control points of CaptureLifecycle have their types; no
\* child is registered twice.
TypeOK ==
    /\ os \in [Process -> {"none", "alive", "clean", "failed", "killed"}]
    /\ sig \in [Process -> {"none", "INT", "TERM", "KILL"}]
    /\ processes \in Seq(Child) /\ Len(processes) <= Cardinality(Child)
    /\ active \subseteq {"dumpcap"} /\ registered \subseteq Process
    /\ sub \in InStop \union InTerminate \union {"idle"} /\ arg \in Process
    /\ error \in {"none", "error", "interrupt"} /\ cleanupError \in BOOLEAN
    /\ outcome \in {"running", "ok", "error", "interrupt", "cleanup_error"}

Ended(x) == Exited(x) \/ sig[x] = "KILL"

\* README: "A scope-bound process lifecycle finalizes registered dumpcap writers
\* and terminates registered clients or servers after exceptional exits":
\* whatever was registered has exited, or was sent SIGKILL, when the with
\* statement ends.
RegisteredAreEnded == outcome # "running" => \A x \in registered : Ended(x)

\* The writer is told to stop only when every registered client and server has
\* ended, on the normal path, on each failure path and in __exit__: the PCAP
\* holds the end of the session.
WriterOutlivesSession == sub \in InStop => \A x \in registered \ {"dumpcap"} : Ended(x)

\* A capture returns normally only when its writer has exited, both registries
\* are empty and no child was left without SIGKILL; a cleanup error of __exit__
\* is not lost.
OkMeansClean ==
    outcome = "ok" =>
        /\ Exited("dumpcap") /\ \A x \in Child : Ended(x)
        /\ processes = <<>> /\ active = {} /\ ~cleanupError

\* The with statement ends although dumpcap, server and client ignore every
\* signal: each wait of terminate and stop_capture is bounded.
ScopeEnds == <>(outcome # "running")
=============================================================================
