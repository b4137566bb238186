---------------------------- MODULE BenchSample ----------------------------
(***************************************************************************)
(* One sample of scripts/ssh_rekey_benchmark.py (_run_sample): a thread    *)
(* that accepts one connection and runs sshd on it (TimedInetdServer), a   *)
(* thread that forwards one connection to it through two pump threads      *)
(* (DelayedRelay), an ssh client, and the main thread, which drives the    *)
(* client, stops the relay, waits for sshd and cleans up.                  *)
(*                                                                         *)
(* ssh and sshd are leaders of nothing: GNU time leads their groups.  A    *)
(* SIGTERM to the group ends time at once, and ssh or sshd soon after      *)
(* ("ending").  A stream is represented by how many units have reached     *)
(* each point.  The one-way delay is shorter than the three seconds of a   *)
(* join, so that a pump never outlasts one.                                *)
(***************************************************************************)
EXTENDS Integers, Sequences

CONSTANTS
    Units,         \* payload of the bulk workload, rounds of the interactive one
    MaxInterrupts  \* bound: SIGINTs that reach the main thread

ASSUME SampleAssumption == Units \in Nat \ {0} /\ MaxInterrupts \in Nat

VARIABLES
    workload,    \* "bulk" or "interactive"
    pc,          \* control point of the main thread
    failure,     \* what the finally clause will raise again
    interrupts,  \* SIGINTs so far
    server,      \* TimedInetdServer
    relay,       \* DelayedRelay; listed: its _sockets hold the connections
    pump,        \* pump[d]: the thread that forwards direction d
    conn,        \* conn[c]: the relay's socket of connection c
    fin,         \* fin[d]: the relay has shut direction d down
    count,       \* count[d]: units written, received by the pump, sent on, read
    client,      \* the ssh process
    sshd         \* the sshd process

threadVars == <<server, relay, pump>>
netVars    == <<conn, fin, count>>
sampleVars == <<workload, pc, failure, interrupts, server, relay, pump, conn, fin, count,
                client, sshd>>

Direction  == {"request", "reply"}
Source     == [request |-> "front", reply |-> "back"]
Target     == [request |-> "back", reply |-> "front"]
Running    == {"up", "ending"}
Accepted   == {"clean", "fatal"}

\* The bulk client sends its command; the interactive one a warm-up, the
\* rounds and the end of its input.  The last reply carries the exit status.
Requests == IF workload = "bulk" THEN 1 ELSE Units + 2
Replies  == IF workload = "bulk" THEN Units + 1 ELSE Units + 2

\* The objects that _run_sample builds.
Fresh(w) ==
    /\ workload' = w /\ failure' = "none"
    /\ server' = [thread |-> "off", stop |-> FALSE, error |-> FALSE]
    /\ relay' = [thread |-> "off", stop |-> FALSE, error |-> FALSE, listed |-> FALSE]
    /\ pump' = [d \in Direction |-> "off"]
    /\ conn' = [c \in {"front", "back"} |-> "none"]
    /\ fin' = [d \in Direction |-> FALSE]
    /\ count' = [d \in Direction |-> [written |-> 0, pumped |-> 0, sent |-> 0, read |-> 0]]
    /\ client' = "none" /\ sshd' = "none"
-----------------------------------------------------------------------------
(* The thread of TimedInetdServer.                                         *)

\* A port found by _available_port may be taken before it is bound.
ServerBind ==
    /\ server.thread = "new"
    /\ server' = IF server.stop THEN [server EXCEPT !.thread = "done"]
                 ELSE [server EXCEPT !.thread = "listening"]
    /\ UNCHANGED <<workload, pc, failure, interrupts, relay, pump, netVars, client, sshd>>

ServerBindFails ==
    /\ server.thread = "new"
    /\ server' = [server EXCEPT !.thread = "done", !.error = TRUE]
    /\ UNCHANGED <<workload, pc, failure, interrupts, relay, pump, netVars, client, sshd>>

ServerAccept ==
    /\ server.thread = "listening"
    /\ \/ conn["back"] = "open" /\ server' = [server EXCEPT !.thread = "accepted"]
       \/ server.stop /\ \E e \in BOOLEAN : server' = [server EXCEPT !.thread = "done", !.error = e]
    /\ UNCHANGED <<workload, pc, failure, interrupts, relay, pump, netVars, client, sshd>>

\* Popen; stop is not looked at again.
ServerSpawn ==
    /\ server.thread = "accepted"
    /\ \/ server' = [server EXCEPT !.thread = "running"] /\ sshd' = "up"
       \/ server' = [server EXCEPT !.thread = "done", !.error = TRUE] /\ UNCHANGED sshd
    /\ UNCHANGED <<workload, pc, failure, interrupts, relay, pump, netVars, client>>

\* process.wait() returns when GNU time has ended.
ServerReap ==
    /\ server.thread = "running" /\ sshd # "up"
    /\ server' = [server EXCEPT !.thread = "done"]
    /\ UNCHANGED <<workload, pc, failure, interrupts, relay, pump, netVars, client, sshd>>

ServerThread == ServerBind \/ ServerAccept \/ ServerSpawn \/ ServerReap
-----------------------------------------------------------------------------
(* The threads of DelayedRelay.                                            *)

RelayBind ==
    /\ relay.thread = "new"
    /\ relay' = [relay EXCEPT !.thread = IF relay.stop THEN "done" ELSE "listening"]
    /\ UNCHANGED <<workload, pc, failure, interrupts, server, pump, netVars, client, sshd>>

RelayBindFails ==
    /\ relay.thread = "new"
    /\ relay' = [relay EXCEPT !.thread = "done", !.error = TRUE]
    /\ UNCHANGED <<workload, pc, failure, interrupts, server, pump, netVars, client, sshd>>

RelayAccept ==
    /\ relay.thread = "listening"
    /\ \/ conn["front"] = "open" /\ relay' = [relay EXCEPT !.thread = "accepted"]
       \/ relay.stop /\ \E e \in BOOLEAN : relay' = [relay EXCEPT !.thread = "done", !.error = e]
    /\ UNCHANGED <<workload, pc, failure, interrupts, server, pump, netVars, client, sshd>>

\* create_connection, which stop cannot reach: the connections are entered in
\* _sockets afterwards.  A refused one drops the client's connection as well.
RelayConnect ==
    /\ relay.thread = "accepted"
    /\ \/ /\ server.thread = "listening"
          /\ relay' = [relay EXCEPT !.thread = "pumping", !.listed = TRUE]
          /\ conn' = [conn EXCEPT !["back"] = "open"]
          /\ pump' = [d \in Direction |-> "recv"]
       \/ /\ server.thread = "done"
          /\ relay' = [relay EXCEPT !.thread = "done", !.error = TRUE]
          /\ conn' = [conn EXCEPT !["front"] = "closed"]
          /\ UNCHANGED pump
    /\ UNCHANGED <<workload, pc, failure, interrupts, server, fin, count, client, sshd>>

PeerGone(c) ==
    IF c = "front" THEN client \notin Running
    ELSE sshd \notin Running /\ (sshd # "none" \/ server.thread = "done")

\* recv: data, the end of the stream, which is passed on, or an error, which
\* is neither passed on nor recorded.
PumpRecv(d) ==
    /\ pump[d] = "recv"
    /\ \/ /\ conn[Source[d]] = "open" /\ count[d].pumped < count[d].written
          /\ count' = [count EXCEPT ![d].pumped = @ + 1]
          /\ pump' = [pump EXCEPT ![d] = "hold"]
          /\ UNCHANGED fin
       \/ /\ PeerGone(Source[d]) /\ count[d].pumped = count[d].written
          /\ fin' = [fin EXCEPT ![d] = TRUE]
          /\ pump' = [pump EXCEPT ![d] = "done"]
          /\ UNCHANGED count
       \/ /\ relay.stop \/ conn[Source[d]] = "closed" \/ PeerGone(Source[d])
          /\ pump' = [pump EXCEPT ![d] = "done"]
          /\ UNCHANGED <<fin, count>>
    /\ UNCHANGED <<workload, pc, failure, interrupts, server, relay, conn, client, sshd>>

\* The delay and sendall, whose error ends the pump too.
PumpSend(d) ==
    /\ pump[d] = "hold"
    /\ \/ /\ conn[Target[d]] = "open"
          /\ count' = [count EXCEPT ![d].sent = @ + 1]
          /\ pump' = [pump EXCEPT ![d] = "recv"]
       \/ /\ conn[Target[d]] = "closed" \/ PeerGone(Target[d])
          /\ pump' = [pump EXCEPT ![d] = "done"]
          /\ UNCHANGED count
    /\ UNCHANGED <<workload, pc, failure, interrupts, server, relay, conn, fin, client, sshd>>

RelayJoin ==
    /\ relay.thread = "pumping" /\ \A d \in Direction : pump[d] = "done"
    /\ relay' = [relay EXCEPT !.thread = "done"]
    /\ UNCHANGED <<workload, pc, failure, interrupts, server, pump, netVars, client, sshd>>

RelayThreads ==
    \/ RelayBind \/ RelayAccept \/ RelayConnect \/ RelayJoin
    \/ \E d \in Direction : PumpRecv(d) \/ PumpSend(d)
-----------------------------------------------------------------------------
(* The two processes.                                                      *)

\* sshd reads, and answers: the whole bulk output once it has the command,
\* one line for each line of the interactive workload.
SshdServe ==
    /\ sshd = "up" /\ conn["back"] = "open"
    /\ \/ /\ count["request"].read < count["request"].sent
          /\ count' = [count EXCEPT !["request"].read = @ + 1]
       \/ /\ count["reply"].written <
                IF workload = "interactive" THEN count["request"].read
                ELSE IF count["request"].read = 0 THEN 0 ELSE Replies
          /\ count' = [count EXCEPT !["reply"].written = @ + 1]
    /\ UNCHANGED <<workload, pc, failure, interrupts, threadVars, conn, fin, client, sshd>>

\* The end of its input, after which inetd's monitor exits with 0 or 255.
SshdEof ==
    /\ sshd = "up"
    /\ conn["back"] = "closed" \/ (fin["request"] /\ count["request"].read = count["request"].sent)
    /\ sshd' = "clean"
    /\ UNCHANGED <<workload, pc, failure, interrupts, threadVars, netVars, client>>

\* The exit of ssh after the last reply; its exit when the connection ends first.
ClientExits ==
    /\ client = "up"
    /\ \/ count["reply"].read = Replies /\ client' = "clean"
       \/ /\ \/ conn["front"] = "closed"
             \/ fin["reply"] /\ count["reply"].read = count["reply"].sent
          /\ count["reply"].read < Replies /\ client' = "failed"
    /\ UNCHANGED <<workload, pc, failure, interrupts, threadVars, netVars, sshd>>

\* A process that was sent SIGTERM is gone at last.
Terminates ==
    /\ \/ client = "ending" /\ client' = "gone" /\ UNCHANGED sshd
       \/ sshd = "ending" /\ sshd' = "gone" /\ UNCHANGED client
    /\ UNCHANGED <<workload, pc, failure, interrupts, threadVars, netVars>>

\* ssh or sshd fails; sshd's fatal() exits with 255 like its monitor.
Crashes ==
    /\ \/ client = "up" /\ client' = "failed" /\ UNCHANGED sshd
       \/ sshd = "up" /\ sshd' \in {"failed", "fatal"} /\ UNCHANGED client
    /\ UNCHANGED <<workload, pc, failure, interrupts, threadVars, netVars>>

Processes == SshdServe \/ SshdEof \/ ClientExits \/ Terminates
-----------------------------------------------------------------------------
(* The main thread.                                                        *)

Goto(label) == pc' = label /\ UNCHANGED failure
Raise       == pc' = "finally_relay" /\ failure' = "error"

StartServer ==
    /\ pc = "start_server"
    /\ server' = [server EXCEPT !.thread = "new"]
    /\ Goto("await_server")
    /\ UNCHANGED <<workload, interrupts, relay, pump, netVars, client, sshd>>

\* ready.wait(5) may expire, and errors are looked at once.
AwaitServer ==
    /\ pc = "await_server"
    /\ IF server.thread = "new" \/ server.error THEN Raise
       ELSE Goto("await_relay")
    /\ relay' = IF server.thread = "new" \/ server.error THEN relay
                ELSE [relay EXCEPT !.thread = "new"]
    /\ UNCHANGED <<workload, interrupts, server, pump, netVars, client, sshd>>

AwaitRelay ==
    /\ pc = "await_relay"
    /\ IF relay.thread = "new" \/ relay.error THEN Raise ELSE Goto("start_client")
    /\ UNCHANGED <<workload, interrupts, threadVars, netVars, client, sshd>>

\* Popen, and the first request.
StartClient ==
    /\ pc = "start_client"
    /\ \/ /\ client' = "up"
          /\ conn' = [conn EXCEPT !["front"] = "open"]
          /\ count' = [count EXCEPT !["request"].written = 1]
          /\ Goto("workload")
       \/ Raise /\ UNCHANGED <<client, conn, count>>
    /\ UNCHANGED <<workload, interrupts, threadVars, fin, sshd>>

\* _run_bulk and _run_interactive: a line is written when the one before was
\* answered; data is read when there is some.
Exchange ==
    /\ pc = "workload" /\ client = "up"
    /\ \/ /\ workload = "interactive"
          /\ count["request"].written = count["reply"].read
          /\ count["request"].written < Requests
          /\ count' = [count EXCEPT !["request"].written = @ + 1]
       \/ /\ conn["front"] = "open" /\ count["reply"].read < count["reply"].sent
          /\ count' = [count EXCEPT !["reply"].read = @ + 1]
    /\ UNCHANGED <<workload, pc, failure, interrupts, threadVars, conn, fin, client, sshd>>

\* A wrong or oversized answer raises RuntimeError, which no clause of
\* _run_interactive catches: ssh is left running.
Corrupted ==
    /\ pc = "workload" /\ workload = "interactive" /\ count["reply"].read > 0
    /\ Raise
    /\ UNCHANGED <<workload, interrupts, threadVars, netVars, client, sshd>>

\* Mutant of ClientDone: the status and the size are not looked at.
ClientDoneUnchecked ==
    /\ pc = "workload" /\ client \notin Running
    /\ Goto("stop_relay")
    /\ UNCHANGED <<workload, interrupts, threadVars, netVars, client, sshd>>

\* The end of ssh's output, its status and the size of the payload.
ClientDone ==
    /\ pc = "workload" /\ client \notin Running
    /\ IF client = "clean" /\ count["reply"].read = Replies THEN Goto("stop_relay") ELSE Raise
    /\ UNCHANGED <<workload, interrupts, threadVars, netVars, client, sshd>>

\* Mutant of Deadline: pipes are read without one.
DeadlineMissing == pc = "workload" /\ client \notin Running /\ ClientDone

\* The deadline: _terminate_group, and the timeout is raised again.
Deadline ==
    /\ pc = "workload"
    /\ client' = IF client = "up" THEN "ending" ELSE client
    /\ Raise
    /\ UNCHANGED <<workload, interrupts, threadVars, netVars, sshd>>

\* DelayedRelay.stop up to its join: it closes what _sockets holds by then.
CloseRelay ==
    /\ relay' = [relay EXCEPT !.stop = TRUE]
    /\ conn' = IF relay.listed THEN [c \in DOMAIN conn |-> "closed"] ELSE conn

\* The join of three seconds ends before a connection attempt of five.
RelayJoined == relay.thread \in {"off", "accepted", "done"}

StopRelay ==
    /\ pc \in {"stop_relay", "finally_relay"}
    /\ CloseRelay
    /\ Goto(IF pc = "stop_relay" THEN "join_relay" ELSE "finally_join_relay")
    /\ UNCHANGED <<workload, interrupts, server, pump, fin, count, client, sshd>>

JoinRelay ==
    /\ pc \in {"join_relay", "finally_join_relay"} /\ RelayJoined
    /\ Goto(IF pc = "join_relay" THEN "await_sshd" ELSE "finally_server")
    /\ UNCHANGED <<workload, interrupts, threadVars, netVars, client, sshd>>

\* Mutant of AwaitSshd: wait(5) returns without a look at finished.
AwaitSshdBlindly ==
    /\ pc = "await_sshd"
    /\ IF server.error \/ relay.error THEN Raise ELSE Goto("finally_relay")
    /\ UNCHANGED <<workload, interrupts, threadVars, netVars, client, sshd>>

\* server.wait(5): it expires, or looks at errors and the status, of which 0
\* and 255 will do; then the relay's errors are looked at, and the files of
\* GNU time and the log are read, which may be missing or malformed (a
\* ValueError, which main does not catch).
AwaitSshd ==
    /\ pc = "await_sshd"
    /\ IF server.thread # "done" THEN pc' = "stop_sshd" /\ failure' = "error"
       ELSE IF server.error \/ sshd \notin Accepted \/ relay.error THEN Raise
       ELSE pc' = "finally_relay" /\ failure' \in {failure, "error", "uncaught"}
    /\ UNCHANGED <<workload, interrupts, threadVars, netVars, client, sshd>>

\* TimedInetdServer.stop up to its join: the group of a process that was not
\* started yet is not terminated.
StopServer ==
    /\ pc \in {"stop_sshd", "finally_server"}
    /\ server' = [server EXCEPT !.stop = TRUE]
    /\ sshd' = IF sshd = "up" THEN "ending" ELSE sshd
    /\ Goto(IF pc = "stop_sshd" THEN "finally_relay" ELSE "finally_join_server")
    /\ UNCHANGED <<workload, interrupts, relay, pump, netVars, client>>

\* The join; it expires when sshd was spawned after stop.
JoinServer ==
    /\ pc = "finally_join_server"
    /\ \/ server.thread \in {"off", "done"}
       \/ server.thread \in {"accepted", "running"} /\ sshd \in {"none", "up"}
    /\ Goto("sampled")
    /\ UNCHANGED <<workload, interrupts, threadVars, netVars, client, sshd>>

\* SIGINT during a wait; one that comes in the finally clause skips what is
\* left of it.
Interrupt ==
    /\ interrupts < MaxInterrupts /\ interrupts' = interrupts + 1
    /\ \/ pc \in {"await_server", "await_relay", "workload", "join_relay", "await_sshd"}
          /\ pc' = "finally_relay"
       \/ pc \in {"finally_join_relay", "finally_join_server"} /\ pc' = "sampled"
    /\ failure' = "interrupt"
    /\ UNCHANGED <<workload, threadVars, netVars, client, sshd>>

SampleStep ==
    \/ StartServer \/ AwaitServer \/ AwaitRelay \/ StartClient \/ Exchange \/ ClientDone
    \/ Deadline \/ StopRelay \/ JoinRelay \/ AwaitSshd \/ StopServer \/ JoinServer

\* Failures of the outside world.
Misfortune == ServerBindFails \/ RelayBindFails \/ Crashes \/ Corrupted \/ Interrupt
-----------------------------------------------------------------------------
=============================================================================
