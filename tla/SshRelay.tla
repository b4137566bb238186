------------------------------ MODULE SshRelay ------------------------------
(***************************************************************************)
(* One SSH capture: capture_ssh (the main thread), record_ssh_streams (the *)
(* relay thread), ssh_reader_thread on the client's stderr, and the two    *)
(* external OpenSSH processes.                                             *)
(*                                                                         *)
(* The relay forwards one connection and appends what it reads to a file   *)
(* per direction.  A direction d runs sender -> relay -> receiver.  Byte   *)
(* streams keep their order, so a stream is represented by how many of its *)
(* octets have reached each point.  Both relay sockets are non-blocking.   *)
(***************************************************************************)
EXTENDS Integers, Sequences, FiniteSets

CONSTANTS
    Total,       \* Total[d]: octets that the sender of d has to send
    Room,        \* octets that a socket's buffers hold
    Exchanges    \* bound: key exchanges of the session

Dir == {"c2s", "s2c"}
Other(d) == IF d = "c2s" THEN "s2c" ELSE "c2s"

ASSUME RelayAssumption ==
    /\ Total \in [Dir -> Nat] /\ Room \in Nat \ {0}
    /\ Exchanges \in Nat \ {0}

VARIABLES
    connected,  \* "c2s": the client is connected to the relay; "s2c": the relay to sshd
    wrote,      \* wrote[d]: octets written by the sender
    toRelay,    \* toRelay[d]: octets waiting in the relay's receive buffer
    recorded,   \* recorded[d]: octets in the stream file, flushed
    toPeer,     \* toPeer[d]: octets waiting in the receiver's buffer
    got,        \* got[d]: octets that the receiver has read
    closed,     \* closed[d]: the sender of d has closed its socket
    reset,      \* reset[d]: it did so with data unread, or was sent more data
    shut,       \* shut[d]: the relay has shut down writing to the receiver of d
    emitted,    \* hook records written by the client to stderr
    seen,       \* hook records stored by ssh_reader_thread
    rpc,        \* relay control point
    active, readable, hand,  \* the relay's locals
    stop, errors,            \* proxy_stop, proxy_errors
    mpc,        \* control point of capture_ssh
    clientOk,   \* the client exited with status 0 and its marker was seen
    recoveries, \* the scalars that _quantum_recoveries returned
    outcome     \* how capture_ssh ended

streamVars == <<wrote, toRelay, recorded, toPeer, got>>
peerVars   == <<connected, closed, reset>>
hookVars   == <<emitted, seen>>
relayVars  == <<rpc, active, readable, hand, shut>>
collectVars == <<mpc, clientOk, recoveries, outcome>>
captureVars == <<streamVars, peerVars, hookVars, relayVars, stop, errors, collectVars>>

Nothing == [dir |-> "c2s", octets |-> 0]

RelayInit ==
    /\ wrote = [d \in Dir |-> 0] /\ toRelay = [d \in Dir |-> 0]
    /\ recorded = [d \in Dir |-> 0] /\ toPeer = [d \in Dir |-> 0] /\ got = [d \in Dir |-> 0]
    /\ connected = {} /\ closed = [d \in Dir |-> FALSE] /\ reset = [d \in Dir |-> FALSE]
    /\ shut = [d \in Dir |-> FALSE]
    /\ emitted = 0 /\ seen = 0
    /\ rpc = "accept" /\ active = Dir /\ readable = {} /\ hand = Nothing
    /\ stop = FALSE /\ errors = FALSE
    /\ mpc = "client" /\ clientOk = FALSE
    /\ recoveries = <<>> /\ outcome = "running"
-----------------------------------------------------------------------------
(* The OpenSSH client (sender of c2s) and server (sender of s2c).          *)

\* The kernel completes the client's connection before the relay accepts it.
Connect ==
    /\ ~closed["c2s"] /\ rpc = "accept"
    /\ "c2s" \notin connected
    /\ connected' = connected \union {"c2s"}
    /\ UNCHANGED <<streamVars, closed, reset, hookVars, relayVars, stop, errors, collectVars>>

Write(d) ==
    /\ d \in connected /\ ~closed[d]
    /\ wrote[d] < Total[d] /\ toRelay[d] < Room
    /\ wrote' = [wrote EXCEPT ![d] = @ + 1]
    /\ toRelay' = [toRelay EXCEPT ![d] = @ + 1]
    /\ UNCHANGED <<recorded, toPeer, got, peerVars, hookVars, relayVars, stop, errors, collectVars>>

\* The sender of Other(d) is the receiver of d.
Read(d) ==
    /\ ~closed[Other(d)]
    /\ toPeer[d] > 0
    /\ got' = [got EXCEPT ![d] = @ + 1]
    /\ toPeer' = [toPeer EXCEPT ![d] = @ - 1]
    /\ UNCHANGED <<wrote, toRelay, recorded, peerVars, hookVars, relayVars, stop, errors, collectVars>>

\* The client's hook prints a private and then a public value per exchange.
EmitHook ==
    /\ "c2s" \in connected /\ ~closed["c2s"]
    /\ emitted < 2 * Exchanges
    /\ emitted' = emitted + 1
    /\ UNCHANGED <<streamVars, peerVars, seen, relayVars, stop, errors, collectVars>>

\* A close with data unread makes the kernel reset the connection.
Close(d) ==
    /\ closed' = [closed EXCEPT ![d] = TRUE]
    /\ reset' = [reset EXCEPT ![d] = @ \/ toPeer[Other(d)] > 0]
    /\ UNCHANGED connected

\* The client is done: it has sent and received everything.
ClientEnds ==
    /\ ~closed["c2s"]
    /\ wrote["c2s"] = Total["c2s"] /\ got["s2c"] = Total["s2c"]
    /\ emitted = 2 * Exchanges
    /\ Close("c2s")
    /\ clientOk' = TRUE
    /\ UNCHANGED <<streamVars, hookVars, relayVars, stop, errors, mpc, recoveries, outcome>>

\* The client gives up, before or after connecting.
ClientFails ==
    /\ ~closed["c2s"]
    /\ Close("c2s")
    /\ UNCHANGED <<streamVars, hookVars, relayVars, stop, errors, collectVars>>

\* sshd -d serves one connection and exits when its client is gone.
ServerExits ==
    /\ ~closed["s2c"]
    /\ shut["c2s"] /\ toPeer["c2s"] = 0
    /\ Close("s2c")
    /\ UNCHANGED <<streamVars, hookVars, relayVars, stop, errors, collectVars>>
-----------------------------------------------------------------------------
(* record_ssh_streams                                                      *)

\* A mutant of RelayFails: the exception is not appended to proxy_errors.
RelayFailsQuietly ==
    /\ rpc' = "done"
    /\ UNCHANGED errors

RelayFails ==
    /\ errors' = TRUE
    /\ rpc' = "done"     \* the sockets stay open: the exception holds them

\* accept() is retried until the client is there or proxy_stop is set; then
\* the connection to sshd is opened, which fails when sshd is gone.
Accept ==
    /\ rpc = "accept"
    /\ \/ /\ "c2s" \in connected /\ ~closed["s2c"]
          /\ connected' = connected \union {"s2c"}
          /\ rpc' = "select"
          /\ UNCHANGED errors
       \/ /\ "c2s" \in connected /\ closed["s2c"]
          /\ RelayFails
          /\ UNCHANGED connected
       \/ /\ "c2s" \notin connected /\ stop
          /\ rpc' = "done"
          /\ UNCHANGED <<errors, connected>>
    /\ UNCHANGED <<streamVars, closed, reset, hookVars, active, readable, hand, shut, stop, collectVars>>

\* Data, end of file or a reset makes a socket readable.
Readable(d) == d \in active /\ (toRelay[d] > 0 \/ closed[d])

Select ==
    /\ rpc = "select"
    /\ IF active = {} \/ stop
       THEN rpc' = "done" /\ UNCHANGED readable
       ELSE /\ \E d \in Dir : Readable(d)
            /\ readable' = {d \in Dir : Readable(d)}
            /\ rpc' = "recv"
    /\ UNCHANGED <<streamVars, peerVars, hookVars, active, hand, shut, stop, errors, collectVars>>

\* select() returns to the loop condition when every readable socket is done.
Loop ==
    /\ rpc = "recv" /\ readable = {}
    /\ rpc' = "select"
    /\ UNCHANGED <<streamVars, peerVars, hookVars, active, readable, hand, shut, stop, errors, collectVars>>

\* A mutant of Record: the two entries of "outputs" are swapped.
RecordSwapped(d, n) == recorded' = [recorded EXCEPT ![Other(d)] = @ + n]

\* handle.write(data); handle.flush()
Record(d, n) == recorded' = [recorded EXCEPT ![d] = @ + n]

\* recv() of any part of the waiting data; write and flush; then sendall().
Recv(d) ==
    /\ rpc = "recv" /\ d \in readable
    /\ readable' = readable \ {d}
    /\ \/ /\ reset[d]
          /\ RelayFails
          /\ UNCHANGED <<toRelay, recorded, active, hand, shut>>
       \/ /\ ~reset[d] /\ toRelay[d] > 0
          /\ \E n \in 1..toRelay[d] :
                /\ toRelay' = [toRelay EXCEPT ![d] = @ - n]
                /\ Record(d, n)
                /\ hand' = [dir |-> d, octets |-> n]
          /\ rpc' = "send"
          /\ UNCHANGED <<active, shut, errors>>
       \/ /\ ~reset[d] /\ toRelay[d] = 0
          /\ active' = active \ {d}
          /\ shut' = [shut EXCEPT ![d] = TRUE]
          /\ UNCHANGED <<rpc, toRelay, recorded, hand, errors>>
    /\ UNCHANGED <<wrote, toPeer, got, peerVars, hookVars, stop, collectVars>>

\* sendall() on a non-blocking socket: what does not fit raises
\* BlockingIOError; a peer that is gone answers with a reset.
SendAll ==
    LET d == hand.dir
        free == Room - toPeer[d]
    IN  /\ rpc = "send"
        /\ \/ /\ ~closed[Other(d)] /\ hand.octets <= free
              /\ toPeer' = [toPeer EXCEPT ![d] = @ + hand.octets]
              /\ rpc' = "recv"
              /\ UNCHANGED <<reset, errors>>
           \/ /\ ~closed[Other(d)] /\ hand.octets > free
              /\ toPeer' = [toPeer EXCEPT ![d] = Room]
              /\ RelayFails
              /\ UNCHANGED reset
           \/ /\ closed[Other(d)] /\ ~reset[Other(d)]
              /\ reset' = [reset EXCEPT ![Other(d)] = TRUE]
              /\ rpc' = "recv"
              /\ UNCHANGED <<toPeer, errors>>
           \/ /\ closed[Other(d)] /\ reset[Other(d)]
              /\ RelayFails
              /\ UNCHANGED <<toPeer, reset>>
        /\ hand' = Nothing
        /\ UNCHANGED <<wrote, toRelay, recorded, got, connected, closed, hookVars, active, readable, shut, stop, collectVars>>
-----------------------------------------------------------------------------
(* ssh_reader_thread on the client's stderr.                               *)

ReadHook ==
    /\ seen < emitted
    /\ seen' = seen + 1
    /\ UNCHANGED <<streamVars, peerVars, emitted, relayVars, stop, errors, collectVars>>

ReaderDone == closed["c2s"] /\ seen = emitted
-----------------------------------------------------------------------------
(* capture_ssh, from the client's start to its result.                     *)

MainOnly == UNCHANGED <<streamVars, hookVars, relayVars, errors>>

\* client.wait(timeout): the client exits, or is terminated at the deadline.
WaitClient ==
    /\ mpc = "client"
    /\ \/ closed["c2s"] /\ UNCHANGED peerVars
       \/ ~closed["c2s"] /\ Close("c2s")
    /\ mpc' = "server"
    /\ UNCHANGED <<stop, clientOk, recoveries, outcome>> /\ MainOnly

\* After half a second sshd is terminated, unless it has exited.
TerminateServer ==
    /\ mpc = "server"
    /\ IF closed["s2c"] THEN UNCHANGED peerVars ELSE Close("s2c")
    /\ mpc' = "join"
    /\ UNCHANGED <<stop, clientOk, recoveries, outcome>> /\ MainOnly

\* Mutant of JoinRecorder: a join without a timeout.
JoinRecorderForever ==
    /\ mpc = "join" /\ rpc = "done"
    /\ mpc' = "readers"
    /\ UNCHANGED <<peerVars, stop, clientOk, recoveries, outcome>> /\ MainOnly

\* t_proxy.join(timeout=2), then proxy_stop and a second join: the relay sees
\* the event after at most one select() or accept() of 0.2 seconds.
JoinRecorder ==
    /\ mpc = "join"
    /\ \/ rpc = "done" /\ mpc' = "readers" /\ UNCHANGED stop
       \/ rpc # "done" /\ ~stop /\ stop' = TRUE /\ UNCHANGED mpc
    /\ UNCHANGED <<peerVars, clientOk, recoveries, outcome>> /\ MainOnly

\* hook_output["records"]: value is the exchange that the scalar belongs to.
Records ==
    [i \in 1..seen |-> [name  |-> IF i % 2 = 1 THEN "EPHEMERAL_PRIV" ELSE "EPHEMERAL_PUB",
                        value |-> (i + 1) \div 2]]

\* Every record that is not a public value must be followed by one.
Unpaired(records) ==
    \/ Len(records) % 2 = 1
    \/ \E i \in DOMAIN records :
          records[i].name # IF i % 2 = 1 THEN "EPHEMERAL_PRIV" ELSE "EPHEMERAL_PUB"

\* A mutant of _quantum_recoveries: only the legacy scalar keys are used.
FirstRecoveryOnly(records) ==
    IF records = <<>> THEN <<>>
    ELSE <<[private |-> records[1].value, public |-> records[2].value]>>

_quantum_recoveries(records) ==
    [i \in 1..(Len(records) \div 2) |->
        [private |-> records[2 * i - 1].value, public |-> records[2 * i].value]]

\* The reader threads are joined with a timeout; what they have stored by
\* then is paired.
Collect ==
    /\ mpc = "readers"
    /\ IF errors \/ ~clientOk \/ Unpaired(Records)
       THEN /\ outcome' = IF errors THEN "relay_error"
                          ELSE IF ~clientOk THEN "client_error" ELSE "unpaired"
            /\ UNCHANGED recoveries
       ELSE /\ recoveries' = _quantum_recoveries(Records)
            /\ outcome' = IF recoveries' = <<>> THEN "no_hook" ELSE "ok"
    /\ mpc' = "end"
    /\ UNCHANGED <<peerVars, stop, clientOk>> /\ MainOnly

Relay == Accept \/ Select \/ Loop \/ SendAll \/ \E d \in Dir : Recv(d)
Main == WaitClient \/ TerminateServer \/ JoinRecorder \/ Collect
Endpoints == Connect \/ EmitHook \/ ClientEnds \/ ClientFails \/ ServerExits \/ \E d \in Dir : Write(d) \/ Read(d)

RelayNext == Relay \/ Main \/ Endpoints \/ ReadHook

RelaySpec == RelayInit /\ [][RelayNext]_captureVars

\* The operating system schedules both Python threads; nothing is assumed of
\* the external programs.
FairRelaySpec == RelaySpec /\ WF_captureVars(Relay) /\ WF_captureVars(Main)
-----------------------------------------------------------------------------
\* The counters of the relay and of capture_ssh have their types; the reader
\* thread stores no hook record twice.
TypeOK ==
    /\ wrote \in [Dir -> Nat] /\ toRelay \in [Dir -> 0..Room] /\ recorded \in [Dir -> Nat]
    /\ toPeer \in [Dir -> 0..Room] /\ got \in [Dir -> Nat]
    /\ connected \subseteq Dir
    /\ closed \in [Dir -> BOOLEAN] /\ reset \in [Dir -> BOOLEAN] /\ shut \in [Dir -> BOOLEAN]
    /\ emitted \in 0..(2 * Exchanges) /\ seen \in 0..emitted
    /\ rpc \in {"accept", "select", "recv", "send", "done"}
    /\ active \subseteq Dir /\ readable \subseteq Dir
    /\ hand \in [dir: Dir, octets: Nat]
    /\ stop \in BOOLEAN /\ errors \in BOOLEAN /\ clientOk \in BOOLEAN
    /\ mpc \in {"client", "server", "join", "readers", "end"}
    /\ recoveries \in Seq([private: 1..Exchanges, public: 1..Exchanges])
    /\ outcome \in {"running", "relay_error", "client_error", "unpaired", "no_hook", "ok"}

\* README: the relay "records the two exact byte streams".  No octet reaches an
\* endpoint unless it is already in the stream file, none is recorded that was
\* not sent, and none is lost between the sender and the file.
RecordedBeforeForwarded ==
    \A d \in Dir : /\ got[d] + toPeer[d] <= recorded[d]
                   /\ recorded[d] + toRelay[d] = wrote[d]

\* A capture that ends well holds everything the client received, even when
\* the relay had to be stopped, and the whole of both streams when the relay
\* ended by itself.
OkIsComplete ==
    outcome = "ok" =>
        /\ recorded["s2c"] = Total["s2c"]
        /\ ~stop => \A d \in Dir : recorded[d] = wrote[d] /\ closed[d]

\* _quantum_recoveries pairs "each private/public hook record without collapsing
\* later rekeys": whenever the capture ends well, even with a reader thread cut
\* off by its join timeout, scalar i belongs to exchange i, and no exchange is
\* missing when the reader had seen the end of the client's output.
ScalarPerExchange ==
    [][outcome' = "ok" =>
        /\ \A i \in DOMAIN recoveries' : recoveries'[i] = [private |-> i, public |-> i]
        /\ ReaderDone /\ outcome = "running" => Len(recoveries') = Exchanges]_captureVars

\* capture_ssh returns or raises whatever the client, sshd and the relay do:
\* every wait in it has a timeout.
CaptureEnds == <>(mpc = "end")

\* "Forward one loopback SSH connection while recording its wire bytes": as long
\* as both endpoints keep the connection open, forwarding reports no error.
ForwardsOpenConnection ==
    errors => \E d \in Dir : closed[d]
=============================================================================
