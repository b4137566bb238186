--------------------------- MODULE SshCaptureProofs --------------------------
(***************************************************************************)
(* The two programs that run an SSH session through a relay.               *)
(*                                                                         *)
(* SshRelay: what the recorder of one SSH capture guarantees for streams   *)
(* and socket buffers of every size and for every number of key exchanges, *)
(* whichever of its threads and endpoints is slow or fails.                *)
(*                                                                         *)
(* RekeyBenchmark: what the benchmark publishes, for workloads of every    *)
(* size, every schedule and every number of repetitions and interrupts: a  *)
(* kept sample carried its whole workload, nothing of it is left when the  *)
(* next begins, and the directories of a run that failed hold what it says *)
(* it kept.                                                                *)
(***************************************************************************)
EXTENDS SshRelay, RekeyBenchmark, SequenceLemmas, FiniteSetTheorems, FunctionTheorems, TLAPS
-----------------------------------------------------------------------------
(* SshRelay.                                                               *)


\* The part of TypeOK that the arguments use.
RelayTyped ==
    /\ wrote \in [Dir -> Nat] /\ toRelay \in [Dir -> 0..Room] /\ recorded \in [Dir -> Nat]
    /\ toPeer \in [Dir -> 0..Room] /\ got \in [Dir -> Nat]
    /\ closed \in [Dir -> BOOLEAN]
    /\ emitted \in 0..(2 * Exchanges) /\ seen \in 0..emitted
    /\ rpc \in {"accept", "select", "recv", "send", "done"}
    /\ active \subseteq Dir /\ readable \subseteq Dir
    /\ hand \in [dir: Dir, octets: Nat]
    /\ mpc \in {"client", "server", "join", "readers", "end"}

\* The octets in the relay's hand are in the file as well.
HandInv ==
    rpc = "send" => got[hand.dir] + toPeer[hand.dir] + hand.octets <= recorded[hand.dir]

RecordedInv == RecordedBeforeForwarded /\ HandInv

\* A client that exits well has sent and received everything, and has printed
\* all its hook records.
ClientInv ==
    /\ \A d \in Dir : wrote[d] <= Total[d]
    /\ clientOk => /\ closed["c2s"] /\ got["s2c"] = Total["s2c"]
                   /\ emitted = 2 * Exchanges

\* A direction is retired at its end of file, which nothing is read after.
RetiredInv ==
    /\ \A d \in readable : d \in active /\ (toRelay[d] > 0 \/ closed[d])
    /\ \A d \in Dir \ active : toRelay[d] = 0 /\ closed[d]

\* The relay is done for one of three reasons, and before main looks at it.
DoneInv ==
    /\ rpc = "done" => errors \/ stop \/ active = {}
    /\ mpc \in {"readers", "end"} => rpc = "done"
    /\ outcome = "ok" => mpc = "end" /\ ~errors /\ clientOk

Paired(records) == \A i \in DOMAIN records : records[i] = [private |-> i, public |-> i]
PairInv == outcome = "ok" => Paired(recoveries)

RelayInv ==
    RelayTyped /\ RecordedInv /\ ClientInv /\ RetiredInv /\ DoneInv /\ PairInv
-----------------------------------------------------------------------------
\* The initial state.
LEMMA RelayInvInit == RelayInit => RelayInv
<1> SUFFICES ASSUME RelayInit PROVE RelayInv
  OBVIOUS
<1>1. RelayTyped
  BY RelayAssumption DEF RelayInit, RelayTyped, Nothing, Dir
<1>2. RecordedInv
  BY DEF RelayInit, RecordedInv, RecordedBeforeForwarded, HandInv
<1>3. ClientInv /\ RetiredInv
  BY RelayAssumption DEF RelayInit, ClientInv, RetiredInv, Dir
<1>4. DoneInv /\ PairInv
  BY DEF RelayInit, DoneInv, PairInv
<1> QED BY <1>1, <1>2, <1>3, <1>4 DEF RelayInv

-----------------------------------------------------------------------------
(* One lemma per thread or group of endpoints' actions.                  *)
\* The relay thread.
LEMMA RelayKeeps ==
    ASSUME RelayInv, Relay
    PROVE  RelayInv'
<1> USE RelayAssumption DEF RelayInv, RecordedInv, streamVars, peerVars, hookVars, relayVars, collectVars
<1>1. CASE Accept
  <2> USE <1>1 DEF Accept, RelayFails
  <2>1. RelayTyped'
    BY DEF RelayTyped, Dir, Other
  <2>2. RecordedInv'
    BY DEF RelayTyped, RecordedBeforeForwarded, HandInv, Dir, Other
  <2>3. ClientInv' /\ RetiredInv'
    BY DEF RelayTyped, ClientInv, RetiredInv, RecordedBeforeForwarded, Dir, Other
  <2>4. DoneInv' /\ PairInv'
    BY DEF DoneInv, PairInv, RelayTyped
  <2> QED BY <2>1, <2>2, <2>3, <2>4
<1>2. CASE Select
  <2> USE <1>2 DEF Select, Readable
  <2>1. RelayTyped'
    BY DEF RelayTyped, Dir, Other
  <2>2. RecordedInv'
    BY DEF RelayTyped, RecordedBeforeForwarded, HandInv, Dir, Other
  <2>3. ClientInv' /\ RetiredInv'
    BY DEF RelayTyped, ClientInv, RetiredInv, RecordedBeforeForwarded, Dir, Other
  <2>4. DoneInv' /\ PairInv'
    BY DEF DoneInv, PairInv, RelayTyped
  <2> QED BY <2>1, <2>2, <2>3, <2>4
<1>3. CASE Loop
  <2> USE <1>3 DEF Loop
  <2>1. RelayTyped'
    BY DEF RelayTyped, Dir, Other
  <2>2. RecordedInv'
    BY DEF RelayTyped, RecordedBeforeForwarded, HandInv, Dir, Other
  <2>3. ClientInv' /\ RetiredInv'
    BY DEF RelayTyped, ClientInv, RetiredInv, RecordedBeforeForwarded, Dir, Other
  <2>4. DoneInv' /\ PairInv'
    BY DEF DoneInv, PairInv, RelayTyped
  <2> QED BY <2>1, <2>2, <2>3, <2>4
<1>4. CASE SendAll
  <2> USE <1>4 DEF SendAll, RelayFails, Nothing
  <2>1. RelayTyped'
    BY DEF RelayTyped, Dir, Other
  <2>2. RecordedInv'
    BY DEF RelayTyped, RecordedBeforeForwarded, HandInv, Dir, Other
  <2>3. ClientInv' /\ RetiredInv'
    BY DEF RelayTyped, ClientInv, RetiredInv, RecordedBeforeForwarded, Dir, Other
  <2>4. DoneInv' /\ PairInv'
    BY DEF DoneInv, PairInv, RelayTyped
  <2> QED BY <2>1, <2>2, <2>3, <2>4
<1>5. ASSUME NEW d \in Dir, Recv(d) PROVE RelayInv'
  <2> USE <1>5 DEF Recv, Record, RelayFails
  <2>1. RelayTyped'
    <3>1. CASE toRelay[d] > 0 /\ ~reset[d]
      <4>1. PICK n \in 1..toRelay[d] :
              /\ toRelay' = [toRelay EXCEPT ![d] = @ - n]
              /\ recorded' = [recorded EXCEPT ![d] = @ + n]
              /\ hand' = [dir |-> d, octets |-> n]
        BY <3>1 DEF RelayTyped
      <4>2. n \in Nat /\ toRelay' \in [Dir -> 0..Room] /\ recorded' \in [Dir -> Nat]
        BY <4>1 DEF RelayTyped
      <4>3. hand' \in [dir : Dir, octets : Nat]
        BY <4>1, <4>2
      <4>4. readable' \subseteq Dir /\ active' = active /\ rpc' = "send"
        BY <3>1 DEF RelayTyped
      <4> QED BY <4>2, <4>3, <4>4 DEF RelayTyped
    <3>2. CASE ~(toRelay[d] > 0 /\ ~reset[d])
      BY <3>2 DEF RelayTyped, Dir, Other
    <3> QED BY <3>1, <3>2
  <2>2. RecordedInv'
    BY DEF RelayTyped, RecordedBeforeForwarded, HandInv, Dir, Other
  <2>3. ClientInv' /\ RetiredInv'
    BY DEF RelayTyped, ClientInv, RetiredInv, RecordedBeforeForwarded, Dir, Other
  <2>4. DoneInv' /\ PairInv'
    BY DEF DoneInv, PairInv, RelayTyped
  <2> QED BY <2>1, <2>2, <2>3, <2>4
<1> QED BY <1>1, <1>2, <1>3, <1>4, <1>5 DEF Relay, Endpoints

\* The waits of capture_ssh.
LEMMA MainKeeps ==
    ASSUME RelayInv, WaitClient \/ TerminateServer \/ JoinRecorder
    PROVE  RelayInv'
<1> USE RelayAssumption DEF RelayInv, RecordedInv, streamVars, peerVars, hookVars, relayVars, collectVars
<1>1. CASE WaitClient
  <2> USE <1>1 DEF WaitClient, Close, MainOnly
  <2>1. RelayTyped'
    BY DEF RelayTyped, Dir, Other
  <2>2. RecordedInv'
    BY DEF RelayTyped, RecordedBeforeForwarded, HandInv, Dir, Other
  <2>3. ClientInv' /\ RetiredInv'
    BY DEF RelayTyped, ClientInv, RetiredInv, RecordedBeforeForwarded, Dir, Other
  <2>4. DoneInv' /\ PairInv'
    BY DEF DoneInv, PairInv, RelayTyped
  <2> QED BY <2>1, <2>2, <2>3, <2>4
<1>2. CASE TerminateServer
  <2> USE <1>2 DEF TerminateServer, Close, MainOnly
  <2>1. RelayTyped'
    BY DEF RelayTyped, Dir, Other
  <2>2. RecordedInv'
    BY DEF RelayTyped, RecordedBeforeForwarded, HandInv, Dir, Other
  <2>3. ClientInv' /\ RetiredInv'
    BY DEF RelayTyped, ClientInv, RetiredInv, RecordedBeforeForwarded, Dir, Other
  <2>4. DoneInv' /\ PairInv'
    BY DEF DoneInv, PairInv, RelayTyped
  <2> QED BY <2>1, <2>2, <2>3, <2>4
<1>3. CASE JoinRecorder
  <2> USE <1>3 DEF JoinRecorder, MainOnly
  <2>1. RelayTyped'
    BY DEF RelayTyped, Dir, Other
  <2>2. RecordedInv'
    BY DEF RelayTyped, RecordedBeforeForwarded, HandInv, Dir, Other
  <2>3. ClientInv' /\ RetiredInv'
    BY DEF RelayTyped, ClientInv, RetiredInv, RecordedBeforeForwarded, Dir, Other
  <2>4. DoneInv' /\ PairInv'
    BY DEF DoneInv, PairInv, RelayTyped
  <2> QED BY <2>1, <2>2, <2>3, <2>4
<1> QED BY <1>1, <1>2, <1>3 DEF Relay, Endpoints

\* The endpoints, and the reader of the client's stderr.
LEMMA EndpointsKeep ==
    ASSUME RelayInv, Endpoints \/ ReadHook
    PROVE  RelayInv'
<1> USE RelayAssumption DEF RelayInv, RecordedInv, streamVars, peerVars, hookVars, relayVars, collectVars
<1>1. CASE Connect
  <2> USE <1>1 DEF Connect
  <2>1. RelayTyped'
    BY DEF RelayTyped, Dir, Other
  <2>2. RecordedInv'
    BY DEF RelayTyped, RecordedBeforeForwarded, HandInv, Dir, Other
  <2>3. ClientInv' /\ RetiredInv'
    BY DEF RelayTyped, ClientInv, RetiredInv, RecordedBeforeForwarded, Dir, Other
  <2>4. DoneInv' /\ PairInv'
    BY DEF DoneInv, PairInv, RelayTyped
  <2> QED BY <2>1, <2>2, <2>3, <2>4
<1>2. CASE EmitHook
  <2> USE <1>2 DEF EmitHook
  <2>1. RelayTyped'
    BY DEF RelayTyped, Dir, Other
  <2>2. RecordedInv'
    BY DEF RelayTyped, RecordedBeforeForwarded, HandInv, Dir, Other
  <2>3. ClientInv' /\ RetiredInv'
    BY DEF RelayTyped, ClientInv, RetiredInv, RecordedBeforeForwarded, Dir, Other
  <2>4. DoneInv' /\ PairInv'
    BY DEF DoneInv, PairInv, RelayTyped
  <2> QED BY <2>1, <2>2, <2>3, <2>4
<1>3. CASE ClientEnds
  <2> USE <1>3 DEF ClientEnds, Close
  <2>1. RelayTyped'
    BY DEF RelayTyped, Dir, Other
  <2>2. RecordedInv'
    BY DEF RelayTyped, RecordedBeforeForwarded, HandInv, Dir, Other
  <2>3. ClientInv' /\ RetiredInv'
    BY DEF RelayTyped, ClientInv, RetiredInv, RecordedBeforeForwarded, Dir, Other
  <2>4. DoneInv' /\ PairInv'
    BY DEF DoneInv, PairInv, RelayTyped
  <2> QED BY <2>1, <2>2, <2>3, <2>4
<1>4. CASE ClientFails
  <2> USE <1>4 DEF ClientFails, Close
  <2>1. RelayTyped'
    BY DEF RelayTyped, Dir, Other
  <2>2. RecordedInv'
    BY DEF RelayTyped, RecordedBeforeForwarded, HandInv, Dir, Other
  <2>3. ClientInv' /\ RetiredInv'
    BY DEF RelayTyped, ClientInv, RetiredInv, RecordedBeforeForwarded, Dir, Other
  <2>4. DoneInv' /\ PairInv'
    BY DEF DoneInv, PairInv, RelayTyped
  <2> QED BY <2>1, <2>2, <2>3, <2>4
<1>5. CASE ServerExits
  <2> USE <1>5 DEF ServerExits, Close
  <2>1. RelayTyped'
    BY DEF RelayTyped, Dir, Other
  <2>2. RecordedInv'
    BY DEF RelayTyped, RecordedBeforeForwarded, HandInv, Dir, Other
  <2>3. ClientInv' /\ RetiredInv'
    BY DEF RelayTyped, ClientInv, RetiredInv, RecordedBeforeForwarded, Dir, Other
  <2>4. DoneInv' /\ PairInv'
    BY DEF DoneInv, PairInv, RelayTyped
  <2> QED BY <2>1, <2>2, <2>3, <2>4
<1>6. ASSUME NEW d \in Dir, Write(d) PROVE RelayInv'
  <2> USE <1>6 DEF Write
  <2>1. RelayTyped'
    BY DEF RelayTyped, Dir, Other
  <2>2. RecordedInv'
    BY DEF RelayTyped, RecordedBeforeForwarded, HandInv, Dir, Other
  <2>3. ClientInv' /\ RetiredInv'
    BY DEF RelayTyped, ClientInv, RetiredInv, RecordedBeforeForwarded, Dir, Other
  <2>4. DoneInv' /\ PairInv'
    BY DEF DoneInv, PairInv, RelayTyped
  <2> QED BY <2>1, <2>2, <2>3, <2>4
<1>7. ASSUME NEW d \in Dir, Read(d) PROVE RelayInv'
  <2> USE <1>7 DEF Read
  <2>1. RelayTyped'
    BY DEF RelayTyped, Dir, Other
  <2>2. RecordedInv'
    BY DEF RelayTyped, RecordedBeforeForwarded, HandInv, Dir, Other
  <2>3. ClientInv' /\ RetiredInv'
    BY DEF RelayTyped, ClientInv, RetiredInv, RecordedBeforeForwarded, Dir, Other
  <2>4. DoneInv' /\ PairInv'
    BY DEF DoneInv, PairInv, RelayTyped
  <2> QED BY <2>1, <2>2, <2>3, <2>4
<1>8. CASE ReadHook
  <2> USE <1>8 DEF ReadHook
  <2>1. RelayTyped'
    BY DEF RelayTyped, Dir, Other
  <2>2. RecordedInv'
    BY DEF RelayTyped, RecordedBeforeForwarded, HandInv, Dir, Other
  <2>3. ClientInv' /\ RetiredInv'
    BY DEF RelayTyped, ClientInv, RetiredInv, RecordedBeforeForwarded, Dir, Other
  <2>4. DoneInv' /\ PairInv'
    BY DEF DoneInv, PairInv, RelayTyped
  <2> QED BY <2>1, <2>2, <2>3, <2>4
<1> QED BY <1>1, <1>2, <1>3, <1>4, <1>5, <1>6, <1>7, <1>8 DEF Relay, Endpoints
-----------------------------------------------------------------------------
(* What capture_ssh returns.                                               *)

\* The hook's output read in pairs gives exchange i its own two values.
LEMMA PairsInOrder ==
    ASSUME seen \in Nat
    PROVE  /\ Paired(_quantum_recoveries(Records))
           /\ Len(_quantum_recoveries(Records)) = seen \div 2
<1> DEFINE Entry == [name : {"EPHEMERAL_PRIV", "EPHEMERAL_PUB"}, value : Int]
<1>1. Records \in Seq(Entry) /\ Len(Records) = seen /\ seen \div 2 \in Nat
  <2>1. Records \in [1..seen -> Entry]
    BY DEF Records
  <2>2. seen \div 2 \in Nat
    OBVIOUS
  <2> HIDE DEF Entry
  <2>3. Records \in Seq(Entry) /\ Len(Records) = seen
    BY <2>1
  <2> QED BY <2>2, <2>3
<1>2. Len(_quantum_recoveries(Records)) = seen \div 2
  BY <1>1 DEF _quantum_recoveries
<1>3. ASSUME NEW i \in 1..(seen \div 2)
      PROVE  Records[2 * i - 1].value = i /\ Records[2 * i].value = i
  <2>1. 2 * i - 1 \in 1..seen /\ 2 * i \in 1..seen
    OBVIOUS
  <2>2. (2 * i - 1 + 1) \div 2 = i /\ (2 * i + 1) \div 2 = i
    OBVIOUS
  <2> QED BY <2>1, <2>2 DEF Records
<1> QED BY <1>1, <1>2, <1>3 DEF _quantum_recoveries, Paired

\* When the capture ends well its recoveries are the pairs of what was read.
LEMMA CollectKeeps ==
    ASSUME RelayInv, Collect
    PROVE  /\ RelayInv'
           /\ outcome' = "ok" => recoveries' = _quantum_recoveries(Records)
<1> USE DEF RelayInv, RecordedInv, Collect, MainOnly, streamVars, peerVars, hookVars, relayVars
<1>1. outcome' = "ok" => recoveries' = _quantum_recoveries(Records) /\ ~errors /\ clientOk
  OBVIOUS
<1>2. RelayTyped' /\ RecordedInv' /\ ClientInv' /\ RetiredInv'
  BY DEF RelayTyped, RecordedBeforeForwarded, HandInv, ClientInv, RetiredInv
<1>3. DoneInv'
  BY <1>1 DEF DoneInv
<1>4. PairInv'
  <2>1. seen \in Nat
    BY RelayAssumption DEF RelayTyped
  <2> QED BY <1>1, <2>1, PairsInOrder DEF PairInv, Paired
<1> QED BY <1>1, <1>2, <1>3, <1>4

\* The invariant is inductive.
LEMMA RelayInvStep == RelayInv /\ [RelayNext]_captureVars => RelayInv'
<1> SUFFICES ASSUME RelayInv, [RelayNext]_captureVars PROVE RelayInv'
  OBVIOUS
<1>1. CASE Relay
  BY <1>1, RelayKeeps
<1>2. CASE Main
  BY <1>2, MainKeeps, CollectKeeps DEF Main
<1>3. CASE Endpoints \/ ReadHook
  BY <1>3, EndpointsKeep
<1>4. CASE UNCHANGED captureVars
  BY <1>4 DEF RelayInv, RecordedInv, RelayTyped, RecordedBeforeForwarded, HandInv, ClientInv,
              RetiredInv, DoneInv, PairInv, Paired, captureVars, streamVars, peerVars, hookVars,
              relayVars, collectVars
<1> QED BY <1>1, <1>2, <1>3, <1>4 DEF RelayNext

LEMMA RelayInvHolds == RelaySpec => []RelayInv
BY RelayInvInit, RelayInvStep, PTL DEF RelaySpec

\* Nothing reaches an endpoint that is not in a stream file, and nothing is lost
\* on the way into the file, for streams and buffers of any size.
THEOREM NothingUnrecorded == RelaySpec => []RecordedBeforeForwarded
<1>1. RelayInv => RecordedBeforeForwarded
  BY DEF RelayInv, RecordedInv
<1> QED BY <1>1, RelayInvHolds, PTL

\* A capture that ends well has everything that the client received, and both
\* streams when the relay was not stopped.
THEOREM GoodCaptureIsComplete == RelaySpec => []OkIsComplete
<1>1. ASSUME RelayInv, outcome = "ok" PROVE recorded["s2c"] = Total["s2c"]
  BY <1>1, RelayAssumption
  DEF RelayInv, RecordedInv, RelayTyped, RecordedBeforeForwarded, ClientInv, DoneInv, Dir
<1>2. ASSUME RelayInv, outcome = "ok", ~stop, NEW d \in Dir
      PROVE  recorded[d] = wrote[d] /\ closed[d]
  <2>1. active = {}
    BY <1>2 DEF RelayInv, DoneInv
  <2>2. toRelay[d] = 0 /\ closed[d]
    BY <1>2, <2>1 DEF RelayInv, RetiredInv
  <2> QED BY <1>2, <2>2 DEF RelayInv, RecordedInv, RecordedBeforeForwarded, RelayTyped
<1>3. RelayInv => OkIsComplete
  BY <1>1, <1>2 DEF OkIsComplete
<1> QED BY <1>3, RelayInvHolds, PTL

\* A good capture has scalar i of exchange i, and of every exchange when the
\* reader saw the end of the hook's output.
THEOREM ScalarsArePaired == RelaySpec => ScalarPerExchange
<1> DEFINE Step ==
        outcome' = "ok" =>
            /\ \A i \in DOMAIN recoveries' : recoveries'[i] = [private |-> i, public |-> i]
            /\ ReaderDone /\ outcome = "running" => Len(recoveries') = Exchanges
<1>1. ASSUME RelayInv, RelayInv', [RelayNext]_captureVars, outcome' = "ok" PROVE Step
  <2>1. \A i \in DOMAIN recoveries' : recoveries'[i] = [private |-> i, public |-> i]
    BY <1>1 DEF RelayInv, PairInv, Paired
  <2>2. ASSUME ReaderDone, outcome = "running" PROVE Len(recoveries') = Exchanges
    <3>1. Collect
      BY <1>1, <2>2
      DEF RelayNext, Relay, Main, Endpoints, Accept, Select, Loop, SendAll, Recv, WaitClient,
          TerminateServer, JoinRecorder, MainOnly, Connect, EmitHook, ClientEnds, ClientFails,
          ServerExits, Write, Read, ReadHook, captureVars, collectVars
    <3>2. recoveries' = _quantum_recoveries(Records) /\ clientOk
      BY <1>1, <3>1, CollectKeeps DEF Collect
    <3>3. seen = 2 * Exchanges /\ Exchanges \in Nat
      BY <1>1, <2>2, <3>2, RelayAssumption DEF RelayInv, ClientInv, ReaderDone
    <3> QED BY <3>2, <3>3, PairsInOrder
  <2> QED BY <2>1, <2>2
<1>2. RelayInv /\ RelayInv' /\ [RelayNext]_captureVars => [Step]_captureVars
  BY <1>1
<1> QED BY <1>2, RelayInvHolds, PTL DEF RelaySpec, ScalarPerExchange
-----------------------------------------------------------------------------
(* RekeyBenchmark.                                                         *)


Counts == [written: Nat, pumped: Nat, sent: Nat, read: Nat]

Typed ==
    /\ workload \in {"bulk", "interactive"}
    /\ server \in [thread: {"off", "new", "listening", "accepted", "running", "done"},
                   stop: BOOLEAN, error: BOOLEAN]
    /\ relay \in [thread: {"off", "new", "listening", "accepted", "pumping", "done"},
                  stop: BOOLEAN, error: BOOLEAN, listed: BOOLEAN]
    /\ pump \in [Direction -> {"off", "recv", "hold", "done"}]
    /\ count \in [Direction -> Counts]

\* What has reached a point has reached the points before it, and a pump with
\* a unit in its hand has received more than it has sent.
Orderly(c, p) ==
    /\ c.read <= c.sent /\ c.sent <= c.pumped /\ c.pumped <= c.written
    /\ p = "hold" => c.sent < c.pumped
    /\ p = "off" => c.pumped = 0

\* sshd answers what it has read; the client writes no more than its workload.
AnswerInv ==
    /\ count["request"].written <= Requests
    /\ count["reply"].written <=
            IF workload = "interactive" THEN count["request"].read
            ELSE IF count["request"].read = 0 THEN 0 ELSE Replies

FlowInv == (\A d \in Direction : Orderly(count[d], pump[d])) /\ AnswerInv

\* Nothing is pumped before the relay has connected to sshd.
PumpInv ==
    relay.thread \in {"off", "new", "listening", "accepted"} =>
        \A d \in Direction : pump[d] = "off"

Preparing == {"start_server", "await_server", "await_relay", "start_client"}
Ending    == {"finally_relay", "finally_join_relay", "finally_server", "finally_join_server",
              "sampled"}

\* The main thread's knowledge: what it has seen when it reaches a point with
\* no failure to raise.
ServedInv == client = "clean" /\ count["reply"].read = Replies

MainInv ==
    /\ pc \in Preparing => count["request"].written = 0
    /\ pc \in {"start_server", "await_server"} => relay.thread = "off"
    /\ pc \in Preparing \union {"workload", "stop_relay", "join_relay", "await_sshd"} =>
            failure = "none"
    /\ pc \in {"stop_relay", "join_relay", "await_sshd"} => ServedInv
    /\ pc = "await_sshd" => relay.thread = "done"
    /\ pc = "stop_sshd" => failure = "error"
    /\ pc \in Ending /\ failure = "none" =>
            ServedInv /\ sshd \in Accepted /\ ~relay.error
            /\ server.thread = "done" /\ relay.thread = "done"

\* Nothing runs between two samples.
Quiet ==
    /\ client \notin Running /\ sshd \notin Running
    /\ server.thread \in {"off", "done"} /\ relay.thread \in {"off", "done"}

QuietInv == pc = "next" => Quiet

SampleInv == Typed /\ FlowInv /\ PumpInv /\ MainInv /\ QuietInv

InSample == Preparing \union Ending \union {"workload", "stop_relay", "join_relay", "await_sshd",
                                            "stop_sshd"}

\* A directory is made once, and holds a result when its sample was kept.
KeepInv ==
    /\ plan \in Plans /\ position \in Nat
    /\ samples \in Seq(Nat) /\ diagnoses \in Seq(Nat)
    /\ IsFiniteSet(results) /\ results \subseteq dirs
    /\ Cardinality(results) = Len(samples) + Len(diagnoses)
    /\ Len(samples) + Len(diagnoses) < position
    /\ pc \in InSample => Directory \in dirs \ results
    /\ pc \in InSample \union {"next", "partial"} => files = {}
    /\ ~({"partial_results.json", "results.json"} \subseteq files)

\* The samples kept are the timed ones from the first on, and the diagnoses
\* are those behind them.
PlaceInv ==
    /\ position \in 1..(Len(Schedule(plan)) + 1)
    /\ pc \in InSample => position <= Len(Schedule(plan))
    /\ Len(samples) = IF position <= Timed(plan) THEN position - 1 ELSE Timed(plan)
    /\ Len(diagnoses) = IF position <= Timed(plan) THEN 0 ELSE (position - 1) - Timed(plan)
    /\ \A i \in 1..Len(samples) : samples[i] = i
    /\ \A i \in 1..Len(diagnoses) : diagnoses[i] = Timed(plan) + i
    /\ "results.json" \in files => position = Len(Schedule(plan)) + 1

BenchInv == SampleInv /\ KeepInv /\ PlaceInv
-----------------------------------------------------------------------------
(* How often a value occurs.                                               *)

Count(s, a) == Cardinality({i \in DOMAIN s : s[i] = a})

LEMMA CountIsNumber ==
    ASSUME NEW T, NEW s \in Seq(T), NEW a
    PROVE  IsFiniteSet({i \in DOMAIN s : s[i] = a}) /\ Count(s, a) \in Nat
<1> DEFINE S == {i \in DOMAIN s : s[i] = a}
<1>1. S \in SUBSET (1..Len(s)) /\ Len(s) \in Nat
  OBVIOUS
<1>2. IsFiniteSet(1..Len(s))
  BY <1>1, FS_Interval
<1>3. IsFiniteSet(S)
  BY <1>1, <1>2, FS_Subset
<1> QED BY <1>3, FS_CardinalityType DEF Count

\* Two sequences together hold a value as often as both of them.
LEMMA CountConcat ==
    ASSUME NEW T, NEW s \in Seq(T), NEW t \in Seq(T), NEW a
    PROVE  Count(s \o t, a) = Count(s, a) + Count(t, a)
<1> DEFINE n == Len(s)
           r == s \o t
           R == {i \in DOMAIN r : r[i] = a}
           A == {i \in DOMAIN s : s[i] = a}
           B == {i \in DOMAIN t : t[i] = a}
           C == {n + i : i \in B}
           f == [i \in B |-> n + i]
<1>1. Joins(T, s, t, r) /\ n \in Nat /\ Len(t) \in Nat /\ DOMAIN s = 1..n /\ DOMAIN t = 1..Len(t)
  BY ConcatIs
<1>2. IsFiniteSet(A) /\ IsFiniteSet(B) /\ Count(s, a) = Cardinality(A) /\ Count(t, a) = Cardinality(B)
      /\ Cardinality(A) \in Nat /\ Cardinality(B) \in Nat
  BY CountIsNumber DEF Count
<1>3. DOMAIN r = 1..(n + Len(t))
  BY <1>1 DEF Joins
<1>4. A \subseteq 1..n /\ B \subseteq 1..Len(t)
  BY <1>1
<1>5. R = A \union C
  <2>1. ASSUME NEW i \in R PROVE i \in A \union C
    <3>1. i \in 1..(n + Len(t)) /\ r[i] = a
      BY <1>3
    <3>2. CASE i <= n
      <4>1. i \in 1..n /\ s[i] = a
        BY <1>1, <3>1, <3>2 DEF Joins
      <4> QED BY <1>1, <4>1
    <3>3. CASE ~(i <= n)
      <4>1. i - n \in 1..Len(t) /\ n + (i - n) = i
        BY <1>1, <3>1, <3>3
      <4>2. t[i - n] = a
        BY <1>1, <3>1, <3>3 DEF Joins
      <4>3. i - n \in B
        BY <1>1, <4>1, <4>2
      <4> QED BY <4>1, <4>3
    <3> QED BY <3>2, <3>3
  <2>2. ASSUME NEW i \in A PROVE i \in R
    <3>1. i \in 1..n /\ s[i] = a /\ i \in 1..(n + Len(t)) /\ i <= n
      BY <1>1
    <3>2. r[i] = a
      BY <1>1, <3>1 DEF Joins
    <3> QED BY <1>3, <3>1, <3>2
  <2>3. ASSUME NEW i \in B PROVE n + i \in R
    <3>1. i \in 1..Len(t) /\ t[i] = a
      BY <1>1
    <3>2. n + i \in 1..(n + Len(t)) /\ ~(n + i <= n) /\ (n + i) - n = i
      BY <1>1, <3>1
    <3>3. r[n + i] = a
      BY <1>1, <3>1, <3>2 DEF Joins
    <3> QED BY <1>3, <3>2, <3>3
  <2> HIDE DEF R, A, B
  <2> QED BY <2>1, <2>2, <2>3
<1> HIDE DEF A, B, R
<1>6. f \in Bijection(B, C)
  <2>1. f \in [B -> C] /\ \A c \in C : \E i \in B : f[i] = c
    OBVIOUS
  <2>2. \A i, j \in B : f[i] = f[j] => i = j
    BY <1>1, <1>4
  <2> QED BY <2>1, <2>2, Fun_IsBij
<1>7. IsFiniteSet(C) /\ Cardinality(C) = Cardinality(B)
  BY <1>2, <1>6, FS_Bijection, Fun_ExistsBij
<1>8. A \intersect C = {}
  <2>1. ASSUME NEW i \in B PROVE n + i \notin A
    <3>1. i \in 1..Len(t)
      BY <1>4
    <3>2. n + i \notin 1..n
      BY <1>1, <3>1
    <3> QED BY <1>4, <3>2
  <2> QED BY <2>1
<1> HIDE DEF C, f
<1>9. Cardinality(A \union C) = Cardinality(A) + Cardinality(B)
  <2>1. Cardinality(A \intersect C) = 0
    BY <1>8, FS_EmptySet
  <2>2. Cardinality(A \union C) = Cardinality(A) + Cardinality(C) - Cardinality(A \intersect C)
    BY <1>2, <1>7, FS_Union
  <2> QED BY <1>2, <1>7, <2>1, <2>2
<1>10. Count(r, a) = Cardinality(R)
  BY DEF Count, R
<1> HIDE DEF r
<1>11. Count(r, a) = Count(s, a) + Count(t, a)
  BY <1>2, <1>5, <1>9, <1>10
<1> QED BY <1>11 DEF r
-----------------------------------------------------------------------------
(* The schedule of a plan.                                                 *)

Grid(p) == [rtt: ToSet(p.rtts), workload: ToSet(p.workloads), limit: ToSet(p.limits)]

\* The limits of a plan in some order.
Arranges(limits, p) ==
    /\ limits \in Seq(ToSet(p.limits)) /\ Len(limits) = Len(p.limits)
    /\ IsInjective(limits) /\ ToSet(limits) = ToSet(p.limits)

\* Sequences of cells that hold every limit equally often.
Alike(a, b) == a.rtt = b.rtt /\ a.workload = b.workload
Balanced(p) ==
    {s \in Seq(Grid(p)) : \A a, b \in Grid(p) : Alike(a, b) => Count(s, a) = Count(s, b)}

Row(p, i, j, limits) ==
    [k \in DOMAIN limits |-> [rtt |-> p.rtts[i], workload |-> p.workloads[j], limit |-> limits[k]]]
Block(p, i, limits) == FlattenSeq([j \in DOMAIN p.workloads |-> Row(p, i, j, limits)])

LEMMA ReverseArranges ==
    ASSUME NEW p \in Plans
    PROVE  Arranges(p.limits, p) /\ Arranges(Reverse(p.limits), p)
<1> DEFINE s == p.limits
           n == Len(s)
           r == Reverse(s)
<1>1. s \in Seq(ToSet(s)) /\ IsInjective(s)
  BY PlanAssumption
<1>2. n \in Nat /\ DOMAIN s = 1..n /\ r = [i \in 1..n |-> s[(n - i) + 1]]
  BY <1>1 DEF Reverse
<1>3. \A i \in 1..n : (n - i) + 1 \in 1..n /\ (n - ((n - i) + 1)) + 1 = i
  BY <1>2
<1>4. \A i \in 1..n : s[i] \in ToSet(s)
  BY <1>2 DEF ToSet
<1> HIDE DEF n, r, s
<1>5. DOMAIN r = 1..n /\ \A i \in 1..n : r[i] \in ToSet(s) /\ r[i] = s[(n - i) + 1]
  BY <1>2, <1>3, <1>4
<1>6. r \in Seq(ToSet(s)) /\ Len(r) = n
  BY <1>2, <1>5
<1>7. IsInjective(r)
  BY <1>1, <1>2, <1>3, <1>5 DEF IsInjective
<1>8. ToSet(r) = ToSet(s)
  <2>1. ASSUME NEW i \in 1..n PROVE s[i] \in ToSet(r)
    <3>1. (n - i) + 1 \in DOMAIN r /\ r[(n - i) + 1] = s[i]
      BY <1>3, <1>5
    <3> QED BY <3>1 DEF ToSet
  <2>2. ToSet(s) \subseteq ToSet(r)
    BY <1>2, <2>1 DEF ToSet
  <2>3. ToSet(r) \subseteq ToSet(s)
    BY <1>5 DEF ToSet
  <2> QED BY <2>2, <2>3
<1> QED BY <1>1, <1>6, <1>7, <1>8 DEF Arranges, s, n, r

LEMMA BalancedIsClosed ==
    ASSUME NEW p
    PROVE  <<>> \in Balanced(p) /\ \A s, t \in Balanced(p) : s \o t \in Balanced(p)
<1>1. <<>> \in Balanced(p)
  <2>1. \A a : {i \in DOMAIN <<>> : <<>>[i] = a} = {}
    OBVIOUS
  <2>2. \A a : Count(<<>>, a) = Cardinality({})
    BY <2>1 DEF Count
  <2>3. <<>> \in Seq(Grid(p))
    OBVIOUS
  <2> QED BY <2>2, <2>3 DEF Balanced
<1>2. ASSUME NEW s \in Balanced(p), NEW t \in Balanced(p) PROVE s \o t \in Balanced(p)
  <2>1. s \in Seq(Grid(p)) /\ t \in Seq(Grid(p))
    BY DEF Balanced
  <2>2. s \o t \in Seq(Grid(p)) /\ \A a : Count(s \o t, a) = Count(s, a) + Count(t, a)
    BY <2>1, ConcatProperties, CountConcat
  <2> QED BY <2>2 DEF Balanced
<1> QED BY <1>1, <1>2

\* A row holds every limit once.
LEMMA RowIsBalanced ==
    ASSUME NEW p \in Plans, NEW i \in DOMAIN p.rtts, NEW j \in DOMAIN p.workloads,
           NEW limits, Arranges(limits, p)
    PROVE  Row(p, i, j, limits) \in Balanced(p) /\ Len(Row(p, i, j, limits)) = Len(p.limits)
<1> DEFINE n == Len(p.limits)
           x == p.rtts[i]
           y == p.workloads[j]
           r == Row(p, i, j, limits)
<1>1. /\ limits \in Seq(ToSet(p.limits)) /\ Len(limits) = n /\ IsInjective(limits)
      /\ ToSet(limits) = ToSet(p.limits)
  BY DEF Arranges
<1>2. n \in Nat /\ DOMAIN limits = 1..n /\ \A k \in 1..n : limits[k] \in ToSet(p.limits)
  BY <1>1
<1>3. x \in ToSet(p.rtts) /\ y \in ToSet(p.workloads)
  BY DEF ToSet
<1> HIDE DEF n, x, y
<1>4. r = [k \in 1..n |-> [rtt |-> x, workload |-> y, limit |-> limits[k]]]
  BY <1>2 DEF Row, x, y
<1> HIDE DEF r
<1>5. /\ DOMAIN r = 1..n
      /\ \A k \in 1..n : r[k] = [rtt |-> x, workload |-> y, limit |-> limits[k]] /\ r[k] \in Grid(p)
  BY <1>2, <1>3, <1>4 DEF Grid
<1>6. r \in Seq(Grid(p)) /\ Len(r) = n
  BY <1>2, <1>4, <1>5
<1>7. ASSUME NEW a \in Grid(p), a.rtt = x, a.workload = y PROVE Count(r, a) = 1
  <2>1. PICK k \in 1..n : limits[k] = a.limit
    BY <1>1, <1>2 DEF Grid, ToSet
  <2>2. a = [rtt |-> x, workload |-> y, limit |-> a.limit]
    BY <1>7 DEF Grid
  <2>3. {m \in DOMAIN r : r[m] = a} = {k}
    <3>1. r[k] = a
      BY <1>5, <2>1, <2>2
    <3>2. \A m \in 1..n : r[m] = a => limits[m] = a.limit
      BY <1>5
    <3>3. \A m \in 1..n : limits[m] = limits[k] => m = k
      BY <1>1, <1>2 DEF IsInjective
    <3> QED BY <1>5, <2>1, <3>1, <3>2, <3>3
  <2> QED BY <2>3, FS_Singleton DEF Count
<1>8. ASSUME NEW a \in Grid(p), ~(a.rtt = x /\ a.workload = y) PROVE Count(r, a) = 0
  <2>1. {m \in DOMAIN r : r[m] = a} = {}
    BY <1>5, <1>8
  <2> QED BY <2>1, FS_EmptySet DEF Count
<1>9. \A a, b \in Grid(p) : Alike(a, b) => Count(r, a) = Count(r, b)
  BY <1>7, <1>8 DEF Alike
<1> QED BY <1>6, <1>9 DEF Balanced, r, n

LEMMA RowHolds ==
    ASSUME NEW p \in Plans, NEW i \in DOMAIN p.rtts, NEW j \in DOMAIN p.workloads,
           NEW limits, Arranges(limits, p), NEW c \in ToSet(p.limits)
    PROVE  [rtt |-> p.rtts[i], workload |-> p.workloads[j], limit |-> c] \in ToSet(Row(p, i, j, limits))
<1>1. PICK k \in DOMAIN limits : limits[k] = c
  BY DEF Arranges, ToSet
<1> QED BY <1>1 DEF Row, ToSet
LEMMA BlockIsBalanced ==
    ASSUME NEW p \in Plans, NEW i \in DOMAIN p.rtts, NEW limits, Arranges(limits, p)
    PROVE  /\ Block(p, i, limits) \in Balanced(p)
           /\ Len(Block(p, i, limits)) = Len(p.workloads) * Len(p.limits)
           /\ \A y \in ToSet(p.workloads), c \in ToSet(p.limits) :
                 [rtt |-> p.rtts[i], workload |-> y, limit |-> c] \in ToSet(Block(p, i, limits))
<1> DEFINE n == Len(p.workloads)
           m == Len(p.limits)
           rows == [j \in 1..n |-> Row(p, i, j, limits)]
<1>1. n \in Nat /\ m \in Nat /\ DOMAIN p.workloads = 1..n
  BY PlanAssumption
<1>2. \A j \in 1..n : Row(p, i, j, limits) \in Balanced(p) /\ Len(Row(p, i, j, limits)) = m
  BY <1>1, RowIsBalanced
<1>3. Block(p, i, limits) = FlattenSeq(rows)
  BY <1>1 DEF Block
<1> HIDE DEF n, m
<1>4. \A j \in 1..n : rows[j] = Row(p, i, j, limits)
  OBVIOUS
<1>5. rows \in Seq(Balanced(p)) /\ Len(rows) = n /\ DOMAIN rows = 1..n
  BY <1>1, <1>2
<1> HIDE DEF rows
<1>6. Balanced(p) \in SUBSET Seq(Grid(p))
  BY DEF Balanced
<1>7. FlattenSeq(rows) \in Balanced(p)
  BY <1>5, <1>6, BalancedIsClosed, FlattenClosed
<1>8. rows \in Seq(Seq(Grid(p)))
  BY <1>5, <1>6
<1>9. Len(FlattenSeq(rows)) = n * m
  <2>1. \A k \in DOMAIN rows : Len(rows[k]) = m
    BY <1>2, <1>4, <1>5
  <2> QED BY <1>1, <1>5, <1>8, <2>1, FlattenLength
<1>10. ASSUME NEW y \in ToSet(p.workloads), NEW c \in ToSet(p.limits)
       PROVE  [rtt |-> p.rtts[i], workload |-> y, limit |-> c] \in ToSet(FlattenSeq(rows))
  <2>1. PICK j \in 1..n : p.workloads[j] = y
    BY <1>1 DEF ToSet
  <2>2. [rtt |-> p.rtts[i], workload |-> y, limit |-> c] \in ToSet(rows[j])
    BY <1>1, <1>4, <2>1, RowHolds
  <2> QED BY <1>5, <1>8, <2>2, FlattenHolds
<1> QED BY <1>3, <1>7, <1>9, <1>10 DEF n, m

LEMMA CellsAreBalanced ==
    ASSUME NEW p \in Plans, NEW limits, Arranges(limits, p)
    PROVE  /\ Cells(p, limits) \in Balanced(p)
           /\ Len(Cells(p, limits)) = Len(p.rtts) * (Len(p.workloads) * Len(p.limits))
           /\ Grid(p) \subseteq ToSet(Cells(p, limits))
<1> DEFINE n == Len(p.rtts)
           m == Len(p.workloads) * Len(p.limits)
           blocks == [i \in 1..n |-> Block(p, i, limits)]
<1>1. n \in Nat /\ m \in Nat /\ DOMAIN p.rtts = 1..n
  <2>1. Len(p.workloads) \in Nat /\ Len(p.limits) \in Nat /\ n \in Nat /\ DOMAIN p.rtts = 1..n
    BY PlanAssumption
  <2>2. \A x, y \in Nat : x * y \in Nat
    OBVIOUS
  <2>3. Len(p.workloads) * Len(p.limits) \in Nat
    BY <2>1, <2>2
  <2> QED BY <2>1, <2>3
<1>2. \A i \in 1..n : Block(p, i, limits) \in Balanced(p) /\ Len(Block(p, i, limits)) = m
  BY <1>1, BlockIsBalanced
<1>3. Cells(p, limits) = FlattenSeq(blocks)
  BY <1>1 DEF Cells, Block, Row
<1> HIDE DEF n, m
<1>4. \A i \in 1..n : blocks[i] = Block(p, i, limits)
  OBVIOUS
<1>5. blocks \in Seq(Balanced(p)) /\ Len(blocks) = n /\ DOMAIN blocks = 1..n
  BY <1>1, <1>2
<1> HIDE DEF blocks
<1>6. Balanced(p) \in SUBSET Seq(Grid(p))
  BY DEF Balanced
<1>7. FlattenSeq(blocks) \in Balanced(p)
  BY <1>5, <1>6, BalancedIsClosed, FlattenClosed
<1>8. blocks \in Seq(Seq(Grid(p)))
  BY <1>5, <1>6
<1>9. Len(FlattenSeq(blocks)) = n * m
  <2>1. \A k \in DOMAIN blocks : Len(blocks[k]) = m
    BY <1>2, <1>4, <1>5
  <2> QED BY <1>1, <1>5, <1>8, <2>1, FlattenLength
<1>10. ASSUME NEW a \in Grid(p) PROVE a \in ToSet(FlattenSeq(blocks))
  <2>1. /\ a.rtt \in ToSet(p.rtts) /\ a.workload \in ToSet(p.workloads) /\ a.limit \in ToSet(p.limits)
        /\ a = [rtt |-> a.rtt, workload |-> a.workload, limit |-> a.limit]
    BY DEF Grid
  <2>2. PICK i \in 1..n : p.rtts[i] = a.rtt
    BY <1>1, <2>1 DEF ToSet
  <2>3. [rtt |-> p.rtts[i], workload |-> a.workload, limit |-> a.limit] \in ToSet(Block(p, i, limits))
    BY <1>1, <2>1, BlockIsBalanced
  <2>4. a \in ToSet(blocks[i])
    BY <1>4, <2>1, <2>2, <2>3
  <2> QED BY <1>5, <1>8, <2>4, FlattenHolds
<1> QED BY <1>3, <1>7, <1>9, <1>10 DEF n, m

\* The timed part of a schedule, and the diagnoses.
Timings(p) ==
    FlattenSeq([r \in 1..Repetitions |->
                   Cells(p, IF r % 2 = 1 THEN p.limits ELSE Reverse(p.limits))])
Diagnoses(p) == IF p.diagnose THEN Cells(p, p.limits) ELSE <<>>

LEMMA TimingsAreBalanced ==
    ASSUME NEW p \in Plans
    PROVE  Timings(p) \in Balanced(p) /\ Timed(p) \in Nat /\ Len(Timings(p)) = Timed(p)
<1> DEFINE n == Repetitions
           m == Len(Cells(p, p.limits))
           Part(r) == Cells(p, IF r % 2 = 1 THEN p.limits ELSE Reverse(p.limits))
           parts == [r \in 1..n |-> Part(r)]
<1>1. n \in Nat
  BY BenchmarkAssumption
<1>2. \A r \in 1..n : Part(r) \in Balanced(p) /\ Len(Part(r)) = m
  <2>1. Arranges(p.limits, p) /\ Arranges(Reverse(p.limits), p)
    BY ReverseArranges
  <2>2. Cells(p, p.limits) \in Balanced(p) /\ Cells(p, Reverse(p.limits)) \in Balanced(p)
        /\ Len(Cells(p, Reverse(p.limits))) = m
    BY <2>1, CellsAreBalanced
  <2> QED BY <2>2
<1>3. Timings(p) = FlattenSeq(parts)
  BY DEF Timings
<1>4. m \in Nat
  <2>1. Cells(p, p.limits) \in Seq(Grid(p))
    BY ReverseArranges, CellsAreBalanced DEF Balanced
  <2> QED BY <2>1
<1> HIDE DEF n, m, Part
<1>5. \A r \in 1..n : parts[r] = Part(r)
  OBVIOUS
<1>6. parts \in Seq(Balanced(p)) /\ Len(parts) = n /\ DOMAIN parts = 1..n
  BY <1>1, <1>2
<1> HIDE DEF parts
<1>7. Balanced(p) \in SUBSET Seq(Grid(p))
  BY DEF Balanced
<1>8. FlattenSeq(parts) \in Balanced(p)
  BY <1>6, <1>7, BalancedIsClosed, FlattenClosed
<1>9. parts \in Seq(Seq(Grid(p)))
  BY <1>6, <1>7
<1>10. Len(FlattenSeq(parts)) = n * m
  <2>1. \A k \in DOMAIN parts : Len(parts[k]) = m
    BY <1>2, <1>5, <1>6
  <2> QED BY <1>4, <1>6, <1>9, <2>1, FlattenLength
<1>11. n * m \in Nat /\ Timed(p) = n * m
  BY <1>1, <1>4 DEF Timed, n, m
<1> QED BY <1>3, <1>8, <1>10, <1>11

\* What a schedule holds and where.
LEMMA ScheduleIs ==
    ASSUME NEW p \in Plans
    PROVE  /\ Timings(p) \in Seq(Grid(p)) /\ Diagnoses(p) \in Seq(Grid(p))
           /\ Joins(Grid(p), Timings(p), Diagnoses(p), Schedule(p))
           /\ Len(Timings(p)) = Timed(p) /\ Timed(p) \in Nat
           /\ p.diagnose => Grid(p) \subseteq ToSet(Diagnoses(p))
<1>1. Timings(p) \in Seq(Grid(p)) /\ Len(Timings(p)) = Timed(p) /\ Timed(p) \in Nat
  BY TimingsAreBalanced DEF Balanced
<1>2. Cells(p, p.limits) \in Seq(Grid(p)) /\ Grid(p) \subseteq ToSet(Cells(p, p.limits))
  BY ReverseArranges, CellsAreBalanced DEF Balanced
<1>3. Diagnoses(p) \in Seq(Grid(p)) /\ (p.diagnose => Grid(p) \subseteq ToSet(Diagnoses(p)))
  BY <1>2 DEF Diagnoses
<1>4. Schedule(p) = Timings(p) \o Diagnoses(p)
  BY DEF Schedule, Timings, Diagnoses
<1> QED BY <1>1, <1>3, <1>4, ConcatIs
-----------------------------------------------------------------------------
USE SampleAssumption

LEMMA LengthsAre ==
    ASSUME NEW p \in Plans
    PROVE  /\ Timed(p) \in Nat /\ Len(Schedule(p)) \in Nat /\ Timed(p) <= Len(Schedule(p))
           /\ DOMAIN Schedule(p) = 1..Len(Schedule(p))
<1>1. /\ Len(Timings(p)) = Timed(p) /\ Timed(p) \in Nat /\ Len(Diagnoses(p)) \in Nat
      /\ Len(Schedule(p)) = Len(Timings(p)) + Len(Diagnoses(p)) /\ Schedule(p) \in Seq(Grid(p))
  BY ScheduleIs DEF Joins
<1> QED BY <1>1

\* The initial state: no object of a sample exists.
LEMMA BenchInvInit == Init => BenchInv
<1> SUFFICES ASSUME Init PROVE BenchInv
  OBVIOUS
<1>1. SampleInv
  BY DEF Init, SampleInv, Typed, Counts, FlowInv, Orderly, AnswerInv, PumpInv, MainInv, QuietInv, Quiet,
         Direction, Requests, Replies, Preparing, Ending, Running
<1>2. KeepInv
  <2>1. IsFiniteSet({}) /\ Cardinality({}) = 0
    BY FS_EmptySet
  <2>2. pc = "next" /\ position = 1 /\ results = {} /\ dirs = {} /\ samples = <<>> /\ diagnoses = <<>>
        /\ files = {} /\ plan \in Plans
    BY DEF Init
  <2> QED BY <2>1, <2>2 DEF KeepInv, InSample, Preparing, Ending
<1>3. PlaceInv
  <2>1. plan \in Plans /\ pc = "next" /\ position = 1 /\ samples = <<>> /\ diagnoses = <<>> /\ files = {}
    BY DEF Init
  <2>2. Timed(plan) \in Nat /\ Len(Schedule(plan)) \in Nat
    BY <2>1, LengthsAre
  <2> QED BY <2>1, <2>2 DEF PlaceInv, InSample, Preparing, Ending
<1> QED BY <1>1, <1>2, <1>3 DEF BenchInv

\* Every step of a sample but those of the main thread.
LEMMA OthersKeepInv ==
    ASSUME SampleInv, ServerThread \/ RelayThreads \/ Processes \/ ServerBindFails
                      \/ RelayBindFails \/ Crashes
    PROVE  SampleInv'
<1> USE DEF SampleInv, Typed, Counts, FlowInv, Orderly, AnswerInv, PumpInv, MainInv, ServedInv, QuietInv, Quiet,
            Direction, Requests, Replies, Preparing, Ending, Running, Accepted, threadVars, netVars
<1>1. CASE ServerBind \/ ServerBindFails
  <2>1. server.thread = "new" /\ UNCHANGED <<workload, pc, failure, relay, pump, count, client, sshd>>
    BY <1>1 DEF ServerBind, ServerBindFails
  <2>2. server' \in [thread: {"listening", "done"}, stop: BOOLEAN, error: BOOLEAN]
    BY <1>1, ZenonT(60) DEF ServerBind, ServerBindFails
  <2> QED BY <2>1, <2>2
<1>2. CASE ServerAccept
  <2>1. server.thread = "listening" /\ UNCHANGED <<workload, pc, failure, relay, pump, count, client, sshd>>
    BY <1>2 DEF ServerAccept
  <2>2. server' \in [thread: {"accepted", "done"}, stop: BOOLEAN, error: BOOLEAN]
    BY <1>2 DEF ServerAccept
  <2> QED BY <2>1, <2>2
<1>3. CASE ServerSpawn
  <2>1. server.thread = "accepted" /\ UNCHANGED <<workload, pc, failure, relay, pump, count, client>>
    BY <1>3 DEF ServerSpawn
  <2>2. server' \in [thread: {"running", "done"}, stop: BOOLEAN, error: BOOLEAN]
    BY <1>3 DEF ServerSpawn
  <2> QED BY <2>1, <2>2
<1>4. CASE ServerReap
  BY <1>4 DEF ServerReap
<1>5. CASE RelayBind \/ RelayBindFails
  BY <1>5, ZenonT(60) DEF RelayBind, RelayBindFails
<1>6. CASE RelayAccept
  <2>1. relay.thread = "listening" /\ UNCHANGED <<workload, pc, failure, server, pump, count, client, sshd>>
    BY <1>6 DEF RelayAccept
  <2>2. relay' \in [thread: {"accepted", "done"}, stop: BOOLEAN, error: BOOLEAN, listed: BOOLEAN]
    BY <1>6 DEF RelayAccept
  <2> QED BY <2>1, <2>2
<1>7. CASE RelayConnect
  <2>1. relay.thread = "accepted" /\ UNCHANGED <<workload, pc, failure, server, count, client, sshd>>
    BY <1>7 DEF RelayConnect
  <2>2. relay' \in [thread: {"pumping", "done"}, stop: BOOLEAN, error: BOOLEAN, listed: BOOLEAN]
    BY <1>7, ZenonT(60) DEF RelayConnect
  <2>3. pump' \in [Direction -> {"off", "recv"}] /\ \A d \in Direction : pump[d] = "off"
    BY <1>7, <2>1 DEF RelayConnect
  <2> QED BY <2>1, <2>2, <2>3
<1>8. CASE RelayJoin
  BY <1>8 DEF RelayJoin
<1>9. ASSUME NEW d \in Direction, PumpRecv(d) PROVE SampleInv'
  BY <1>9 DEF PumpRecv
<1>10. ASSUME NEW d \in Direction, PumpSend(d) PROVE SampleInv'
  BY <1>10 DEF PumpSend
<1>11. CASE SshdServe
  BY <1>11 DEF SshdServe
<1>12. CASE SshdEof
  BY <1>12 DEF SshdEof
<1>13. CASE ClientExits
  BY <1>13 DEF ClientExits
<1>14. CASE Terminates \/ Crashes
  BY <1>14 DEF Terminates, Crashes
<1> QED
  BY <1>1, <1>2, <1>3, <1>4, <1>5, <1>6, <1>7, <1>8, <1>9, <1>10, <1>11, <1>12, <1>13, <1>14
     DEF ServerThread, RelayThreads, Processes

\* The main thread's steps within a sample.
LEMMA MainKeepsInv ==
    ASSUME SampleInv, SampleStep \/ Corrupted \/ Interrupt
    PROVE  SampleInv'
<1> USE DEF SampleInv, Typed, Counts, FlowInv, Orderly, AnswerInv, PumpInv, MainInv, ServedInv, QuietInv, Quiet,
            Direction, Requests, Replies, Preparing, Ending, Running, Accepted, threadVars, netVars, Goto, Raise
<1>1. CASE StartServer
  BY <1>1 DEF StartServer
<1>2. CASE AwaitServer
  <2>1. CASE server.thread = "new" \/ server.error
    BY <1>2, <2>1 DEF AwaitServer
  <2>2. CASE ~(server.thread = "new" \/ server.error)
    <3>1. pc = "await_server" /\ pc' = "await_relay"
          /\ UNCHANGED <<workload, failure, server, pump, count, client, sshd>>
      BY <1>2, <2>2 DEF AwaitServer
    <3>2. relay' \in [thread: {"new"}, stop: BOOLEAN, error: BOOLEAN, listed: BOOLEAN]
          /\ count["request"].written = 0
      BY <1>2, <2>2 DEF AwaitServer
    <3> QED BY <3>1, <3>2
  <2> QED BY <2>1, <2>2
<1>3. CASE AwaitRelay
  BY <1>3 DEF AwaitRelay
<1>4. CASE StartClient
  BY <1>4 DEF StartClient
<1>5. CASE Exchange
  BY <1>5 DEF Exchange
<1>6. CASE ClientDone \/ Deadline \/ Corrupted
  BY <1>6 DEF ClientDone, Deadline, Corrupted
<1>7. CASE StopRelay
  BY <1>7, ZenonT(60) DEF StopRelay, CloseRelay
<1>8. CASE JoinRelay
  BY <1>8 DEF JoinRelay, RelayJoined
<1>9. CASE AwaitSshd
  BY <1>9 DEF AwaitSshd
<1>10. CASE StopServer
  BY <1>10, ZenonT(60) DEF StopServer
<1>11. CASE JoinServer
  BY <1>11 DEF JoinServer
<1>12. CASE Interrupt
  BY <1>12 DEF Interrupt
<1> QED
  BY <1>1, <1>2, <1>3, <1>4, <1>5, <1>6, <1>7, <1>8, <1>9, <1>10, <1>11, <1>12 DEF SampleStep

\* Between the samples: a sample begins with fresh objects, and main counts
\* only one that raised nothing.
LEMMA ScheduleKeepsInv ==
    ASSUME BenchInv,
           BeginSample \/ SampleFails \/ KeepResult \/ WritePartial \/ WriteResults \/ Exit
    PROVE  SampleInv'
<1> USE DEF BenchInv, SampleInv, Typed, Counts, FlowInv, Orderly, AnswerInv, PumpInv, MainInv, ServedInv,
            QuietInv, Quiet, Direction, Requests, Replies, Preparing, Ending, Running, Accepted, threadVars, netVars
<1>1. CASE BeginSample
  <2>1. CASE pc' = "partial"
    BY <1>1, <2>1 DEF BeginSample, Fresh
  <2>2. CASE pc' # "partial"
    <3>1. Fresh(Cell.workload) /\ pc' = "start_server"
      BY <1>1, <2>2 DEF BeginSample
    <3>2. Cell.workload \in {"bulk", "interactive"}
      BY <1>1, WorkloadAssumption DEF BeginSample, Cell, KeepInv
    <3> QED BY <3>1, <3>2 DEF Fresh
  <2> QED BY <2>1, <2>2
<1>2. CASE SampleFails
  BY <1>2 DEF SampleFails
<1>3. CASE KeepResult
  BY <1>3 DEF KeepResult
<1>4. CASE WritePartial
  BY <1>4 DEF WritePartial
<1>5. CASE WriteResults
  BY <1>5 DEF WriteResults
<1>6. CASE Exit
  BY <1>6 DEF Exit
<1> QED
  BY <1>1, <1>2, <1>3, <1>4, <1>5, <1>6

\* The directories and files.
LEMMA KeepInvStep == ASSUME BenchInv, Next PROVE KeepInv'
<1> USE DEF BenchInv, KeepInv
<1>1. CASE Sample
  <2>1. UNCHANGED mainVars
    BY <1>1 DEF Sample
  <2>2. Directory' = Directory
    BY <2>1 DEF mainVars, Directory, Cell
  <2>3. pc' # pc => pc \in InSample /\ pc' \in InSample
    BY <1>1 DEF Sample, SampleStep, ServerThread, RelayThreads, Processes, Misfortune, InSample,
                Preparing, Ending, StartServer, AwaitServer, AwaitRelay, StartClient, Exchange,
                ClientDone, Deadline, StopRelay, JoinRelay, AwaitSshd, StopServer, JoinServer,
                Corrupted, Interrupt, Crashes, ServerBind, ServerBindFails, ServerAccept, ServerSpawn,
                ServerReap, RelayBind, RelayBindFails, RelayAccept, RelayConnect, RelayJoin, PumpRecv,
                PumpSend, SshdServe, SshdEof, ClientExits, Terminates, Goto, Raise
  <2> QED BY <2>1, <2>2, <2>3 DEF mainVars
<1>2. CASE BeginSample
  <2>1. Directory' = Directory
    BY <1>2 DEF BeginSample, Directory, Cell
  <2> QED BY <1>2, <2>1 DEF BeginSample, InSample, Preparing, Ending
<1>3. CASE SampleFails
  BY <1>3 DEF SampleFails, mainVars, InSample, Preparing, Ending
<1>4. CASE KeepResult
  <2>1. Directory \notin results /\ Directory \in dirs /\ files = {}
    BY <1>4 DEF KeepResult, InSample, Ending
  <2>2. IsFiniteSet(results \union {Directory})
        /\ Cardinality(results \union {Directory}) = Cardinality(results) + 1
    BY <2>1, FS_AddElement
  <2>3. CASE pc' = "next"
    <3>1. results' = results \union {Directory} /\ dirs' = dirs /\ files' = files /\ plan' = plan
          /\ position' = position + 1
      BY <1>4, <2>3 DEF KeepResult
    <3>2. \/ samples' = Append(samples, position) /\ diagnoses' = diagnoses
          \/ diagnoses' = Append(diagnoses, position) /\ samples' = samples
      BY <1>4, <2>3 DEF KeepResult
    <3>3. samples' \in Seq(Nat) /\ diagnoses' \in Seq(Nat)
          /\ Len(samples') + Len(diagnoses') = Len(samples) + Len(diagnoses) + 1
      <4>1. CASE samples' = Append(samples, position) /\ diagnoses' = diagnoses
        BY <4>1
      <4>2. CASE diagnoses' = Append(diagnoses, position) /\ samples' = samples
        BY <4>2
      <4> QED BY <3>2, <4>1, <4>2
    <3> QED BY <2>1, <2>2, <2>3, <3>1, <3>3 DEF InSample, Preparing, Ending
  <2>4. CASE pc' = "partial" /\ UNCHANGED <<position, results, samples, diagnoses, plan, dirs, files>>
    BY <2>1, <2>4 DEF InSample, Preparing, Ending
  <2> QED BY <1>4, <2>3, <2>4 DEF KeepResult
<1>5. CASE WritePartial
  BY <1>5 DEF WritePartial, InSample, Preparing, Ending
<1>6. CASE WriteResults
  BY <1>6 DEF WriteResults, InSample, Preparing, Ending
<1>7. CASE Exit
  BY <1>7 DEF Exit, mainVars, InSample, Preparing, Ending
<1> QED
  BY <1>1, <1>2, <1>3, <1>4, <1>5, <1>6, <1>7 DEF Next

\* The positions.
LEMMA PlaceInvStep == ASSUME BenchInv, Next PROVE PlaceInv'
<1> DEFINE n == Len(Schedule(plan))
           t == Timed(plan)
<1>1. /\ plan \in Plans /\ samples \in Seq(Nat) /\ diagnoses \in Seq(Nat)
      /\ t \in Nat /\ n \in Nat /\ t <= n /\ DOMAIN Schedule(plan) = 1..n
  BY LengthsAre DEF BenchInv, KeepInv
<1>2. plan' = plan
  BY DEF Next, Sample, BeginSample, SampleFails, KeepResult, WritePartial, WriteResults, Exit, mainVars
<1>3. Schedule(plan)' = Schedule(plan) /\ Timed(plan)' = Timed(plan)
  BY <1>2
<1>4. PlaceInv
  BY DEF BenchInv
<1>5. CASE UNCHANGED <<position, samples, diagnoses, files>> /\ (pc' \in InSample => pc \in InSample)
  BY <1>2, <1>4, <1>5 DEF PlaceInv
<1>6. CASE Sample
  <2>1. UNCHANGED mainVars
    BY <1>6 DEF Sample
  <2>2. pc' # pc => pc \in InSample
    BY <1>6 DEF Sample, SampleStep, ServerThread, RelayThreads, Processes, Misfortune, InSample,
                Preparing, Ending, StartServer, AwaitServer, AwaitRelay, StartClient, Exchange,
                ClientDone, Deadline, StopRelay, JoinRelay, AwaitSshd, StopServer, JoinServer,
                Corrupted, Interrupt, Crashes, ServerBind, ServerBindFails, ServerAccept, ServerSpawn,
                ServerReap, RelayBind, RelayBindFails, RelayAccept, RelayConnect, RelayJoin, PumpRecv,
                PumpSend, SshdServe, SshdEof, ClientExits, Terminates, Goto, Raise
  <2> QED BY <1>5, <2>1, <2>2 DEF mainVars
<1>7. CASE BeginSample
  <2>1. position \in 1..n /\ UNCHANGED <<position, samples, diagnoses, files>>
    BY <1>1, <1>7 DEF BeginSample
  <2> QED BY <1>1, <1>2, <1>4, <2>1 DEF PlaceInv
<1>8. CASE KeepResult
  <2>1. position \in 1..n /\ files' = files /\ files = {}
    BY <1>1, <1>4, <1>8 DEF KeepResult, PlaceInv, InSample, Ending, BenchInv, KeepInv
  <2>2. CASE UNCHANGED <<position, samples, diagnoses>> /\ pc' = "partial"
    BY <1>5, <1>8, <2>1, <2>2 DEF InSample, Preparing, Ending
  <2>3. CASE position <= t /\ samples' = Append(samples, position) /\ diagnoses' = diagnoses
             /\ position' = position + 1 /\ pc' = "next"
    <3>1. Len(samples) = position - 1 /\ Len(diagnoses) = 0 /\ \A i \in 1..Len(samples) : samples[i] = i
      BY <1>4, <2>3 DEF PlaceInv
    <3>2. Len(samples') = position /\ \A i \in 1..position : samples'[i] = i
      BY <1>1, <2>1, <2>3, <3>1
    <3> HIDE DEF n, t
    <3>3. /\ position' \in 1..(n + 1)
          /\ Len(samples') = IF position' <= t THEN position' - 1 ELSE t
          /\ Len(diagnoses') = IF position' <= t THEN 0 ELSE (position' - 1) - t
          /\ \A i \in 1..Len(diagnoses') : diagnoses'[i] = t + i
      BY <1>1, <2>1, <2>3, <3>1, <3>2
    <3> QED BY <1>3, <2>1, <2>3, <3>2, <3>3 DEF PlaceInv, InSample, Preparing, Ending, n, t
  <2>4. CASE ~(position <= t) /\ diagnoses' = Append(diagnoses, position) /\ samples' = samples
             /\ position' = position + 1 /\ pc' = "next"
    <3>1. /\ Len(samples) = t /\ Len(diagnoses) = (position - 1) - t
          /\ \A i \in 1..Len(samples) : samples[i] = i
          /\ \A i \in 1..Len(diagnoses) : diagnoses[i] = t + i
      BY <1>4, <2>4 DEF PlaceInv
    <3> HIDE DEF n, t
    <3>2. Len(diagnoses') = position - t /\ \A i \in 1..(position - t) : diagnoses'[i] = t + i
      <4>1. /\ Len(diagnoses') = Len(diagnoses) + 1 /\ diagnoses'[Len(diagnoses) + 1] = position
            /\ \A i \in 1..Len(diagnoses) : diagnoses'[i] = diagnoses[i]
        BY <1>1, <2>1, <2>4
      <4>2. Len(diagnoses) + 1 = position - t /\ Len(diagnoses) \in Nat /\ t + (position - t) = position
        BY <1>1, <2>1, <3>1
      <4>3. \A i \in 1..(position - t) : i \in 1..Len(diagnoses) \/ i = Len(diagnoses) + 1
        BY <4>2
      <4> QED BY <3>1, <4>1, <4>2, <4>3
    <3>3. /\ position' \in 1..(n + 1)
          /\ Len(samples') = IF position' <= t THEN position' - 1 ELSE t
          /\ Len(diagnoses') = IF position' <= t THEN 0 ELSE (position' - 1) - t
      BY <1>1, <2>1, <2>4, <3>1, <3>2
    <3> QED BY <1>3, <2>1, <2>4, <3>1, <3>2, <3>3 DEF PlaceInv, InSample, Preparing, Ending, n, t
  <2> QED BY <1>8, <2>2, <2>3, <2>4 DEF KeepResult
<1>9. CASE SampleFails
  BY <1>5, <1>9 DEF SampleFails, mainVars, InSample, Preparing, Ending
<1>10. CASE WritePartial
  <2>1. "results.json" \notin files'
    BY <1>10 DEF WritePartial, BenchInv, KeepInv
  <2> QED BY <1>2, <1>4, <1>10, <2>1 DEF WritePartial, PlaceInv, InSample, Preparing, Ending
<1>11. CASE WriteResults
  <2>1. position \notin 1..n /\ UNCHANGED <<position, samples, diagnoses>> /\ pc' = "exit"
    BY <1>1, <1>11 DEF WriteResults
  <2>2. position = n + 1
    BY <1>1, <1>4, <2>1 DEF PlaceInv
  <2> QED BY <1>2, <1>4, <2>1, <2>2 DEF PlaceInv, InSample, Preparing, Ending
<1>12. CASE Exit
  BY <1>5, <1>12 DEF Exit, mainVars, InSample, Preparing, Ending
<1> QED
  BY <1>6, <1>7, <1>8, <1>9, <1>10, <1>11, <1>12 DEF Next

LEMMA BenchInvStep == BenchInv /\ [Next]_vars => BenchInv'
<1> SUFFICES ASSUME BenchInv, [Next]_vars PROVE BenchInv'
  OBVIOUS
<1>1. CASE Next
  <2>1. SampleInv'
    BY <1>1, OthersKeepInv, MainKeepsInv, ScheduleKeepsInv DEF BenchInv, Next, Sample, Misfortune
  <2>2. KeepInv'
    BY <1>1, KeepInvStep
  <2>3. PlaceInv'
    BY <1>1, PlaceInvStep
  <2> QED BY <2>1, <2>2, <2>3 DEF BenchInv
<1>2. CASE UNCHANGED vars
  <2>1. SampleInv' /\ KeepInv'
    BY <1>2 DEF vars, sampleVars, mainVars, BenchInv, SampleInv, Typed, FlowInv, AnswerInv, PumpInv, MainInv,
                ServedInv, QuietInv, Quiet, Requests, Replies, KeepInv, Directory, Cell
  <2>2. PlaceInv'
    BY <1>2 DEF vars, sampleVars, mainVars, BenchInv, PlaceInv
  <2> QED BY <2>1, <2>2 DEF BenchInv
<1> QED BY <1>1, <1>2

LEMMA BenchInvAlways == Spec => []BenchInv
BY BenchInvInit, BenchInvStep, PTL DEF Spec
-----------------------------------------------------------------------------
\* A kept sample carried its whole workload through both pumps of
\* DelayedRelay, and ssh and sshd ended by themselves, for workloads of every
\* size (_run_sample).
THEOREM KeptSamplesAreWhole == Spec => []ResultsAreWhole
<1>1. BenchInv => ResultsAreWhole
  <2> SUFFICES ASSUME BenchInv, pc = "sampled", failure = "none"
               PROVE  ResultsAreWhole
    BY DEF ResultsAreWhole
  <2>1. ServedInv /\ sshd \in Accepted /\ ~relay.error
    BY DEF BenchInv, SampleInv, MainInv, Ending
  <2>2. count["request"].read = Requests
    <3>1. count["request"] \in Counts /\ count["reply"] \in Counts
      BY DEF BenchInv, SampleInv, Typed, Direction
    <3>2. count["request"].read <= Requests /\ Replies <= count["reply"].written
      BY <2>1, <3>1 DEF BenchInv, SampleInv, FlowInv, AnswerInv, Orderly, ServedInv, Direction, Counts, Requests
    <3>3. CASE workload = "interactive"
      <4>1. Requests = Units + 2 /\ Replies = Units + 2
        BY <3>3 DEF Requests, Replies
      <4>2. count["reply"].written <= count["request"].read
        BY <3>3 DEF BenchInv, SampleInv, FlowInv, AnswerInv
      <4> QED BY <3>1, <3>2, <4>1, <4>2 DEF Counts
    <3>4. CASE workload = "bulk"
      <4>1. Requests = 1 /\ Replies = Units + 1
        BY <3>4 DEF Requests, Replies
      <4>2. count["request"].read # 0
        BY <3>1, <3>2, <3>4, <4>1 DEF BenchInv, SampleInv, FlowInv, AnswerInv, Counts
      <4> QED BY <3>1, <3>2, <4>1, <4>2 DEF Counts
    <3> QED BY <3>3, <3>4 DEF BenchInv, SampleInv, Typed
  <2> QED BY <2>1, <2>2 DEF ResultsAreWhole, ServedInv
<1> QED BY <1>1, BenchInvAlways, PTL

\* What a run that failed says it kept is in the directories, and it never
\* looks finished, for every schedule (main).
THEOREM KeptIsThere == Spec => []EvidenceIsKept
<1>1. BenchInv => EvidenceIsKept
  BY DEF BenchInv, KeepInv, EvidenceIsKept
<1> QED BY <1>1, BenchInvAlways, PTL

\* No thread, ssh or sshd of an earlier sample runs when the next one begins,
\* although every wait for them has a timeout.
THEOREM SamplesAreApart == Spec => SamplesDoNotOverlap
<1>1. BenchInv /\ [Next]_vars =>
        [BeginSample => /\ {client, sshd} \intersect Running = {}
                        /\ {server.thread, relay.thread} \subseteq {"off", "done"}]_vars
  BY DEF BenchInv, SampleInv, QuietInv, Quiet, BeginSample
<1> QED BY <1>1, BenchInvAlways, PTL DEF Spec, SamplesDoNotOverlap
\* results.json compares like with like for every plan and any number of
\* repetitions, half of which have the limits reversed: the rows of an RTT and
\* a workload hold every limit equally often, and every cell was diagnosed if
\* the run diagnoses (the loops of main).
THEOREM SamplesAreMatched == Spec => []ResultsAreMatched
<1>1. BenchInv => ResultsAreMatched
  <2> SUFFICES ASSUME BenchInv, "results.json" \in files PROVE ResultsAreMatched
    BY DEF ResultsAreMatched
  <2> DEFINE n == Len(Schedule(plan))
             t == Timed(plan)
             Of(cell) == {i \in 1..Len(samples) : Schedule(plan)[samples[i]] = cell}
             cells == {Schedule(plan)[i] : i \in DOMAIN Schedule(plan)}
  <2>1. plan \in Plans
    BY DEF BenchInv, KeepInv
  <2>2. /\ Timings(plan) \in Seq(Grid(plan)) /\ Diagnoses(plan) \in Seq(Grid(plan))
        /\ Joins(Grid(plan), Timings(plan), Diagnoses(plan), Schedule(plan))
        /\ Len(Timings(plan)) = t /\ t \in Nat
        /\ plan.diagnose => Grid(plan) \subseteq ToSet(Diagnoses(plan))
    BY <2>1, ScheduleIs
  <2>3. /\ n \in Nat /\ t <= n /\ n = t + Len(Diagnoses(plan)) /\ DOMAIN Schedule(plan) = 1..n
        /\ Len(Diagnoses(plan)) \in Nat
        /\ cells \subseteq Grid(plan)
    <3>1. n = t + Len(Diagnoses(plan)) /\ Schedule(plan) \in Seq(Grid(plan)) /\ Len(Diagnoses(plan)) \in Nat
      BY <2>2 DEF Joins
    <3> QED BY <2>2, <3>1
  <2>4. /\ Len(samples) = t /\ Len(diagnoses) = n - t
        /\ \A i \in 1..t : samples[i] = i
        /\ \A i \in 1..(n - t) : diagnoses[i] = t + i
        /\ diagnoses \in Seq(Nat)
    <3>1. position = n + 1 /\ PlaceInv /\ diagnoses \in Seq(Nat)
      BY DEF BenchInv, PlaceInv, KeepInv
    <3>2. ~(position <= t) /\ (position - 1) - t = n - t
      BY <2>2, <2>3, <3>1
    <3> QED BY <3>1, <3>2 DEF PlaceInv
  <2>5. ASSUME NEW a \in cells PROVE Cardinality(Of(a)) = Count(Timings(plan), a)
    <3>1. \A i \in 1..t : samples[i] = i /\ Schedule(plan)[i] = Timings(plan)[i]
      BY <2>2, <2>3, <2>4 DEF Joins
    <3>2. DOMAIN Timings(plan) = 1..t /\ Len(samples) = t
      BY <2>2, <2>4
    <3>3. Of(a) = {i \in DOMAIN Timings(plan) : Timings(plan)[i] = a}
      BY <3>1, <3>2
    <3> QED BY <3>3 DEF Count
  <2>6. ASSUME NEW a \in cells, NEW b \in cells, Alike(a, b)
        PROVE  Cardinality(Of(a)) = Cardinality(Of(b))
    <3>1. Count(Timings(plan), a) = Count(Timings(plan), b)
      BY <2>1, <2>3, <2>6, TimingsAreBalanced DEF Balanced
    <3> QED BY <2>5, <3>1
  <2>7. ASSUME NEW a \in cells, plan.diagnose
        PROVE  \E i \in DOMAIN diagnoses : Schedule(plan)[diagnoses[i]] = a
    <3>1. PICK i \in DOMAIN Diagnoses(plan) : Diagnoses(plan)[i] = a
      BY <2>2, <2>3, <2>7 DEF ToSet
    <3>2. i \in 1..(n - t) /\ t + i \in 1..n /\ ~(t + i <= t) /\ (t + i) - t = i
      BY <2>2, <2>3
    <3>3. Schedule(plan)[t + i] = a
      BY <2>2, <2>3, <3>1, <3>2 DEF Joins
    <3>4. i \in DOMAIN diagnoses /\ diagnoses[i] = t + i
      BY <2>4, <3>2
    <3> QED BY <3>3, <3>4
  <2> HIDE DEF Of, cells
  <2>8. \A a, b \in cells :
          /\ a.rtt = b.rtt /\ a.workload = b.workload => Cardinality(Of(a)) = Cardinality(Of(b))
          /\ plan.diagnose => \E i \in DOMAIN diagnoses : Schedule(plan)[diagnoses[i]] = a
    BY <2>6, <2>7 DEF Alike
  <2> QED BY <2>8 DEF ResultsAreMatched, Of, cells
<1> QED BY <1>1, BenchInvAlways, PTL
=============================================================================
