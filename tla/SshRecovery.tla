---------------------------- MODULE SshRecovery ----------------------------
(***************************************************************************)
(* derive_ssh (decryptor/ssh/derive_ssh.py), its packet decoder            *)
(* (decryptor/core/ssh_crypto.py) and the oracle process it talks to       *)
(* (decryptor/ssh/oracle.py), run on the archive of a session produced by  *)
(* module SshSession.                                                      *)
(*                                                                         *)
(* An archived packet opens under a key exactly when it was sealed with    *)
(* that key and sequence number: the ciphers and signatures are ideal.     *)
(* Two processes take steps: the recovering process and the oracle         *)
(* process, joined by a pipe.  poll(5) may expire whenever the pipe is     *)
(* empty; the oracle process may die at any moment.                        *)
(***************************************************************************)
EXTENDS SshSession, SequencesExt

CONSTANTS
    Inputs,       \* what the capture may leave to a run: a subset of InputKinds
    MayDie        \* whether the oracle process may die by itself

\* The PCAP, the pair of recorded streams, the negotiated algorithms, the
\* recovery file and the ground-truth file that a run finds.
InputKinds ==
    [pcap: {"absent", "no_kex", "usable"}, bins: BOOLEAN, suite: {"expected", "kex", "cipher"},
     oracle: {"complete", "short", "wrong", "mislabelled", "malformed", "missing"},
     truth: {"absent", "match", "mismatch", "malformed"}]

ASSUME RecoveryAssumption == Inputs \subseteq InputKinds /\ MayDie \in BOOLEAN

VARIABLES
    input,       \* the member of Inputs at hand, chosen when the capture ends
    cut,         \* cut[d]: complete packets archived in direction d
    torn,        \* torn[d]: a truncated packet follows them
    pc,          \* control point of the recovering process
    result,      \* "none", "success" or the exception that ended the run
    kex,         \* public values of the exchange being recovered
    epoch, key, sid,
    pos,         \* pos[d]: archived packets consumed
    seq,         \* seq[d]: next sequence number of the decoder
    auth,        \* auth[d]: packets authenticated so far
    counts,      \* epoch_packet_counts
    chunks,      \* channel_chunks
    scalar,      \* the private value obtained for this epoch
    trace,       \* release_trace
    truthRead,   \* the ground-truth file has been opened
    proc,        \* oracle process: "none", "boot", "serve" or "exited"
    recoveries,  \* the oracle's recovery records
    used,        \* indices of records already released
    toOracle, toClient  \* the two directions of the pipe

archiveVars == <<input, cut, torn>>
decoderVars == <<kex, epoch, key, sid, pos, seq, auth, counts, chunks, scalar>>
oracleVars  == <<proc, recoveries, used>>
pipeVars    == <<toOracle, toClient>>
vars == <<sessionVars, archiveVars, pc, result, decoderVars, trace, truthRead,
          oracleVars, pipeVars>>

NoKey == [K |-> <<>>, H |-> <<>>, sid |-> <<>>]
NoInput == [pcap |-> "absent", bins |-> FALSE, suite |-> "expected",
            oracle |-> "missing", truth |-> "absent"]
NoKex == Transcript(-1)
Quit  == -1         \* connection.send(None)
Event  == [epoch: Nat, pub: Int, after: Nat,
           status: {"requested", "timeout", "rejected", "inconsistent", "released"}]
Record == [pub: Nat, priv: Nat]
Reply  == [ok: BOOLEAN, priv: Int]

Init ==
    /\ SessionInit
    /\ input = NoInput
    /\ cut = [d \in Dir |-> 0] /\ torn = [d \in Dir |-> FALSE]
    /\ pc = "capture" /\ result = "none"
    /\ kex = NoKex /\ epoch = 0 /\ key = NoKey /\ sid = <<>>
    /\ pos = [d \in Dir |-> 0] /\ seq = [d \in Dir |-> 0]
    /\ auth = [d \in Dir |-> 0] /\ counts = <<>> /\ chunks = <<>> /\ scalar = -1
    /\ trace = <<>> /\ truthRead = FALSE
    /\ proc = "none" /\ recoveries = <<>> /\ used = {}
    /\ toOracle = <<>> /\ toClient = <<>>
-----------------------------------------------------------------------------
(* The capture ends.  Either direction may have lost its last packet, or   *)
(* hold only a part of it.                                                 *)

\* The hook records of the client: one per exchange whose share it made.
ClientShares == Cardinality({i \in DOMAIN sent["c2s"] : sent["c2s"][i].type = "ECDH_INIT"})

RecordedScalars(kind) ==
    LET n == IF kind = "short" /\ ClientShares > 0 THEN ClientShares - 1 ELSE ClientShares
    IN  [i \in 1..n |-> [pub  |-> i - 1,
                         priv |-> IF kind = "wrong" /\ i = n THEN i ELSE i - 1]]

Session ==
    /\ pc = "capture"
    /\ SessionStep
    /\ UNCHANGED <<archiveVars, pc, result, decoderVars, trace, truthRead, oracleVars, pipeVars>>

StopCapture ==
    /\ pc = "capture"
    /\ \E lost \in {"nothing"} \union Dir, half \in BOOLEAN :
          /\ lost = "nothing" => ~half
          /\ lost # "nothing" => sent[lost] # <<>>
          /\ cut' = [d \in Dir |-> IF d = lost THEN Len(sent[d]) - 1 ELSE Len(sent[d])]
          /\ torn' = [d \in Dir |-> d = lost /\ half]
    /\ \E i \in Inputs : input' = i /\ recoveries' = RecordedScalars(i.oracle)
    /\ pc' = "load"
    /\ UNCHANGED <<sessionVars, result, decoderVars, trace, truthRead, proc, used, pipeVars>>
-----------------------------------------------------------------------------
(* Parsing the archive.                                                    *)

\* Plaintext packets of a direction up to and including its first NEWKEYS.
PlainEnd(d) == {i \in 1..cut[d] : /\ sent[d][i].type = "NEWKEYS"
                                  /\ \A j \in 1..(i - 1) : sent[d][j].type # "NEWKEYS"}

\* The position of the first packet of a type among from..to; 0 if none.
FirstOf(d, type, from, to) ==
    LET first == {i \in from..to : /\ sent[d][i].type = type
                                   /\ \A j \in from..(i - 1) : sent[d][j].type # type}
    IN  IF first = {} THEN 0 ELSE CHOOSE i \in first : TRUE

\* extract_kex_exchange on packets from[d]..to[d] of each direction.
KexMessages(from, to) ==
    [I_C |-> FirstOf("c2s", "KEXINIT", from["c2s"], to["c2s"]),
     I_S |-> FirstOf("s2c", "KEXINIT", from["s2c"], to["s2c"]),
     Q_C |-> FirstOf("c2s", "ECDH_INIT", from["c2s"], to["c2s"]),
     Q_S |-> FirstOf("s2c", "ECDH_REPLY", from["s2c"], to["s2c"])]

extract_kex_exchange(at) ==
    [I_C |-> sent["c2s"][at.I_C].kex, I_S |-> sent["s2c"][at.I_S].kex,
     Q_C |-> sent["c2s"][at.Q_C].kex, Q_S |-> sent["s2c"][at.Q_S].kex]

AllFound(at) == at.I_C # 0 /\ at.I_S # 0 /\ at.Q_C # 0 /\ at.Q_S # 0

\* The handler at the end of derive_ssh; a live oracle is closed in finally.
Fail(error) ==
    /\ result' = error
    /\ pc' = IF proc = "none" THEN "done" ELSE "close"

\* A PCAP that exists is the only source tried; the recorded streams are
\* read when there is none.
WireFound == input.pcap = "usable" \/ (input.pcap = "absent" /\ input.bins)

LoadWire ==
    /\ pc = "load"
    /\ IF ~WireFound \/ \E d \in Dir : PlainEnd(d) = {}
       THEN /\ Fail("no_kex")
            /\ UNCHANGED decoderVars
       ELSE LET end == [d \in Dir |-> CHOOSE i \in PlainEnd(d) : TRUE]
                at  == KexMessages([d \in Dir |-> 1], end)
            IN  IF ~AllFound(at)
                THEN Fail("no_kex") /\ UNCHANGED decoderVars
                ELSE /\ kex' = extract_kex_exchange(at)
                     /\ pos' = end
                     /\ seq' = end
                     /\ pc' = "start"
                     /\ UNCHANGED <<result, epoch, key, sid, auth, counts, chunks, scalar>>
    /\ UNCHANGED <<sessionVars, archiveVars, trace, truthRead, oracleVars, pipeVars>>
-----------------------------------------------------------------------------
(* SimulatedQuantumOracle.__init__                                         *)

\* Mutant: the ground truth is opened before the recovery.
StartOracleWithTruth ==
    /\ pc = "start"
    /\ pc' = "boot" /\ proc' = "boot"
    /\ truthRead' = TRUE
    /\ UNCHANGED <<sessionVars, archiveVars, result, decoderVars, trace, recoveries, used, pipeVars>>

StartOracle ==
    /\ pc = "start"
    /\ IF input.oracle = "missing"
       THEN Fail("FileNotFoundError") /\ UNCHANGED proc
       ELSE pc' = "boot" /\ proc' = "boot" /\ UNCHANGED result
    /\ UNCHANGED <<sessionVars, archiveVars, decoderVars, trace, truthRead, recoveries, used, pipeVars>>

\* The greeting, if it came; EOF if the process died; else poll(5) expires.
AwaitGreeting ==
    /\ pc = "boot"
    /\ \/ /\ toClient # <<>>
          /\ toClient' = Tail(toClient)
          /\ IF Head(toClient).ok
             THEN pc' = "check" /\ UNCHANGED result
             ELSE Fail("oracle_error")
       \/ /\ toClient = <<>> /\ proc = "exited"
          /\ result' = "EOFError" /\ pc' = "done"
          /\ UNCHANGED toClient
       \/ /\ toClient = <<>> /\ proc # "exited"
          /\ Fail("start_timeout")
          /\ UNCHANGED toClient
    /\ UNCHANGED <<sessionVars, archiveVars, decoderVars, trace, truthRead, oracleVars, toOracle>>

\* Negotiated algorithms and the labels of the recovery file.
CheckInputs ==
    /\ pc = "check"
    /\ IF input.suite # "expected" \/ input.oracle = "mislabelled"
       THEN Fail("unsupported")
       ELSE pc' = "ask" /\ UNCHANGED result
    /\ UNCHANGED <<sessionVars, archiveVars, decoderVars, trace, truthRead, oracleVars, pipeVars>>
-----------------------------------------------------------------------------
(* SimulatedQuantumOracle.recover                                          *)

Status(s) == [trace EXCEPT ![Len(trace)].status = s]

\* Mutant: the event is recorded for epoch 0 only.
RecordFirstRequest ==
    IF epoch > 0 THEN trace
    ELSE Append(trace, [epoch |-> 0, pub |-> kex.Q_C, after |-> 0, status |-> "requested"])

RecordRequest ==
    Append(trace, [epoch |-> epoch, pub |-> kex.Q_C, after |-> auth["c2s"] + auth["s2c"],
                   status |-> "requested"])

Ask ==
    /\ pc = "ask"
    /\ trace' = RecordRequest
    /\ IF proc = "exited"
       THEN Fail("BrokenPipeError") /\ UNCHANGED toOracle
       ELSE pc' = "wait" /\ toOracle' = Append(toOracle, kex.Q_C) /\ UNCHANGED result
    /\ UNCHANGED <<sessionVars, archiveVars, decoderVars, truthRead, oracleVars, toClient>>

\* A reply is checked before its scalar is used: the public value that the
\* scalar generates must be the one asked about.
TakeReply ==
    /\ pc = "wait"
    /\ toClient # <<>>
    /\ toClient' = Tail(toClient)
    /\ LET reply == Head(toClient)
       IN  \/ /\ ~reply.ok
              /\ trace' = Status("rejected") /\ Fail("rejected")
              /\ UNCHANGED scalar
           \/ /\ reply.ok /\ reply.priv # kex.Q_C
              /\ trace' = Status("inconsistent") /\ Fail("inconsistent")
              /\ UNCHANGED scalar
           \/ /\ reply.ok /\ reply.priv = kex.Q_C
              /\ trace' = Status("released") /\ pc' = "derive"
              /\ scalar' = reply.priv
              /\ UNCHANGED result
    /\ UNCHANGED <<sessionVars, archiveVars, kex, epoch, key, sid, pos, seq, auth, counts, chunks,
                   truthRead, oracleVars, toOracle>>

\* Mutant: recv() without poll(5).
BlockingReceive ==
    /\ pc = "wait"
    /\ toClient = <<>>
    /\ proc = "exited"
    /\ Fail("EOFError")
    /\ UNCHANGED <<sessionVars, archiveVars, decoderVars, trace, truthRead, oracleVars, pipeVars>>

ReplyTimeout ==
    /\ pc = "wait"
    /\ toClient = <<>>
    /\ IF proc = "exited"
       THEN Fail("EOFError") /\ UNCHANGED trace
       ELSE Fail("timeout") /\ trace' = Status("timeout")
    /\ UNCHANGED <<sessionVars, archiveVars, decoderVars, truthRead, oracleVars, pipeVars>>
-----------------------------------------------------------------------------
(* Key derivation and decryption of one epoch.                             *)

\* X25519 of the recovered client scalar and the server's share.
shared_secret == IF scalar = kex.Q_S THEN secrets[kex.Q_S + 1] ELSE <<>>

compute_exchange_hash == <<kex, ssh_mpint(shared_secret)>>

\* The server signed the exchange hash that it computed itself.
verify_ed25519_kex_signature(H) == H = EndpointH(kex.Q_S)

\* The six keys of an epoch are a function of K, H and the session id.
derive_ssh_keys(H, id) == [K |-> encode_ssh_mpint(shared_secret), H |-> H, sid |-> id]

\* Mutant: the decoder restarts its sequence numbers at every NEWKEYS.
AlwaysRestart == [d \in Dir |-> 0]

FirstSequence == IF strict THEN [d \in Dir |-> 0] ELSE seq

\* The exchange hash is recomputed and checked against the server's
\* signature; keys come from K, H and the initial H.  Sequence numbers
\* restart at zero under strict KEX and continue otherwise.
Derive ==
    LET H == compute_exchange_hash
        id == IF epoch = 0 THEN H ELSE sid
    IN  /\ pc = "derive"
        /\ IF ~verify_ed25519_kex_signature(H)
           THEN Fail("InvalidSignature") /\ UNCHANGED <<key, sid, seq>>
           ELSE /\ key' = derive_ssh_keys(H, id)
                /\ sid' = id
                /\ seq' = FirstSequence
                /\ pc' = "decrypt"
                /\ UNCHANGED result
        /\ UNCHANGED <<sessionVars, archiveVars, kex, epoch, pos, auth, counts, chunks, scalar,
                       trace, truthRead, oracleVars, pipeVars>>

\* decrypt_chachapoly_packet authenticates archived packet i of direction d.
Opens(d, i) ==
    /\ EndpointKey(sent[d][i].key) = key
    /\ sent[d][i].seq = (seq[d] + (i - pos[d] - 1)) % SeqLimit

\* decrypt_chachapoly_epoch: through the next NEWKEYS, or to the end.
Opened(d) == {i \in (pos[d] + 1)..cut[d] : \A j \in (pos[d] + 1)..i : Opens(d, j)}
Boundary(d) == {i \in Opened(d) : /\ sent[d][i].type = "NEWKEYS"
                                  /\ \A j \in (pos[d] + 1)..(i - 1) : sent[d][j].type # "NEWKEYS"}
ReachesNewKeys(d) == Boundary(d) # {}
EpochEnd(d) == IF ReachesNewKeys(d) THEN CHOOSE i \in Boundary(d) : TRUE ELSE cut[d]
\* Mutant: a truncated last packet is taken for the end of the stream.
UndecryptableButTorn(d) == ~ReachesNewKeys(d) /\ Opened(d) # (pos[d] + 1)..cut[d]

Undecryptable(d) ==
    ~ReachesNewKeys(d) /\ (torn[d] \/ Opened(d) # (pos[d] + 1)..cut[d])

\* The channel data among packets, in order.
ChannelData(packets) ==
    FoldLeft(LAMBDA data, p : IF p.type = "CHANNEL_DATA" THEN Append(data, p.body) ELSE data,
             <<>>, packets)

\* Mutant: the scan starts at the first archived packet again.
channel_data_from_start(from, to) == ChannelData(SubSeq(sent["s2c"], 1, to))

channel_data(from, to) == ChannelData(SubSeq(sent["s2c"], from, to))

DecryptEpoch ==
    LET end == [d \in Dir |-> EpochEnd(d)]
        count == [d \in Dir |-> end[d] - pos[d]]
        at == KexMessages([d \in Dir |-> pos[d] + 1], end)
    IN  /\ pc = "decrypt"
        /\ IF \E d \in Dir : Undecryptable(d)
           THEN /\ Fail("ValueError")
                /\ UNCHANGED <<kex, epoch, pos, seq, auth, counts, chunks>>
           ELSE /\ auth' = [d \in Dir |-> auth[d] + count[d]]
                /\ counts' = Append(counts, count)
                /\ chunks' = chunks \o channel_data(pos["s2c"] + 1, end["s2c"])
                /\ pos' = end
                /\ seq' = [d \in Dir |-> (seq[d] + count[d]) % SeqLimit]
                /\ \/ /\ ReachesNewKeys("c2s") # ReachesNewKeys("s2c")
                      /\ Fail("one_sided_newkeys")
                      /\ UNCHANGED <<kex, epoch>>
                   \/ /\ \A d \in Dir : ~ReachesNewKeys(d)
                      /\ pc' = "finish"
                      /\ UNCHANGED <<result, kex, epoch>>
                   \/ /\ \A d \in Dir : ReachesNewKeys(d)
                      /\ IF AllFound(at)
                         THEN /\ kex' = extract_kex_exchange(at)
                              /\ epoch' = epoch + 1
                              /\ pc' = "ask"
                              /\ UNCHANGED result
                         ELSE Fail("missing_message") /\ UNCHANGED <<kex, epoch>>
        /\ UNCHANGED <<sessionVars, archiveVars, key, sid, scalar, trace, truthRead, oracleVars, pipeVars>>
-----------------------------------------------------------------------------
(* The end of a run.                                                       *)

CheckMarker ==
    /\ pc = "finish"
    /\ IF \E i \in DOMAIN chunks : chunks[i] = Marker
       THEN pc' = "truth" /\ UNCHANGED result
       ELSE Fail("no_marker")
    /\ UNCHANGED <<sessionVars, archiveVars, decoderVars, trace, truthRead, oracleVars, pipeVars>>

\* Absent or differing ground truth is reported, not fatal; a file that is
\* not JSON raises ValueError.
CompareTruth ==
    /\ pc = "truth"
    /\ truthRead' = (input.truth # "absent")
    /\ IF input.truth = "malformed"
       THEN Fail("bad_truth_file")
       ELSE result' = "success" /\ pc' = "close"
    /\ UNCHANGED <<sessionVars, archiveVars, decoderVars, trace, oracleVars, pipeVars>>

\* SimulatedQuantumOracle.close: ask it to quit, close the pipe, wait, and
\* terminate it if it is still alive after a second.
CloseOracle ==
    /\ pc = "close"
    /\ toOracle' = IF proc = "exited" THEN toOracle ELSE Append(toOracle, Quit)
    /\ pc' = "join"
    /\ UNCHANGED <<sessionVars, archiveVars, result, decoderVars, trace, truthRead, oracleVars, toClient>>

JoinOracle ==
    /\ pc = "join"
    /\ proc' = "exited"    \* it has exited, or terminate() ends it
    /\ pc' = "done"
    /\ UNCHANGED <<sessionVars, archiveVars, result, decoderVars, trace, truthRead, recoveries, used, pipeVars>>
-----------------------------------------------------------------------------
(* _oracle_server: the other process.                                      *)

OracleBoot ==
    /\ proc = "boot"
    /\ IF input.oracle = "malformed"
       THEN proc' = "exited" /\ toClient' = Append(toClient, [ok |-> FALSE, priv |-> -1])
       ELSE proc' = "serve" /\ toClient' = Append(toClient, [ok |-> TRUE, priv |-> -1])
    /\ UNCHANGED <<sessionVars, archiveVars, pc, result, decoderVars, trace, truthRead,
                   recoveries, used, toOracle>>

\* Records not yet released whose public value is the one asked about.
Matching(pub) == {i \in DOMAIN recoveries : i \notin used /\ recoveries[i].pub = pub}

\* Mutant: recoveries.pop(), whatever the public value.
PopRecord(pub) ==
    {i \in DOMAIN recoveries : i \notin used /\ \A j \in DOMAIN recoveries \ used : i >= j}

\* The first of them, if any.
FirstMatch(pub) == {i \in Matching(pub) : \A j \in Matching(pub) : i <= j}

MarkUsed(i) == used \union {i}

OracleServe ==
    /\ proc = "serve"
    /\ toOracle # <<>>
    /\ toOracle' = Tail(toOracle)
    /\ LET pub == Head(toOracle)
       IN  \/ /\ pub = Quit
              /\ proc' = "exited"
              /\ UNCHANGED <<used, toClient>>
           \/ /\ pub # Quit /\ FirstMatch(pub) = {}
              /\ toClient' = Append(toClient, [ok |-> FALSE, priv |-> -1])
              /\ UNCHANGED <<proc, used>>
           \/ /\ pub # Quit
              /\ \E i \in FirstMatch(pub) :
                    /\ used' = MarkUsed(i)
                    /\ toClient' = Append(toClient, [ok |-> TRUE, priv |-> recoveries[i].priv])
              /\ UNCHANGED proc
    /\ UNCHANGED <<sessionVars, archiveVars, pc, result, decoderVars, trace, truthRead, recoveries>>

\* The process is killed from outside.
OracleDies ==
    /\ MayDie
    /\ proc \in {"boot", "serve"}
    /\ proc' = "exited"
    /\ UNCHANGED <<sessionVars, archiveVars, pc, result, decoderVars, trace, truthRead,
                   recoveries, used, pipeVars>>
-----------------------------------------------------------------------------
Recover ==
    \/ LoadWire \/ StartOracle \/ AwaitGreeting \/ CheckInputs
    \/ Ask \/ TakeReply \/ ReplyTimeout
    \/ Derive \/ DecryptEpoch
    \/ CheckMarker \/ CompareTruth \/ CloseOracle \/ JoinOracle

OracleProcess == OracleBoot \/ OracleServe \/ OracleDies

Next == Session \/ StopCapture \/ Recover \/ OracleProcess

Spec == Init /\ [][Next]_vars

\* The recovering process is scheduled; nothing is assumed of the oracle.
FairSpec == Spec /\ WF_vars(Recover)
-----------------------------------------------------------------------------
(* Properties.                                                             *)

\* The variables of the session, of the recovering process (derive_ssh.py)
\* and of the oracle process (oracle.py) have their types; the decoder never
\* reads past the archived packets.
TypeOK ==
    /\ SessionTypeOK
    /\ input \in InputKinds
    /\ pc \in {"capture", "load", "start", "boot", "check", "ask", "wait", "derive",
               "decrypt", "finish", "truth", "close", "join", "done"}
    /\ cut \in [Dir -> Nat] /\ torn \in [Dir -> BOOLEAN]
    /\ \A d \in Dir : cut[d] <= Len(sent[d]) /\ pos[d] <= cut[d]
    /\ kex \in [I_C: Int, I_S: Int, Q_C: Int, Q_S: Int]
    /\ epoch \in Nat
    /\ pos \in [Dir -> Nat] /\ seq \in [Dir -> Nat] /\ auth \in [Dir -> Nat]
    /\ counts \in Seq([Dir -> Nat])
    /\ scalar \in Int
    /\ trace \in Seq(Event)
    /\ truthRead \in BOOLEAN
    /\ proc \in {"none", "boot", "serve", "exited"}
    /\ recoveries \in Seq(Record)
    /\ used \subseteq DOMAIN recoveries
    /\ toOracle \in Seq(Int)
    /\ toClient \in Seq(Reply)

ReleasedShares == {recoveries[i].pub : i \in used}

\* README: "The decoder obtains a later share only after authenticating and
\* decrypting the preceding transport epoch".  A scalar that has left the
\* oracle process belongs to an exchange all of whose preceding epochs
\* derive_ssh has authenticated in both directions.
CausalRelease == \A n \in ReleasedShares : n <= Len(counts)

\* The recovery implements the abstract ladder: epochs open one at a time,
\* and only the scalar that opens the next one is ever released.
Ladder == INSTANCE OracleLadder WITH opened <- Len(counts), released <- ReleasedShares
LadderSpec == Ladder!Spec

\* release_trace never under-reports: every scalar that left the oracle
\* process was requested by a recorded event, even when the reply came after
\* the client had given up, and what the client used is recorded as released.
TraceCoversReleases ==
    /\ \A n \in ReleasedShares : \E t \in DOMAIN trace : trace[t].pub = n
    /\ \A t \in DOMAIN trace : trace[t].status = "released" => trace[t].pub \in ReleasedShares

\* The channel data that the server really sent.
ServerData == ChannelData(sent["s2c"])

\* The plaintext recovered so far is a prefix of what the server sent, across
\* every rekey, with strict or continuing sequence numbers and their wrap.
RecoveredIsPrefix ==
    LET data == ServerData
    IN  Len(chunks) <= Len(data) /\ \A i \in DOMAIN chunks : chunks[i] = data[i]

\* derive_ssh reports success only when it has authenticated every archived
\* packet of both directions, in epochs that match the release trace: event t
\* was released after exactly the packets of the epochs before it.
SuccessIsComplete ==
    result = "success" =>
        /\ \A d \in Dir : pos[d] = cut[d] /\ ~torn[d]
        /\ keyNo["c2s"] >= epoch /\ keyNo["s2c"] >= epoch
        /\ Len(counts) = Len(trace) /\ Len(trace) = epoch + 1
        /\ \A t \in DOMAIN trace :
              /\ trace[t].status = "released" /\ trace[t].epoch = t - 1
              /\ t > 1 => trace[t].after = trace[t - 1].after
                                           + counts[t - 1]["c2s"] + counts[t - 1]["s2c"]

\* A session archived whole, with both directions on the same keys, the test
\* plaintext sent and an intact recovery file.
WholeSession ==
    /\ \A d \in Dir : cut[d] = Len(sent[d])
    /\ keyNo["c2s"] = keyNo["s2c"] /\ keyNo["c2s"] >= 0
    /\ \E i \in DOMAIN ServerData : ServerData[i] = Marker
    /\ WireFound /\ input.suite = "expected"
    /\ input.oracle = "complete" /\ input.truth # "malformed"

\* README: "recomputes the SSH mpint shared secret and exchange hash, verifies
\* the host signature ... and recovers SSH_TEST_OK".  The recovery of a whole
\* session fails only when the oracle process was late or died.
WholeSessionRecovered ==
    pc = "done" /\ WholeSession =>
        result \in {"success", "timeout", "start_timeout", "EOFError", "BrokenPipeError"}

\* "This file is intentionally opened only after archive-only recovery and
\* authentication have succeeded": nothing is learned once it was read.
NothingLearnedFromTruth ==
    [][truthRead' => UNCHANGED <<decoderVars, trace>>]_vars

\* A run that has started ends, and leaves no oracle process behind, however
\* the oracle behaves: poll(5), join(1) and terminate bound every wait.
RecoveryTerminates ==
    pc = "load" ~> pc = "done" /\ proc \in {"none", "exited"}
=============================================================================
