# A TLA+ model of the HNDL capture and recovery tool

The repository is a harvest-now-decrypt-later experiment.  It records real SSH,
TLS and QUIC sessions, reduces a recording to the octets that a later decryption
needs, and then performs that decryption with one private scalar that a
*simulated quantum oracle* hands out.  This directory models the parts whose
correctness depends on the order of steps: threads, child processes, pipes,
packet streams, retransmissions, timeouts, interrupts, and files that several
commands write.  Modules are checked with TLC on small instances; every safety
property of the passing runs is also proved with TLAPS for every value of the
constants that its theorem allows.

    tlc -workers 2 -config ssh_rekey.cfg MCSshRecovery.tla     # one run
    tlapm SshRecoveryProofs.tla                                # proofs, and likewise
    # SshCaptureProofs CaptureScopeProofs ArchiveProofs ResumptionProofs
    # EvidenceProofs QuicProofs SequenceLemmas

`PROJECT.json` lists the components, the runs, the source lines that every
definition models, the hazards, the findings and the theorems.

## 1. Inventory

| component | code | state | operations | models |
|---|---|---|---|---|
| SSH recovery | `decryptor/ssh/derive_ssh.py`, `decryptor/core/ssh_crypto.py` | position, sequence number and key of each direction; epoch; session id; `release_trace`, `epoch_packet_counts`, `channel_chunks` | load wire data, ask the oracle, recompute `H` and verify it, derive keys, decrypt an epoch, find the next exchange, check the marker, compare ground truth | `SshRecovery`, `SshMpint` |
| Simulated quantum oracle | `decryptor/ssh/oracle.py` | recovery records, `used`, the two directions of a pipe, the life of a spawned process | start and greeting, recover, close and join; `_oracle_server` in the other process | `SshRecovery`, abstractly `OracleLadder` |
| SSH capture and recording relay | `capture/ssh/capture_ssh.py` | two non-blocking sockets, two stream files, `proxy_stop`, `proxy_errors`, hook records | `record_ssh_streams`, `ssh_reader_thread`, `capture_ssh`, `_quantum_recoveries` | `SshRelay` |
| Capture scope | `capture/common.py`, `capture/tls13/capture_1rtt.py` | `_processes`, `_active`, the operating-system processes | `start_capture`, `start_process`, `terminate`, `stop_capture`, `__exit__` | `CaptureScope` |
| TCP archives | `minarx/pcap.py`, `archive_policy.py` | next sequence number of each direction, merged chunks | `extract_tcp_chunks`, `write_pcap`, `_tcp_events`, `_ssh_stream_events` | `TcpArchive` |
| MinARX container, policy archives | `minarx/protocols/`, `minarx/project.py`, `archive_policy.py` | none beyond the container | record codec, projection, events of a policy, materialisation | `TlsArchive`, `QuicRecovery` |
| TLS 1.3 0-RTT capture | `capture/tls13/capture_0rtt.py`, `reader_thread` of `capture/common.py` | entry of the key store, its two copies, recovery files, session files of the clients | `capture_0rtt`, `persist_recovery_material` | `ResumptionCapture` |
| TLS 1.3 recovery | `decryptor/tls13/`, `core/tls13_crypto.py` | none beyond the output files | `derive_1rtt`; `derive_0rtt`, `derive_resumed_1rtt`, `derive_grandchild_early`, `derive_external_psk` | `TlsRecovery`; `Tls13Keys` |
| TLS 1.2 recovery | `decryptor/tls12/derive_rsa.py` | none | `derive_rsa` | `TlsRecovery` |
| PSK causality test | `scripts/psk_causality_test.py` | names and contents of the archive's files, results, evidence | `run_causality_test`, `_run_external_psk`, `_withheld` | `PskCausality` |
| QUIC capture and recovery | `capture/quic/`, `decryptor/quic/derive_quic.py` | CRYPTO segments of each side, connection id, output files | reassembly, transcript, secrets, verification, `derive_quic` | `QuicSession`, `QuicRecovery` |
| External-PSK and TLS 1.2 captures | `capture/tls13/`, `capture/tls12/` | as the 1-RTT capture | | through `PskCausality`, `CaptureScope` |
| Manifests, provenance, policy builder, policy archive test | `experiment.py`, `hndl.py`, `archive_policy.py`, `scripts/archive_policy_test.py` | the files of two directories and their hashes | write, rewrite, verify, build, recover, forge and restore | `Evidence` |
| SSH rekey benchmark | `scripts/ssh_rekey_benchmark.py` | the schedule; per sample a server thread, a relay with two pumps, two processes | `main`, `_run_sample`, `TimedInetdServer`, `DelayedRelay` | `BenchSample`, `RekeyBenchmark` |
| PCAP parser | `decryptor/io/pcap_parser.py` | none | runs `tshark` and parses its text | its functions, in `TlsArchive`, `TlsRecovery`, `Tls13Keys`, `QuicRecovery`; the text is not modelled |
| Smoke, matrix and size scripts | `scripts/` | none | call captures and recoveries in turn, tabulate | not modelled |
| Analysis | `analysis/` | none | floating-point cost models, statistics, plots | not modelled |

How they interact.

* `capture_ssh` runs in the main thread.  It starts sshd, the relay thread, the
  client and the threads that read their stderr.  The relay and the main thread
  share an `Event` and a list of exceptions; the reader threads append to lists
  that the main thread reads after a *bounded* join.
* `CaptureLifecycle` is a context manager.  Everything a capture starts is
  registered in it; `__exit__` ends what an exception left.
* A recovery opens the archive (PCAP, or the two recorded streams), and talks to
  the oracle, a process of its own, over a `multiprocessing.Pipe`.  Replies are
  awaited with `poll(5)`.  Ground truth is read only after the recovery.
* MinARX and the archive policies both turn `tshark` rows into octet streams,
  independently of each other, those into records or datagrams, and the kept ones
  back into a synthetic PCAP that the recoveries read.
* A 0-RTT capture runs up to three connections against one server.  A daemon
  thread parses the server's stderr into one store entry; the main thread copies
  that entry between the connections, guided by pauses only.  The causality test
  reads the finished archive, hides its files by renaming them, and overwrites an
  external PSK.
* Commands meet in files only.  A capture, the builder of a policy archive, a
  recovery and a test read and rewrite the same directories, each in several
  steps and without a lock; `manifest.json` holds hashes of the others' files.
* A benchmark sample is a chain of an ssh process, a relay thread with a pump
  for each direction, a thread that runs sshd, and the main thread, which waits
  for each of them with a timeout and then measures the next sample.

What is hard, and what has to hold:

* *Two processes and a pipe, with timeouts.*  A scalar may only leave the oracle
  when everything before it was authenticated; every scalar that left must be in
  the release trace; the run must end and leave no process behind.
* *Rekeying.*  Each direction changes keys at its own packet, sequence numbers
  restart or continue and wrap, the capture may stop anywhere.  What is
  recovered must be a prefix of what was sent; success must mean all of it.
* *Threads and sockets.*  The relay may be stopped while it forwards, the client
  may close with data unread, the send buffer may fill.  Nothing may reach an
  endpoint that is not in the file; a good capture must be complete and its
  private values must belong to the right exchange.
* *Children that ignore signals, and interrupts.*  Everything registered must be
  ended, the writer last, within bounded time; success must mean clean.
* *A store without a lock.*  The copies of the 0-RTT capture must belong to the
  connection they are filed under, and be complete, whatever the reader does.
* *Files renamed in place.*  A test that fails or is killed in between must leave
  the archive whole, or be refused on it.
* *Keys written before they are confirmed.*  No output file may hold a key
  that the endpoints did not use, even with wrong inputs; success must mean
  genuine secrets.
* *Retransmissions with other boundaries, losses and gaps.*  A transcript that is
  accepted must be exact, and every archive must lead to what the raw capture
  leads to.
* *Several commands on one directory, kills between two files, rotten files.*  A
  provenance file must name genuine evidence; what verifies must be the session.
* *Streams that break off silently.*  A pump swallows its errors, so a published
  sample must be whole for another reason; samples must not run side by side.

`PROJECT.json` names each hazard at its line, with the properties that cover it.

## 2. Modules

| module | what it models |
|---|---|
| `SshMpint` | the two integer encodings in `ssh_crypto.py` and the endpoints' one |
| `SshSession` | the two OpenSSH endpoints (external): exchanges, data and other packets, strict KEX |
| `SshRecovery` | `derive_ssh`, its decoder, the oracle process and the pipe, over an archive of `SshSession` |
| `OracleLadder` | abstract: one scalar per epoch, each after the epoch before it was opened |
| `SshRelay` | one SSH capture: endpoints, relay thread, hook reader, main thread |
| `CaptureScope` | the lifecycle around one capture with its three child processes |
| `TcpArchive` | TCP payload extraction by both archivers, and the synthetic PCAP |
| `TlsArchive` | TLS records above it: the MinARX codec and the policies' events |
| `TlsRecovery` | `derive_1rtt` and `derive_rsa` on the raw capture and on the archives |
| `Tls13Keys` | the TLS 1.3 key schedule over symbolic secrets, and the recoveries of a resumption chain and of an external PSK |
| `ResumptionCapture` | `capture_0rtt`: the main thread and the reader of the server's stderr |
| `PskCausality` | the causality test on the archive that `ResumptionCapture` or the external-PSK capture left |
| `QuicSession` | QUIC endpoints and dumpcap (external) |
| `QuicRecovery` | `derive_quic` on the raw capture and on its archives |
| `Evidence` | the files of a capture and a policy directory under several commands |
| `BenchSample` | one sample of the rekey benchmark: four kinds of threads, two processes |
| `RekeyBenchmark` | the schedule of samples and the files of a run |
| `Selection` | filtering a sequence by a set, in a form that lemmas can speak about |
| `SshRecoveryProofs`, `CaptureScopeProofs`, `EvidenceProofs` | theorems about the module of that name |
| `SshCaptureProofs` | theorems about `SshRelay`, and about `BenchSample` and `RekeyBenchmark` |
| `ArchiveProofs` | theorems about `TcpArchive`, `TlsArchive` and `TlsRecovery` |
| `QuicProofs` | theorems about `QuicSession` and `QuicRecovery` |
| `ResumptionProofs` | theorems about `ResumptionCapture`, and about `PskCausality` with the recoveries of `Tls13Keys` |
| `SequenceLemmas` | lemmas for induction over data: folds, flattening, concatenation |
| `MC*` | instances for TLC: constants and input sets only |

Composition.  `SshRecovery` composes `SshSession` (which produces the archive) with
the two processes that read it, and refines `OracleLadder`.  `TlsRecovery` extends
`TlsArchive`, which extends `TcpArchive`: one run goes from lost segments to
derived secrets.  `QuicRecovery` extends `QuicSession` in the same way.
`PskCausality` extends `ResumptionCapture`, which extends `Tls13Keys`.
`RekeyBenchmark` extends `BenchSample`.  `SshRelay`, `CaptureScope` and `Evidence`
stand alone; in the code they share no variables either: files are their
interface, and `Evidence` is about those.

### SshSession and SshRecovery

A run first lets the endpoints talk (`Session`), then the capture stops
(`StopCapture`: one direction may lose its last packet or keep half of it), then
`derive_ssh` runs.  A packet is a record with its type, exchange number, body,
the exchange whose key sealed it and its sequence number.  A public value is the
number of its exchange, a private value is the number of the public value that it
generates, `H` is the pair of the transcript and the encoded shared secret, and a
key is `(K, H, session id)`.  Cryptography is ideal: a packet opens exactly under
the key and sequence number that sealed it, and a signature is valid for exactly
the endpoint's `H`.

| code | action |
|---|---|
| `_load_wire_data`, `extract_kex_exchange` | `LoadWire` |
| `SimulatedQuantumOracle.__init__` | `StartOracle`, `AwaitGreeting` |
| the checks of algorithms and labels | `CheckInputs` |
| `recover`: request; reply and its checks; expired `poll` | `Ask`; `TakeReply`; `ReplyTimeout` |
| `compute_exchange_hash`, signature, `derive_ssh_keys` | `Derive` |
| `decrypt_chachapoly_epoch` in both directions, next exchange | `DecryptEpoch` |
| marker; ground truth | `CheckMarker`; `CompareTruth` |
| `close` | `CloseOracle`, `JoinOracle` |
| `_oracle_server` | `OracleBoot`, `OracleServe`; `OracleDies` is a kill from outside |

`poll(5)` may expire whenever the pipe is empty, so that a reply that comes
just after is a behaviour.  One step of a Python function that neither reads nor writes
what the other process can see is merged with its neighbours.

### SshRelay

An octet stream keeps its order, so it is represented by *how many* octets have
reached each point: written, in the relay's receive buffer, recorded, in the
receiver's buffer, read.  `Recv` is `recv`, `write` and `flush`; `SendAll` is
`sendall` on a non-blocking socket, which raises when the data does not fit or
the peer has reset.  `Close` is what the kernel does: closing with unread data
resets the connection.  `WaitClient`, `TerminateServer`, `JoinRecorder` and
`Collect` are the waits of `capture_ssh`, each with its timeout.

### CaptureScope

`pc` is the control point of the capture function or of `__exit__`, `sub` that of
`terminate` or `stop_capture` called from it.  A wait may expire whenever its
condition is false, and children act by themselves: they may exit, crash, ignore
SIGINT and SIGTERM, or take time to die of SIGKILL.  A `KeyboardInterrupt` may
strike once, in the places of `InterruptAt`.  `registered` is the only history
variable: what has ever been registered.

### TcpArchive, TlsArchive and TlsRecovery

The state is the capture so far, as `tshark` rows; each step sends a new segment
(recorded or dropped) or retransmits any sent range.  Everything else is a
function of the rows, and the invariants hold of every capture within the bounds.

A session (a constant, see `MCTlsRecovery`) fixes the records of each side; the
first octet of a record stands for its header, the octets of a stream are
numbered, so that a lost, doubled or misplaced octet shows.

| code | definition |
|---|---|
| `extract_tcp_chunks`; `_tcp_events`, `_ssh_stream_events`; `write_pcap` | the same names in `TcpArchive` |
| `split_tls_records`, `_encode_tls_records` and `_decode_tls_records`, `compact_tls_pcaps` and `materialize_tls_pcaps` | the same names; `Octet`, `IsOpaque`, `EncodeRecord`, `DecodeRecord`, `Taken`, `MaterializePcap` are steps of them |
| `_tls_record_events` of the compact policy | `_tls_record_events`, `Retained` |
| the parser over `tshark` | `Dissected`, `extract_tls_hello_pair`, `extract_decrypted_handshake`, `verify_tls_http_request` |
| `derive_1rtt`, with `_compute_th_finished` | `derive_1rtt`, `UpToFinished` |
| `derive_rsa`, with and without extended master secret | `derive_rsa` |

### Tls13Keys, ResumptionCapture and PskCausality

A secret is the tuple of what it is derived from (`<<"res master", psk, z,
transcript>>`), so two secrets are equal exactly when their origins are.  The
server's ephemeral pair of connection `c` is named `c`; the private and the
public value that the debug hook prints are both `c`, and 0 is an absent value.
What a recovery sees of a PCAP depends on the key log it was given:
`extract_decrypted_handshake` yields `EndOfEarlyData` only with the early
traffic secret, and `TicketsOpened` only what dumpcap archived.

| code | action |
|---|---|
| a client's run against the server, with its tickets and its file | `Client1`, `Client2`, `Client3` (by `Connection`) |
| `server_phase1 = dict(...)`, ticket check | `Snapshot1` |
| copy of phase 2's pair | `Snapshot2` |
| termination, join of the readers, `eph_store_phase1["server"] = server_phase1` | `RestorePhase1` |
| `persist_recovery_material`: private, then public value | `TakePrivate`, `PersistPair` |
| `manifest.json` | `WriteManifest` |
| `reader_thread`: one line | `ReadLine` |
| `RunManifest.load`, `verify_recorded_artifacts` | `Load` |
| one recovery, `_withheld` and the renames around it | `Derive`, `Withhold`, `Restore` |
| the wrong external PSK, written and put back | `Overwrite` |
| `tshark` missing or timed out; the `finally` clauses | `ToolFails`, `Unwind` |
| a rename or a write fails | `RenameFails` |
| assertions and evidence file; a kill | `Conclude`; `Kill` |

`persist_recovery_material` is given the *entry itself* for phase 1, not a copy:
the reader can write between its two reads, hence two actions.  `Script` is the
sequence of recoveries and renames of the test.  `timely`, chosen in the initial
state, says whether the reader and dumpcap keep up with the code's pauses; with
`FALSE` neither ever need.

### QuicSession and QuicRecovery

The state is again the capture, here as datagrams of packets.  The endpoints send
CRYPTO data in frames of any cut, alone or coalesced, with a Retry perhaps;
dumpcap drops a datagram or not; anything sent may be sent again with other
boundaries.  The octets of a stream are numbered.  `Stop` and `Derive` read the
capture raw, from a policy archive (`_quic_packet_events`) and from a MinARX one
(`CompactQuic`).  `_extract_quic_crypto_data`, `_reassemble_crypto_prefix`,
`_extract_quic_decrypted_handshake`, `verify_quic_stream_data` and `derive_quic`
have the names of the code; `Reassembled` is its loop that fills gaps with zeros.

### Evidence

Two directories, `capture` and `policy`, each with wire data, simulated recovery,
ground truth, manifest and provenance.  A file is absent, torn, or has a content;
a hash is the content that was hashed.  `cmd[p]` is the command that a shell runs.

| code | action |
|---|---|
| `capture_protocol`; `build_policy_archive` up to its files | `StartCapture`; `StartArchive`, `LoadSource`, `InspectDestination`, `MakeDirectories` |
| any file: `open` truncates, the write follows | `OpenFile`, `WriteFile` |
| `CaptureResult.from_manifest` | `AcceptCapture` |
| `resolve_recovery_spec`; `materialized_recovery_spec`; a decoder | `Resolve`; `Materialize`; `Derive` |
| `_record_derivation_manifest` of `derive_ssh` | `UpdateManifest`, then `OpenFile` and `WriteFile` |
| `_record_provenance`: load, hash, write | `Reload`, `HashInputs`, `OpenFile`, `WriteFile` |
| `_negative_controls`, `_authenticated_tamper_rejected` of the policy test | `FlipBit` ... `EndTest` |

`Kill` ends a command between any two steps; `Rot` damages a file that no command
uses.  A run of the policy test excludes other commands on its own archive, as the
script builds that archive for itself.  Two recoveries that write a manifest or a
provenance at the same time may leave their texts interleaved (`Overlapped`); nobody
else writes a file that another command has open.

### BenchSample and RekeyBenchmark

| code | action |
|---|---|
| thread of `TimedInetdServer` | `ServerBind`, `ServerBindFails`, `ServerAccept`, `ServerSpawn`, `ServerReap` |
| thread of `DelayedRelay`, its pumps | `RelayBind`, `RelayBindFails`, `RelayAccept`, `RelayConnect`, `RelayJoin`; `PumpRecv`, `PumpSend` |
| the processes under GNU time | `SshdServe`, `SshdEof`, `ClientExits`, `Terminates`, `Crashes` |
| `_run_sample` up to the client | `StartServer`, `AwaitServer`, `AwaitRelay`, `StartClient` |
| `_run_bulk`, `_run_interactive` | `Exchange`, `ClientDone`, `Deadline`, `Corrupted` |
| `relay.stop`, `server.wait`, the `finally` clause | `StopRelay`, `JoinRelay`, `AwaitSshd`, `StopServer`, `JoinServer` |
| the loops of `main`, its `except` clause, its files | `BeginSample`, `KeepResult`, `SampleFails`, `WritePartial`, `WriteResults`, `Exit` |

Streams are counted as in `SshRelay`.  `recv` and `sendall` of a pump may fail
silently, ports may be taken, processes may crash, a `KeyboardInterrupt` may come
in any wait, also within the `finally` clause.  sshd may end through its own
`fatal()`, with status 255, which `wait` accepts like 0 (`Accepted`).  `BeginSample`
and `AwaitSshd` contain the failures of the files that they write and read.

## 3. Runs

| run | question | bounds | distinct states |
|---|---|---|---|
| `ssh_rekey` | Do scalars leave in causal order, is the plaintext a prefix, is success complete, is a whole session recovered, does it refine the ladder? | initial exchange and two rekeys, two data packets, an extra packet in either direction, wrap at 5, strict and not | 888,323 |
| `ssh_faults` | What do bad inputs, timeouts and the oracle's death do? | one rekey, one data packet, every single departure from intact inputs | 78,811 |
| `ssh_relay` | Is the recorder faithful, are scalars paired, does the capture end? | two and three octets, buffers of two, two exchanges | 284,286 |
| `capture_scope` | Is every registered process ended, the writer last? | one interrupt in the body or in `stop_capture`, writer may crash | 11,232 |
| `archive` | Are transcripts exact, do the archivers agree, do records survive the archives, do recoveries from every archive give the same genuine secrets? | a connection of five octets per endpoint and one of one, three rows, pieces of two, five sessions (RSA with and without extended master secret, 1-RTT, 0-RTT, HelloRetryRequest) | 33,825 |
| `psk_causality` | Does a capture keep the right pairs, do the causality test's assertions hold, are its inputs put back, are derived keys genuine? | two tickets per connection, two starts of the test, both kinds of archive, reader timely or not | 1,711,461 |
| `quic_recovery` | Are hello and transcript exact, does success mean genuine secrets, do the archives agree? | hellos of three and one octets, two encrypted messages of one and two, two unusual events | 260,984 |
| `rekey_benchmark` | Are published results whole and matched, do samples overlap, does the run end? | one unit, one interrupt, two repetitions, three plans | 904,611 |
| `evidence` | Does provenance name genuine evidence, is what verifies the session, do finished directories stay as they are? | two shells, four commands, one rotten file, kills anywhere | 2,638,329 |
| `ssh_mpint`, `ssh_relay_full`, `capture_interrupt` | violations, see *Findings* | | |

Why the bounds are enough.

* `MaxExchange = 2` gives an exchange that is neither first nor last, so that the
  session identifier, the offsets in the release trace and the selection of a
  record all differ from their first values.  Two data packets of the server and
  an extra packet of either side fall before and after each rekey in every order.
  `SeqLimit` must exceed `3 + MaxOther`, since no real plaintext phase wraps 2^32
  (this is `SessionAssumption`); at 5 encrypted packets wrap within one epoch and
  across epochs.  `MayDie` is `FALSE` in `ssh_rekey`, where timeouts already end
  runs early and the deaths would repeat `ssh_faults`.
* `Room = 2` with three octets makes a full buffer, a partial `recv` and data
  left unread possible.  `Exchanges = 2` distinguishes a pairing of records from
  the use of the first pair.
* Three rows give a retransmission that overlaps two segments, and one of the
  second connection between segments of the first.  A segment may hold all five
  octets, so that a whole session fits into two rows and the third is free for a
  loss or an overlap; `PieceSize = 2` makes full and partial pieces.  Five octets
  hold two hellos, encrypted handshake and data, with records of two octets that
  a segment can cut.
* A chain has at most three connections in the code, so `ResumptionCapture` bounds
  nothing but the tickets: `MaxTickets = 2` distinguishes the ticket that was used
  from another one that was archived.  `MaxRuns = 2` lets a second test start on
  what a killed one left; more starts only repeat the second.
* A ClientHello of three octets has frames that overlap without one containing the
  other.  `MaxUnusual = 2` pairs any two of a loss, a retransmission, an
  acknowledgement, a PING and a Retry.
* `Units = 1` gives a bulk client a payload and an exit status, the interactive one
  three exchanges.  `SmallPlans` has a matched pair of limits with diagnoses, an
  RTT given twice, and a run without diagnoses; two repetitions contain the one
  with reversed limits.  The theorems about this model are for every size.
* Four commands are capture, archive, a recovery and one more beside it, from two
  shells.  The theorems are for any number of shells, commands and rotten files.

Deadlock is not checked, because every modelled program ends (a recovery, a
capture, a scope, a test, a benchmark; a capture file of `MaxRows` rows).  That
they end is a property of four runs.

**Fairness.**  Weak fairness of the threads that the code itself runs, and of
other programs only where stated: `Recover` (the recovering process, not the
oracle process), `Relay` and `Main` in `SshRelay` (not the client, sshd or the
hook reader), `Main` in `CaptureScope` (no child).  The operating system schedules a runnable
Python thread, and each wait in these threads has a timeout, so it is runnable
when the timeout expires.  `RecoveryTerminates`, `CaptureEnds` and `ScopeEnds`
thus say that no behaviour of the other processes can hang the program.
`RekeyBenchmark` has fairness of `MainStep`, of the server thread, of the relay's
thread and of each pump, and of ssh and sshd: some joins there wait for a
thread whose socket or process was just closed or signalled, for longer than that
thread needs.

Assumptions about time.  In `SshRelay`: once `proxy_stop` is set, the relay notices
within its second join (two seconds against one `select` or `accept` of 0.2 s and
what it has in hand).  A relay that outlives both joins, and goes on to append to files
that the manifest hashes, lies outside the model: `CaptureEnds` is about the waits.  In
`BenchSample`: the one-way delay, for which a pump sleeps, is shorter than the three
seconds of a join.  In `ResumptionCapture` it is the variable `timely`, and only
`Phase1Preserved`, `Phase2IsTheChilds` and `CausalityHolds` have it as a premise.

**What the properties say.**

* `CausalRelease`, `LadderSpec`: a scalar leaves the *process*, not merely the
  function, only when every preceding epoch was authenticated in both directions.
* `RecoveredIsPrefix`, `SuccessIsComplete`, `WholeSessionRecovered`: the decoder
  against the sender's own record of what it sent.
* `TraceCoversReleases`: a late reply is still in the trace.
  `NothingLearnedFromTruth`: no decoder state changes after the ground-truth file
  was opened.
* `RecordedBeforeForwarded`, `OkIsComplete`, `ScalarPerExchange`.
* `RegisteredAreEnded`, `WriterOutlivesSession`, `OkMeansClean`.
* `TranscriptIsExact`, `ArchiversAgree`, `OpaqueIsSealed`, `RecordsSurvive`: from
  segments to records and back.  `RecoveryIsFaithful`: a recovery gives the same
  from every archive, and the endpoints' secrets when it succeeds.
* `HelloIsExact`, `TranscriptIsExact`, `SuccessIsGenuine`, `ArchivesAgree`: the same
  for QUIC, against reordering, overlap, holes and lost datagrams.
* `NeverFromTheFuture`: what no delay can break.  `Phase1Preserved`,
  `Phase2IsTheChilds`: what timeliness adds.
* `DerivedAreGenuine`: output files against the endpoints' own secrets, although
  they are written before any plaintext was checked.
* `InputsRestored`, `CausalityHolds`: the causality test against failures between
  two renames, kills and restarts.
* `ProvenanceNamesEvidence`, `EvidenceIsFaithful`: a provenance and a manifest that
  verifies name genuine data.  `ManifestsVerify`: without rot and without a killed
  test, a readable manifest is right.  `EvidenceIsImmutable`: the data and hashes of
  a finished directory never change.
* `ResultsAreWhole`, `ResultsAreMatched`, `EvidenceIsKept`, `SamplesDoNotOverlap`,
  `BenchmarkEnds`.

Each is stated in words above its definition.  Next to some definitions stands a
*mutant*, a plausible slip in that definition that the property rejects
(`PROJECT.json` pairs them); mutants are part of no specification.

## 4. Proofs

Except where it is said otherwise a theorem holds for every value of the constants
that satisfies the named assumptions of its module, which TLC evaluates on each run.

### SshRecoveryProofs

Assumptions: `SessionAssumption` (bounds are naturals, `SeqLimit` exceeds
`3 + MaxOther`, secrets are octet sequences) and `RecoveryAssumption` (inputs are of
the listed kinds).

* `TypeCorrect`: `Spec => []TypeOK`.  The decoder never reads past the archive.
  `TypeOK` is not inductive: `Quiet` adds that nothing has been asked, released or
  consumed before the oracle is started, and that a waiting client has an event in
  its trace.
* `ReleaseIsCausal`: `Spec => []CausalRelease`.
* `ImplementsLadder`: `Spec => LadderSpec`.
* `TraceIsComplete`: `Spec => []TraceCoversReleases`.
* `SuccessReadsAll`: `Spec => []SuccessIsComplete`.
* `PlaintextIsGenuine`: `Spec => []RecoveredIsPrefix`.
* `TruthIsReadLast`: `Spec => NothingLearnedFromTruth`.
* `WholeIsRecovered`: `Spec => []WholeSessionRecovered`, if no member of `Secrets`
  starts with a zero octet.  Without that it is false: section 5.

Argument.  `CausalRelease` speaks of the oracle's `used` and the decoder's `counts`;
between them lie a pipe that may hold a stale request, a record list and the wire.
The inductive invariant `LadderInv` connects them:

* `StreamInv`, about the wire: a packet sealed with the keys of some exchange follows
  a NEWKEYS of its direction, and a client share belongs to the exchange after
  the one whose keys seal it.
* `PipeInv`, about the pipe: outside the wait for a reply both queues are empty
  while the decoder works; during it there is at most one message, a request for
  `epoch` or its reply, and a good reply means that share `epoch` was released.
* `EpochInv`, about the decoder: it works on exchange `epoch` with `epoch` entries in
  `counts`, its keys are bound to that exchange's transcript, and every request
  still in the pipe, even after a timeout, is for the epoch about to be opened.

`StreamInv` is needed to see that the share found after a decrypted epoch is the one of
the next exchange: packets that open under the key of exchange `epoch` carry a share of
`epoch + 1` (lemmas `FirstShare` and `NextShare`).  `EpochInv` carries that to the
request, and `PipeInv` to the oracle, which therefore releases that share or none.
`LadderInvStep` has one step per action, and shows at the same
time that the step is `Release`, `Open` or a stutter of the ladder.
`TraceInv` adds for the trace that every request in the pipe and every share that
left is named in it, what it calls released did leave, and while the
client waits the last event is the one it waits for.

Completeness needs two more facts.  `SwitchInv`: a direction that has sent a NEWKEYS
under the keys of exchange `k` is past them, so an epoch that the decoder has read to
its NEWKEYS is one that the endpoints completed.  `RunInv` with `EventInv`: event `t`
of the trace was recorded for epoch `t - 1`, after the packets of all epochs before
it, and is released unless it is the one waited for; `auth` is that sum; and a run
that reaches its end has consumed every packet of both directions.

For the plaintext, `PrefixInv` says that it is the channel data of the packets
`1..pos` of the server's stream.  The model computes the plaintext as a fold over one
epoch's packets; `DataIs` gives that fold as a chain of partial results, `DataGrows`
and `DataOfPart` say that an epoch's data is appended to that of the epochs before it,
and `DataOfPrefix` that the data of a prefix of a stream is a prefix of its data.
`PlainInv` (channel data travels under keys) covers the unencrypted opening.

`WholeIsRecovered` is about completeness, so its invariant has two halves.
`SessionInv` says what the endpoints produce: the key and the sequence number of a
packet are functions of the packet before it (`SealInv`), keys are used in order
(`OrderInv`), the messages of an exchange precede its NEWKEYS under the keys before it
(`ExchangeInv`), secrets and client shares are as many as the exchanges need
(`ProgressInv`), and the plaintext is shorter than `SeqLimit` (`OpeningInv`), so
that the decoder may start from a packet count.  From it follow the lemmas `Segment`
and `EpochSpan`: between two NEWKEYS the key stays, sequence numbers count on modulo
`SeqLimit`, and all messages of the next exchange are there.  `WholeInv` says that
the decoder stands at the NEWKEYS of `epoch` in both directions with the endpoints'
numbers and keys (`PlaceInv`), and that the oracle has the record of `epoch`, still
unused when it is asked (`OracleInv`).  With them each of `LoadWhole`, `DeriveWhole`,
`DecryptWhole`, `ServeWhole` and `MarkerWhole` shows that its action cannot fail.
TLC had found these invariants to hold under the bounds of `ssh_rekey` with one chunk
of data.

### ResumptionProofs

Of the capture, for every number of tickets (`CaptureAssumption`):

* `PhaseTwoIsPast`: `CaptureSpec => []NeverFromTheFuture`, and
  `ManifestIsComplete`: `CaptureSpec => []ManifestMeansMaterial`, however late the
  reader is.
* `TimelyKeepsPhase1` and `TimelyKeepsPhase2`: `CaptureSpec => []Phase1Preserved`
  and the same for `Phase2IsTheChilds`; both properties have `timely` as a premise.

Argument.  The first two follow from `CapInv`.  Its part `PastInv` says that,
until the grandchild connects, no line in the pipe and no field of the store is
newer than connection 2, and that phase 2's copy and file are not from then on
either: the reader moves values from the pipe to the store and can touch nothing
else. `FilesInv` is the order in which the files appear.  The other two need
`StepInv`: every connection starts with an empty pipe, `Arriving(c)` describes
how far the reader is in its two lines, and an empty pipe means that the store
holds that connection's pair when the main thread copies it.  Without `timely`
it fails at the first copy.

Of the causality test on the archive of that capture, or of the external-PSK one:

* `NothingStaysWithheld`: `Spec => []InputsRestored`.
* `KeysAreGenuine`: `Spec => []DerivedAreGenuine`.
* `CausalityIsShown`: `Spec => []CausalityHolds`.

Argument.  The script is a concatenation of nested blocks, and what a step may
do depends on what is renamed away at that moment.  `Plays(s, a, b)` says that the
script `s`, begun in the state `a` of the archive's names, ends in `b`, and that each
step of it fits the state in which it is played; a lemma per kind of block
(`PlaysBoth`, `PlaysWithhold`, `PlaysRename`, `PlaysTruth`) gives the chain of a
composed script from those of its parts, and `ScriptRestores` the chain of the
whole.  `Running(h)` then says that the test is at a place of that chain, or
unwinding from one.  The recoveries are computed by folds over the records of an
archive; `EarlyIs`, `ResumedIs`, `GrandchildIs` and `ExternalEndpoint` give what each
yields in terms of its inputs (`EarlyResult`, `ResumedResult`), and
`RecoverIsExact` compares that with the endpoints' own keys.  That comparison needs
`WireInv`, carried through the capture: every connection resumes the one before it
with a ticket that connection sent.

### SshCaptureProofs

Of the recording relay, for streams, buffers and numbers of exchanges of any size
(`RelayAssumption`):
`NothingUnrecorded`, `GoodCaptureIsComplete` and `ScalarsArePaired`, of
`RecordedBeforeForwarded`, `OkIsComplete` and `ScalarPerExchange`.  The
invariant `RelayInv` adds to them `HandInv` (what the relay holds between `recv`
and `sendall` is in the file), `ClientInv` (a client that exits well has received
and printed everything), `RetiredInv` (a direction is retired only at its end of
file, with nothing left to read), `DoneInv` (the relay is done because of an
error, of `stop` or because no direction is left) and `PairInv`.

Of the rekey benchmark, for workloads of every size, every set of plans, and any
number of repetitions and interrupts (`SampleAssumption`, `BenchmarkAssumption`,
`PlanAssumption`, and
`WorkloadAssumption`: a scheduled workload is one of the two that the command line
accepts):

* `KeptSamplesAreWhole`: `Spec => []ResultsAreWhole`.
* `KeptIsThere`: `Spec => []EvidenceIsKept`.
* `SamplesAreApart`: `Spec => SamplesDoNotOverlap`.
* `SamplesAreMatched`: `Spec => []ResultsAreMatched`.

Argument.  `FlowInv`: in each direction what was read was sent on, what was sent
on was received by the pump, and that was written; sshd has answered no more than
it has read.  So the last reply, with the whole workload behind it, proves every
earlier step of both streams, although pumps swallow errors.  `PumpInv`: nothing is
pumped before the relay has connected, so a relay that a successful sample joins
was pumping, and its join cannot have expired in a connection attempt.  `MainInv`
carries this through the control points: without a failure to raise, the relay
and the server thread are done and both processes have ended by themselves
before the `finally` clause begins, and what that clause stops is already at rest
(`QuietInv`).  `KeepInv` is about directories: the one of the sample under way
exists and holds no result yet, so that results and samples grow together.

`SamplesAreMatched` is about the schedule, which is a nest of loops.  A sequence of
cells is `Balanced` if every limit occurs equally often for an RTT and a workload;
balanced sequences are closed under concatenation, a row of a repetition is balanced
because its limits are a rearrangement of the plan's (`Arranges`: the plan's order or
its reverse), and so each flattened loop is.  `PlaceInv` says that the samples kept are
the timed cells from the first on and the diagnoses those behind them; a run that
writes `results.json` has reached the end of both.

### CaptureScopeProofs

* `RegisteredEnd`: `RegisteredAreEnded`, for every `InterruptAt` without `terminate`
  and `exit`.  The hypothesis is needed: `capture_interrupt` shows the violation.
* `WriterIsLast`: `WriterOutlivesSession`, for every `InterruptAt` without
  `terminate`.
* `OkIsClean`: `OkMeansClean`, wherever an interrupt may strike.

`capture_scope` allows interrupts in the body and in `stop_capture`; the theorems allow
any set of places but those named, and so show what each property needs.  `ScopeInv`
is `PointInv` (what is registered at each point of the body and of `__exit__`, and
which of `terminate` and `stop_capture` may be under way there), `ChildInv` (a
registered child is in the list, in the hands of `terminate`, or ended),
`StopInv`, `WriterInv` and `OkInv`.  The parts name the two ways in which an interrupt
tears them, `Torn` and `Cut`, and hold in every run; the theorems exclude these
where they must.

### ArchiveProofs

Of TCP, for any connections, lengths, losses, retransmissions and reordering
(`ArchiveAssumption`):

* `AcceptedIsExact`: `Spec => []TranscriptIsExact`.
* `ArchiversReadAlike`: `Spec => []ArchiversAgree`.

Both archivers are folds over the captured rows.  `ExtractRun` and `EventRun` turn each
into a chain of accumulators, one per row.  `ExactInv(s, k, acc)` says of the
accumulator after row `k` that it has failed, or that each direction's chunks are
exactly the octets from the first sequence number seen to the next one expected;
`RowIs` and `NovelIs` are the cases of a segment that is new, old or overlaps.
`PairInv` relates the two accumulators: they fail together, and otherwise the events
carry the same octets in the same order as the chunks.  Both are shown to be kept by one
row and carried along the chain by `ChainInduction`.

Of TLS above it, for any sessions, record lengths and captures:

* `LayoutShowsNoSecret`: `Spec => []OpaqueIsSealed`.
* `ArchiveGivesBack`: `Spec => []RecordsSurvive`.
* `ArchivesRecoverAlike`: `Spec => []RecoveryIsFaithful`.

Assumptions on the sessions say what endpoints send.  `SessionsAssumption`: either
side begins with a hello, the records fill the stream, a client sends no hello of a
server, and unless the server asks for another hello a record is protected exactly
if its type is application data or a ChangeCipherSpec of its direction went before
it.  `RecoveryAssumption`: the client sends a request, and the two complete
one handshake in their mode.  Every session of `MCTlsRecovery` satisfies both.

Argument.  The only state is the capture, and the inductive invariant `Fit(rows)` says
that every row holds a run of octets of its stream; the rest is induction over what
the operators compute.

* From rows to records.  Chunks and events hold the same octets in the same order, each
  with its direction (`BytesRun`, `WholeIs`), so a split into records need not
  look at boundaries.  `ReadInStep`: of streams read from their first octets, whatever
  their interleaving, the complete records are a prefix of those of each direction,
  and the pending octets begin the next one.  `WholeSplit` applies it to a capture in
  which nothing is missing before the first segment.
* The layout.  `Seals`: over records in the order of each direction, the flag that
  `_encode_tls_records` keeps for a direction is up exactly behind a
  ChangeCipherSpec, which by `SessionsAssumption` is where fragments are protected.
* Back again.  `DecodeEncode`: what the encoder appends the decoder takes, and leaves
  the opaque octets of later captures.  `WrittenBack`: chunks written by `write_pcap` in
  pieces are extracted with the same octets by both archivers.  `SplitRecords`:
  octets of records split into those records.  `ArchiveRestores` composes the three
  for one and for two captures, and says when no archive is made.
* Recoveries.  The compact policy drops records of the server; `KeptReads` and
  `OnlyUpToCcs` show that `derive_rsa` reads none of them: its hellos, its
  session transcript up to the ChangeCipherSpec and the request are all kept.
  `RsaGenuine` and `OneRttGenuine` are about success.  For a session captured whole
  `AllCame` says that its records are all there, `RsaTranscript` and
  `FlightIs` that the transcripts are then the endpoints', and `RsaWorks` and
  `OneRttWorks` that the recovery succeeds.

### EvidenceProofs

For any set of shells and any number of commands and rotten files
(`EvidenceAssumption`: the two states of a file without content differ from each
other and from all contents): `ProvenanceIsGenuine`, `VerifiedIsFaithful`,
`ManifestsAlwaysVerify` and `EvidenceStaysPut`, of `ProvenanceNamesEvidence`,
`EvidenceIsFaithful`, `ManifestsVerify` and the action property
`EvidenceIsImmutable`.

Argument.  `EvidenceInv` has four parts.  `DirectoryInv` is about the files of
each directory.  `CommandInv(c, D, k)` says of one command `c` where it is
(`StageInv`), what the maker of a directory has put there so far (`PlacedInv`),
what a builder knows of its source (`SourceInv`), what a command that will
write something back holds in memory (`ReadInv`), how far the controls of a policy
test are (`TestInv`), and what a recovery has seen (`RecoveryInv`).  `CrossInv`
says which two commands can be where at the same time: one maker per directory, a
test alone in its archive.  The last says that manifests name genuine
data, unless a test is between its forging and its restoration or one was killed
there.  `CommandInv` is a predicate of a command, so that a step of one shell
(`OwnStep`, `WalkStep`, `FileStep`) and its effect on the others (`Elsewhere`,
`OthersKeep`, `WithinCross`) are lemmas that the actions share.

That a manifest *verifies* is more: each hash in it has to be that of the file as it is
now.  `KeptInv` is proved on top of `EvidenceInv`: `AgreeInv` (a readable manifest covers
the data, or a test is at a step that changed one named file), and `MatchInv` (a command
that will write a manifest back holds hashes that still fit, and a test that
changed a file or a hash knows which one, `CoversBut`).  `EvidenceStaysPut` needs it to
see that a rewritten manifest has the hashes of the one it replaces.

### QuicProofs

For hellos, flights and captures of any length, and any losses, repetitions, cuts
and Retry (`SessionAssumption`):

* `QuicHelloIsExact`: `Spec => []HelloIsExact`.
* `QuicTranscriptIsExact`: `Spec => []TranscriptIsExact`.
* `QuicSuccessIsGenuine`: `Spec => []SuccessIsGenuine`.
* `QuicArchivesAgree`: `Spec => []ArchivesAgree`.

Argument.  The inductive invariant `Inv` has two parts.  `SessionInv`: every datagram is
of packets, and every frame of an Initial packet or of a server's Handshake packet is a
PING or a run of octets of its CRYPTO stream.  `ResultInv`: what `Derive` stored is
what the recoveries compute from that capture.  The recoveries are folds, followed
frame by frame: the segments that `AddFirst` and `AddLast` keep are runs of the stream
at their own offsets (`FirstUnfolds`, `LastUnfolds`), so what
`_reassemble_crypto_prefix` joins is a prefix of the stream (`PrefixIsRun`), and a
hello that is found is whole (`FoundIsWhole`).

* Archives.  A recovery looks at the Initial packets, at the server's Handshake packets
  and for a 1-RTT packet (`SameReading`); `HelloOfInitials` says that other packets
  change nothing of the first.  Both archives keep those in their order: MinARX in all
  datagrams but the probes, the policy in a datagram of its own for each.
* Transcript.  `Reassembled` fills holes with zeros, so it is exact only under the
  property's premises; `CoverIsWhole` shows that frames which cover the flight leave no
  hole whatever their overlap and order, and `ParsesAll` that the whole flight
  is cut at the starts of its messages.

### SequenceLemmas

TLAPS has no induction over data here: the library's induction theorems
take an operator as a parameter.  The lemmas of this module are in terms of sets
instead.  `LeastNumber` comes from the well-foundedness of `<` on the naturals;
`SetInduction` and `ChainInduction` follow from it for a set of numbers that is
closed under successors; `FoldExists` and `FoldRun` say that a fold of the
community modules is the end of a chain of partial results, and `FlattenRuns` the
same for `FlattenSeq`.  An invariant of a fold is then one of its chain.  `SeqInduction` is
induction over sequences by appending; `EndOf` names the end of a chain and
`EndUnfolds` gives its recursion, one element at a time.  `Only` of `Selection`, a
recursive function, takes the place of `SelectSeq`, whose definition `tlapm` cannot
expand; `OnlyUnfolds`, `OnlyConcat`, `OnlyOnly`, `OnlySame` and `OnlyHolds` are what
every filter of the models needs.

### Only model-checked

Liveness: `RecoveryTerminates`, `CaptureEnds`, `ScopeEnds` and `BenchmarkEnds`, whose
proofs need ENABLED.  Three theorems have a hypothesis that their run need not state:
`WholeIsRecovered` about the secrets, `RegisteredEnd` and `WriterIsLast` about where an
interrupt strikes; *Findings* shows what happens without the first two.

## 5. Findings

* `ssh_mpint`: `compute_exchange_hash` does not strip leading zero octets of the
  shared secret, so one session in 256 ends with `InvalidSignature`.
* `ssh_relay_full`: `sendall` on a non-blocking socket fails a capture whose
  receiver is slow.
* `capture_interrupt`: an interrupt in `terminate`'s grace period unregisters a
  child that is still running.  In `capture_scope` the interrupt is therefore
  limited to the body and `stop_capture`.

Consequences of the code that the models contain and no run is about:

* The first segment *captured* sets the start of a TCP direction, so a loss or
  reordering before it is silent.  `TranscriptIsExact` says what does hold.
* `reader_thread` looks the store's entry up for every line, so a reader that
  outlives the join of one second writes a later connection's values into the
  entry that was set back to phase 1's; a recovery then rejects the material.
* A TLS 1.3 session with a HelloRetryRequest is captured but never recovered: it
  counts as the ServerHello, and its key share names only a group.  MinARX
  refuses it.
* A PCAP without a complete exchange hides the recorded streams, which the
  docstring of `_load_wire_data` calls a fallback.
* `stop_capture` returns after a `dumpcap` that had to be killed, and the capture
  goes on to analyse a file that was not finalized.
* A second SSH recovery rewrites `manifest.json`, so the hash of the manifest in an
  earlier provenance or in a policy archive's source names a file that is gone.
* A recovery by protocol name of a directory without a manifest decodes and then
  fails, because its provenance loads the manifest.
* A second compact recovery copies its files over those of the first, and what
  only the first one wrote stays.
* `ssh_derived_keys.json` says success although the update of the manifest after it
  may fail and the run report a failure.
* A rename or a write that fails in the causality test ends it with its inputs
  withheld or changed: those of the ground truth and of the wrong PSK come before
  their `try`, and nothing repeats a `finally` clause that fails.
* Two SSH recoveries at a time, or one that is killed, can leave `manifest.json` torn.
* sshd's status 255 is accepted, although `fatal()` ends with it too; the client's
  result was checked before.  `ResultsAreWhole` holds all the same.
* A malformed number in GNU time's output raises `ValueError`, which `main` does not
  catch: the run ends without `partial_results.json`.
* An RTT given twice makes the second diagnosis of a cell fail in `mkdir`, after
  every timed sample was taken; the run ends as partial.

## 6. Not modelled

* Cryptographic primitives (ideal; keys and hashes are injective terms), TLS and
  QUIC header protection and packet numbers, the search for a connection id or a
  packet-number length.
* The octets of the MinARX container: headers, varints, compression, checksums,
  and its SSH projection; byte accounting; relative sequence numbers past 4 GiB.
* The text of `tshark`, of reports, of evidence files and of CSV files; statistics;
  schema validation of manifests.
* Packets of types that the SSH decoder skips (one `OTHER` stands for all), write
  errors of derived files, threads that read `dumpcap`'s output, key generation and
  start-up of sshd, the waits for readiness of a server, `PermissionError` on
  signals.
* The scopes of the captures other than the 1-RTT one: they use `CaptureLifecycle`
  in the same way and keep no state of their own.
* A file that changes between its verification and its use by one command: `Rot` and
  the policy test leave alone what another command is using, so verification and
  hashing see the same file.
* Smoke, matrix and size scripts: sequences of calls with a table at the end.
  Analysis: floating-point models and plots, no protocol state.

## 7. Plan

Done: SSH recovery and oracle, SSH relay, capture scope, TCP archives, 0-RTT
capture, resumption chain and causality test, TLS records and recoveries over the
archives, QUIC, evidence, external PSK, rekey benchmark.  Their safety properties are
theorems.
Open:

1. The container's varints and sections against a reference decoder, and the SSH
   projection.
2. The captures that have no module of their own, external-PSK and TLS 1.2, as users of
   `CaptureScope`.
