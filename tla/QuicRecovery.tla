---------------------------- MODULE QuicRecovery ----------------------------
(***************************************************************************)
(* decryptor/quic/derive_quic.py on a capture of QuicSession, read as the  *)
(* raw PCAP, as a policy archive (archive_policy.py) or as a MinARX one    *)
(* (minarx/protocols/quic.py).  Secrets are terms: two are equal when they *)
(* were derived from the same values.  AEAD is ideal: a packet opens under *)
(* the keys that protect it and under no other.                            *)
(***************************************************************************)
EXTENDS QuicSession

VARIABLES
    result   \* result[a]: what derive_quic returned on archive a, with the
             \* secrets in derived/nss_derived_keylog.log, {} when absent

vars == <<sessionVars, result>>

\* A "reassembled" policy archive holds the datagrams of the raw capture.
Archives == {"raw", "compact", "minarx"}

NoResult == [success |-> FALSE, partial |-> FALSE, keylog |-> {}]

Init == SessionInit /\ result = [a \in Archives |-> NoResult]
-----------------------------------------------------------------------------
(* Public packets and CRYPTO frames.                                       *)

_iter_coalesced_packets(datagrams) == FlattenSeq(datagrams)

\* A frame that is neither PADDING, CRYPTO, ACK nor CONNECTION_CLOSE stops the
\* parser; PING is one.
_parse_crypto_frames(frames) ==
    LET pings == {i \in DOMAIN frames : frames[i] = Ping}
    IN  IF pings = {} THEN frames
        ELSE SubSeq(frames, 1, (CHOOSE i \in pings : \A j \in pings : i <= j) - 1)

\* No frame begins behind the end of its stream.
Offsets(segments) ==
    Only([i \in 1..(ClientHelloLen + ServerHelloLen + Flight) |-> i - 1], DOMAIN segments)

\* Mutant of _reassemble_crypto_prefix: an overlap is not cut off.
Doubled(segments) ==
    FoldLeft(LAMBDA out, o : IF o > Len(out) THEN out ELSE out \o segments[o],
             <<>>, Offsets(segments))

_reassemble_crypto_prefix(segments) ==
    FoldLeft(LAMBDA out, o : IF o > Len(out) THEN out
                 ELSE out \o SubSeq(segments[o], Len(out) - o + 1, Len(segments[o])),
             <<>>, Offsets(segments))

\* The first message of the stream, once it is there.
_parse_handshake_from_crypto(data, length) ==
    IF Len(data) < length THEN <<>> ELSE SubSeq(data, 1, length)

\* setdefault: the frame that was seen first at an offset stays.
AddFirst(segments, frames) ==
    FoldLeft(LAMBDA s, f : [o \in DOMAIN s \union {f.offset} |-> IF o \in DOMAIN s THEN s[o] ELSE f.data],
             segments, frames)
AddLast(segments, frames) ==
    FoldLeft(LAMBDA s, f : [o \in DOMAIN s \union {f.offset} |-> IF o = f.offset THEN f.data ELSE s[o]],
             segments, frames)

\* The id that the loop takes the Initial keys from: that of the latest Initial
\* of the client.
KeysDcid(acc, p) == IF p.toServer \/ acc.dcid = "" THEN p.dcid ELSE acc.dcid

InitialStep(acc, p) ==
    IF p.type # "initial" \/ (acc.ch # <<>> /\ acc.sh # <<>>) THEN acc
    ELSE LET id     == KeysDcid(acc, p)
             opened == IF id = p.key THEN _parse_crypto_frames(p.frames) ELSE <<>>
             client == IF p.toServer THEN AddFirst(acc.client, opened) ELSE acc.client
             server == IF p.toServer THEN acc.server ELSE AddFirst(acc.server, opened)
             Found(hello, segments, length) ==
                 IF hello # <<>> THEN hello
                 ELSE _parse_handshake_from_crypto(_reassemble_crypto_prefix(segments), length)
         IN  [dcid   |-> IF p.toServer THEN p.dcid ELSE acc.dcid,
              client |-> client, server |-> server,
              ch |-> Found(acc.ch, client, ClientHelloLen),
              sh |-> Found(acc.sh, server, ServerHelloLen)]

_extract_quic_crypto_data(datagrams) ==
    FoldLeft(InitialStep, [dcid |-> "", client |-> <<>>, server |-> <<>>,
                           ch |-> <<>>, sh |-> <<>>],
             _iter_coalesced_packets(datagrams))
-----------------------------------------------------------------------------
(* The server's Handshake packets.                                         *)

Zeros(n) == [i \in 1..n |-> 0]

\* Mutant of Reassembled: an overlap is not cut off.
ReassembledTwice(segments) ==
    FoldLeft(LAMBDA out, o :
                 IF o > Len(out) THEN out \o Zeros(o - Len(out)) \o segments[o]
                 ELSE out \o segments[o],
             <<>>, Offsets(segments))

\* A gap is filled with zeros.
Reassembled(segments) ==
    FoldLeft(LAMBDA out, o :
                 IF o > Len(out) THEN out \o Zeros(o - Len(out)) \o segments[o]
                 ELSE out \o SubSeq(segments[o], Len(out) - o + 1, Len(segments[o])),
             <<>>, Offsets(segments))

Start(m) == FoldLeft(LAMBDA a, n : a + n, 1, SubSeq(Messages, 1, m - 1))
RealMessages == [m \in DOMAIN Messages |-> [i \in 1..Messages[m] |-> Start(m) + i - 1]]
Finished == Last(RealMessages)

\* What the length field says where a message is expected: zeros are an empty
\* message, octets from the middle of one say more than there is.
LengthAt(octet) ==
    IF octet = 0 THEN 1
    ELSE IF \E m \in DOMAIN Messages : Start(m) = octet
         THEN Messages[CHOOSE m \in DOMAIN Messages : Start(m) = octet]
         ELSE Flight + 1

\* The messages of the stream up to the first one that is not complete.
ParsedMessages(octets) ==
    FoldLeft(LAMBDA acc, octet :
                 LET need    == IF acc.need = 0 THEN LengthAt(octet) ELSE acc.need
                     message == Append(acc.message, octet)
                 IN  IF need = 1 THEN [done |-> Append(acc.done, message), message |-> <<>>, need |-> 0]
                     ELSE [done |-> acc.done, message |-> message, need |-> need - 1],
             [done |-> <<>>, message |-> <<>>, need |-> 0], octets).done

\* Of several frames at an offset the last one stays.
_extract_quic_decrypted_handshake(datagrams) ==
    LET packets == _iter_coalesced_packets(datagrams)
        mine    == Only(packets, {p \in ToSet(packets) : p.type = "handshake" /\ ~p.toServer})
        frames  == FlattenSeq([i \in DOMAIN mine |-> _parse_crypto_frames(mine[i].frames)])
    IN  ParsedMessages(Reassembled(AddLast(<<>>, frames)))

\* The transcript after the hellos, up to Finished if there is one.
Transcript(messages) ==
    LET ends == {i \in DOMAIN messages : messages[i] = Finished}
    IN  IF ends = {} THEN messages
        ELSE SubSeq(messages, 1, CHOOSE i \in ends : \A j \in ends : i <= j)
-----------------------------------------------------------------------------
(* Key schedule, verification and derive_quic.                             *)

HandshakeSecret(hello) == <<"hs", hello.ch, hello.sh>>
AppSecret(hello, messages) == <<"app", hello.ch, hello.sh, messages>>

ClientHello == [i \in 1..ClientHelloLen |-> i]
ServerHello == [i \in 1..ServerHelloLen |-> i]
RealHs      == <<"hs", ClientHello, ServerHello>>
RealApp     == <<"app", ClientHello, ServerHello, RealMessages>>

HasShort(datagrams) ==
    \E i \in DOMAIN datagrams : \E j \in DOMAIN datagrams[i] : datagrams[i][j].type = "short"

\* tshark with the derived key log shows the request or the answer.
verify_quic_stream_data(datagrams, secrets) == RealApp \in secrets /\ HasShort(datagrams)

\* Mutant of Succeeded: plaintext counts only where there is no ground truth.
SucceededByTruth(truth, secrets, plaintext) ==
    IF truth THEN secrets = {RealHs, RealApp} \/ plaintext ELSE secrets # {}

Succeeded(truth, secrets, plaintext) ==
    (truth => secrets = {RealHs, RealApp}) /\ plaintext

Refused(hello, usable) == ~usable \/ hello.ch = <<>> \/ hello.sh = <<>>

\* usable: simulated_quantum_output.json is there, names X25519 and holds a
\* private value that fits its own public check and the captured key share,
\* and the suite is not TLS_CHACHA20_POLY1305_SHA256; truth: a key log of the
\* endpoints is there.
derive_quic(datagrams, usable, truth) ==
    LET hello    == _extract_quic_crypto_data(datagrams)
        hs       == HandshakeSecret(hello)
        messages == IF hs = RealHs THEN _extract_quic_decrypted_handshake(datagrams) ELSE <<>>
        all      == {hs, AppSecret(hello, Transcript(messages))}
        plain    == verify_quic_stream_data(datagrams, all)
    IN  IF Refused(hello, usable)
        THEN NoResult
        ELSE IF messages = <<>>
        THEN [success |-> FALSE, partial |-> TRUE, keylog |-> {hs}]
        ELSE [success |-> Succeeded(truth, all, plain), partial |-> FALSE, keylog |-> all]
-----------------------------------------------------------------------------
(* The archives.                                                           *)

\* Mutant of Kept: the server's Handshake packets go as well.
KeptTooLittle(p) ==
    p.type # "probe" /\ p.type # "handshake" /\ (p.type = "short" => p.toServer)

\* _quic_packet_events: the client's Handshake packets and the server's 1-RTT
\* packets are left out, and what is too short for a packet.
Kept(p) ==
    /\ p.type # "probe"
    /\ p.type = "handshake" => ~p.toServer
    /\ p.type = "short" => p.toServer

_quic_packet_events(datagrams) ==
    LET packets == _iter_coalesced_packets(datagrams)
        kept    == Only(packets, {p \in ToSet(packets) : Kept(p)})
    IN  [i \in DOMAIN kept |-> <<kept[i]>>]

\* extract_udp_datagrams and compact_chunk_pcaps: all but the probe.
CompactQuic(datagrams) == Only(datagrams, ToSet(datagrams) \ {<<Probe>>})

\* What a recovery reads from each archive of the capture: a policy archive is
\* written to a PCAP again, one datagram for each event.
Materialized(archive) ==
    CASE archive = "raw" -> rows
      [] archive = "compact" -> _quic_packet_events(rows)
      [] archive = "minarx"  -> CompactQuic(rows)

\* The capture is kept when the client ended with the answer.
Stop ==
    /\ phase = "talk" /\ short = 0 /\ phase' = "stopped"
    /\ UNCHANGED <<sent, dcid, key, unusual, short, rows, result>>

\* The capture is recovered from each of its archives.  The key log is
\* written before anything is compared.
Derive(usable, truth) ==
    /\ phase = "stopped" /\ phase' = "derived"
    /\ result' = [a \in Archives |-> derive_quic(Materialized(a), usable, truth)]
    /\ UNCHANGED <<sent, dcid, key, unusual, short, rows>>

Next ==
    \/ Talk /\ UNCHANGED result
    \/ Stop
    \/ \E usable, truth \in BOOLEAN : Derive(usable, truth)

Spec == Init /\ [][Next]_vars
-----------------------------------------------------------------------------
(* Properties.                                                             *)

Extracted(archive) == _extract_quic_crypto_data(Materialized(archive))

\* A hello that the recovery extracts is the endpoints' own, complete and
\* without a hole, whatever was lost, repeated, cut otherwise or protected
\* under keys that the recovery does not have.
HelloIsExact ==
    phase = "stopped" =>
        \A a \in Archives :
            LET hello == Extracted(a)
            IN  hello.ch \in {<<>>, ClientHello} /\ hello.sh \in {<<>>, ServerHello}

\* Frames of the server's Handshake packets in the capture.
ServerFrames ==
    UNION {ToSet(p.frames) : p \in {q \in ToSet(_iter_coalesced_packets(rows)) :
                                        q.type = "handshake" /\ ~q.toServer}}

\* When the frames captured cover the server's flight, begin at different
\* offsets and none is hidden behind a PING, the transcript is the endpoints',
\* in whatever order they came and however they overlap.
TranscriptIsExact ==
    (/\ phase = "stopped"
     /\ Ping \notin ServerFrames
     /\ UNION {ToSet(f.data) : f \in ServerFrames} = 1..Flight
     /\ \A f, g \in ServerFrames : f.offset = g.offset => f = g)
    => Transcript(_extract_quic_decrypted_handshake(rows)) = RealMessages

\* Success means the session's own secrets, also where no ground truth was
\* there to compare with, and application data in the archive.
SuccessIsGenuine ==
    \A a \in Archives :
        result[a].success =>
            /\ result[a].keylog = {RealHs, RealApp} /\ ~result[a].partial
            /\ HasShort(Materialized(a))

\* An archive gives what the raw capture gives, although the compact one
\* splits datagrams and leaves packets out; the compact one needs a packet of
\* the request, the raw capture may do with the answer.
ArchivesAgree ==
    phase = "derived" =>
        /\ result["minarx"] = result["raw"]
        /\ result["compact"].keylog = result["raw"].keylog
        /\ result["compact"].success => result["raw"].success
        /\ result["raw"].success /\ HasShort(Materialized("compact")) => result["compact"].success

=============================================================================
