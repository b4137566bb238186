----------------------------- MODULE TlsRecovery -----------------------------
(***************************************************************************)
(* derive_1rtt (decryptor/tls13) and derive_rsa (decryptor/tls12) on every *)
(* capture of TcpArchive, read as the raw PCAP or from the archives of     *)
(* TlsArchive.  Secrets are terms: two are equal when they were derived    *)
(* from the same values.  A message stands for its octets.                 *)
(***************************************************************************)
EXTENDS TlsArchive

Missing == "missing"
Failure == [success |-> FALSE, keylog |-> {}]

\* "wrong": for RSA another server's key; for X25519 a private value that does
\* not fit its public check or the captured key share, or another group.
Materials == {"good", "wrong"}
-----------------------------------------------------------------------------
(* io/pcap_parser.py over tshark.                                          *)

\* The records that tshark reassembles, in the order of their last octets.
Dissected(s, segments) == split_tls_records(s, _tcp_events(segments).chunks).records

\* The handshake messages in the clear of some types, in their order.
Clear(records, messages) ==
    LET found == Only(records, {r \in ToSet(records) : ~r.record.sealed /\ r.record.message \in messages})
    IN  [i \in DOMAIN found |-> found[i].record.message]

First(messages) == IF messages = <<>> THEN Missing ELSE Head(messages)

\* A HelloRetryRequest is a ServerHello by its type.
extract_tls_hello_pair(records) ==
    [ch |-> First(Clear(records, {"ClientHello"})),
     sh |-> First(Clear(records, {"ServerHello", "HelloRetryRequest"}))]

HandshakeSecret(hello) == <<"hs", hello.ch, hello.sh>>
AppSecret(hello, flight) == <<"ap", hello.ch, hello.sh, flight>>

RealHello  == [ch |-> "ClientHello", sh |-> "ServerHello"]
RealFlight == <<"EncryptedExtensions", "ServerFinished">>
RealApp    == AppSecret(RealHello, RealFlight)

\* The protected handshake messages of both sides, in the order of their frames.
extract_decrypted_handshake(records, keylog) ==
    LET opened == Only(records, {r \in ToSet(records) :
                      /\ r.record.sealed /\ HandshakeSecret(RealHello) \in keylog
                      /\ r.record.message \in ToSet(RealFlight) \union {"ClientFinished"}})
    IN  [i \in DOMAIN opened |-> opened[i].record.message]

\* The request comes out of the capture under the keys of the key log.
verify_tls_http_request(records, keylog, real) ==
    real \in keylog /\ \E r \in ToSet(records) : r.record.message = "request"
-----------------------------------------------------------------------------
(* tls13/derive_1rtt.py                                                    *)

\* Mutant of UpToFinished: the transcript goes on after the first Finished.
WholeFlight(messages) == messages

\* _compute_th_finished stops after the first Finished; without one it takes
\* what there is.
UpToFinished(messages) ==
    LET ends == {i \in DOMAIN messages : messages[i] \in {"ServerFinished", "ClientFinished"}}
    IN  IF ends = {} THEN messages
        ELSE SubSeq(messages, 1, CHOOSE i \in ends : \A j \in ends : i <= j)

derive_1rtt(records, material, truth) ==
    LET hello  == extract_tls_hello_pair(records)
        hs     == HandshakeSecret(hello)
        flight == extract_decrypted_handshake(records, {hs})
        app    == AppSecret(hello, UpToFinished(flight))
    IN  IF \/ material # "good" \/ Missing \in {hello.ch, hello.sh}
           \/ hello.sh = "HelloRetryRequest"   \* its key share names a group only
        THEN Failure
        ELSE IF flight = <<>> THEN [success |-> FALSE, keylog |-> {hs}]
        ELSE [success |-> /\ truth => {hs, app} = {HandshakeSecret(RealHello), RealApp}
                          /\ verify_tls_http_request(records, {hs, app}, RealApp),
              keylog |-> {hs, app}]
-----------------------------------------------------------------------------
(* tls12/derive_rsa.py and core/tls12_crypto.py                            *)

CcsOf(records) == {i \in DOMAIN records : records[i].record.type = "ccs"}

\* The records up to the first ChangeCipherSpec; what follows is encrypted.
UpToCcs(records) ==
    IF CcsOf(records) = {} THEN records
    ELSE SubSeq(records, 1, CHOOSE i \in CcsOf(records) : \A j \in CcsOf(records) : i <= j)

\* The messages of one direction before its ChangeCipherSpec.
_handshake_messages_from_stream(records, d) ==
    Clear(UpToCcs(Only(records, {r \in ToSet(records) : r.dir = d})),
          {"ClientHello", "ServerHello", "ServerHelloDone", "ClientKeyExchange"})

\* ClientHello, the server's flight and the client's key exchange, in the order
\* of the handshake, whatever that of the capture; <<>> unless each is there.
_extract_handshake_for_session_hash(records) ==
    LET client == _handshake_messages_from_stream(records, 0)
        server == _handshake_messages_from_stream(records, 1)
    IN  IF {"ClientHello", "ClientKeyExchange"} \subseteq ToSet(client) /\ server # <<>>
        THEN <<"ClientHello">> \o server \o <<"ClientKeyExchange">>
        ELSE <<>>

derive_extended_master_secret(premaster, transcript) == <<"extended", premaster, transcript>>
derive_master_secret(premaster, client_random, server_random) ==
    <<"master", premaster, client_random, server_random>>

RealMaster(s) ==
    IF s.ems
    THEN derive_extended_master_secret("good", <<"ClientHello", "ServerHello", "ServerHelloDone",
                                                 "ClientKeyExchange">>)
    ELSE derive_master_secret("good", "ClientHello", "ServerHello")

\* The premaster secret is named by the key that decrypted it.
derive_rsa(s, records, material, truth) ==
    LET found      == [m \in {"ClientHello", "ServerHello", "ClientKeyExchange"} |->
                          First(Clear(records, {m}))]
        transcript == _extract_handshake_for_session_hash(records)
        master     == IF s.ems THEN derive_extended_master_secret(material, transcript)
                      ELSE derive_master_secret(material, found["ClientHello"], found["ServerHello"])
    IN  IF (\E m \in DOMAIN found : found[m] = Missing) \/ (s.ems /\ transcript = <<>>) THEN Failure
        ELSE [success |-> /\ truth => master = RealMaster(s)
                          /\ verify_tls_http_request(records, {master}, RealMaster(s)),
              keylog |-> {master}]

\* What the endpoints of a session send: the client a request, the server
\* nothing of interest in its alerts and application data of TLS 1.2, and the
\* two of them one handshake.
ASSUME RecoveryAssumption ==
    \A s \in Sessions :
        /\ s.mode = "rsa" =>
              /\ s.protocol = "tls12" /\ \E r \in ToSet(s.records[0]) : r.message = "request"
              /\ \A r \in ToSet(s.records[1]) :
                    r.type \in {"alert", "application"} =>
                        r.message \notin {"ClientHello", "ServerHello", "ServerHelloDone", "ClientKeyExchange", "request"}
              /\ {"ClientHello", "ClientKeyExchange"} \subseteq ToSet(_handshake_messages_from_stream(Sent(s, 0), 0))
              /\ _handshake_messages_from_stream(Sent(s, 1), 1) = <<"ServerHello", "ServerHelloDone">>
        /\ s.mode = "1rtt" =>
              /\ s.protocol = "tls13" /\ \E r \in ToSet(s.records[0]) : r.message = "request"
              /\ s.records[1][1].message = "ServerHello" =>
                    /\ extract_decrypted_handshake(Sent(s, 0), {HandshakeSecret(RealHello)}) = <<"ClientFinished">>
                    /\ extract_decrypted_handshake(Sent(s, 1), {HandshakeSecret(RealHello)}) = RealFlight

Recover(s, segments, material, truth) ==
    LET records == Dissected(s, segments)
    IN  IF s.protocol = "tls12" THEN derive_rsa(s, records, material, truth)
        ELSE derive_1rtt(records, material, truth)
-----------------------------------------------------------------------------
(* Properties.                                                             *)

Genuine(s) == IF s.protocol = "tls12" THEN {RealMaster(s)} ELSE {HandshakeSecret(RealHello), RealApp}

\* Everything was captured, and the server's Finished before the client's.
Complete(s) ==
    LET records == Dissected(s, rows)
        At(m)   == {i \in DOMAIN records : records[i].record.message = m}
    IN  /\ Len(records) = Len(s.records[0]) + Len(s.records[1])
        /\ At("HelloRetryRequest") = {}
        /\ \A i \in At("ServerFinished"), j \in At("ClientFinished") : i < j

\* A session captured whole is recovered with and without ground truth, a
\* success never stands on other secrets than the endpoints', and the compact
\* archive and the MinARX one give what the raw capture gives, however the
\* segments were cut, repeated and interleaved.
RecoveryIsFaithful ==
    Whole =>
        \A s \in {x \in Sessions : x.mode \in {"rsa", "1rtt"}} :
            LET compact   == _tls_record_events(s, _tcp_events(rows))
                container == compact_tls_pcaps(s, <<Extracted.chunks>>)
            IN  \A m \in Materials, truth \in BOOLEAN :
                    LET raw == Recover(s, rows, m, truth)
                    IN  /\ raw.success => m = "good" /\ raw.keylog = Genuine(s)
                        /\ Complete(s) /\ m = "good" => raw.success
                        /\ compact.ok =>
                               Recover(s, _write_tcp_pcap(compact.chunks), m, truth) = raw
                        /\ container.ok =>
                               Recover(s, materialize_tls_pcaps(container).pcaps[1], m, truth) = raw
=============================================================================
