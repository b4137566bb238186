------------------------------ MODULE Tls13Keys ------------------------------
(***************************************************************************)
(* The TLS 1.3 key schedule over symbolic secrets, and the recovery        *)
(* functions of a resumption chain: derive_0rtt (parent to early data),    *)
(* derive_resumed_1rtt (the child) and derive_grandchild_early; and        *)
(* derive_external_psk, for a connection on a PSK from outside.            *)
(*                                                                         *)
(* A secret is the tuple of what it is derived from, so two secrets are    *)
(* equal only when they have the same origin: HKDF has no collisions.      *)
(* Connection 1 is the parent, 2 the child and 3 the grandchild.  The      *)
(* server's ephemeral key pair of connection c is named by the number c,   *)
(* as are the private and the public value that the debug hook prints.     *)
(***************************************************************************)
EXTENDS Integers, Sequences

Nothing == <<>>            \* Python's None, and the zero octets that stand for it
External == -1
ExternalPsk == <<"external psk">>
Dh(c) == <<"dh", c>>       \* what private value c and its peer's key share give

EarlyTraffic(psk, c)         == <<"c e traffic", psk, c>>
HandshakeTraffic(z, psk, c)  == <<"hs traffic", psk, z, c>>
AppTraffic(z, psk, th)       == <<"ap traffic", psk, z, th>>
ResumptionMaster(z, psk, th) == <<"res master", psk, z, th>>
TicketPsk(res, nonce)        == <<"resumption", res, nonce>>
-----------------------------------------------------------------------------
(* What the endpoints did.  A connection is a record                       *)
(*   ticket: the ticket of the previous connection it presented, 0 if     *)
(*     none, External if it used a PSK that both sides were given          *)
(*   dh: its ServerHello has a KeyShare    early: early data was accepted  *)
(*   archived: the tickets it issued whose messages are in its PCAP        *)
(* and wire is the sequence of the connections made so far.  A ticket is   *)
(* its nonce; its identity is the pair of its connection and its nonce.    *)

ServerFlight(conn) ==
    IF conn.ticket = 0 THEN <<"EE", "Certificate", "CertificateVerify", "Finished">>
    ELSE <<"EE", "Finished">>

ClientFlight(conn) ==
    IF conn.early THEN <<"EndOfEarlyData", "Finished">> ELSE <<"Finished">>

Finisheds(msgs) == {i \in DOMAIN msgs : msgs[i] = "Finished"}
ToServerFinished(msgs) ==
    SubSeq(msgs, 1, CHOOSE i \in Finisheds(msgs) : \A j \in Finisheds(msgs) : i <= j)
ToClientFinished(msgs) ==
    SubSeq(msgs, 1, CHOOSE i \in Finisheds(msgs) : \A j \in Finisheds(msgs) : j <= i)

\* The secrets of a connection whose decrypted handshake messages are msgs.
Schedule(c, z, psk, msgs) ==
    [early |-> EarlyTraffic(psk, c),
     hs    |-> HandshakeTraffic(z, psk, c),
     app   |-> AppTraffic(z, psk, <<c, ToServerFinished(msgs)>>),
     res   |-> ResumptionMaster(z, psk, <<c, ToClientFinished(msgs)>>)]

\* The secrets that the two endpoints of each connection share.
Endpoint(wire) ==
    LET real[c \in DOMAIN wire] ==
            Schedule(c, IF wire[c].dh THEN Dh(c) ELSE Nothing,
                     CASE wire[c].ticket = 0 -> Nothing
                       [] wire[c].ticket = External -> ExternalPsk
                       [] OTHER -> TicketPsk(real[c - 1].res, wire[c].ticket),
                     ServerFlight(wire[c]) \o ClientFlight(wire[c]))
    IN real
-----------------------------------------------------------------------------
(* What tshark shows of the PCAP of connection c, given a key log.         *)

\* External: the handshake messages that the key log opens, in wire order.
\* EndOfEarlyData is protected with the early traffic secret.
extract_decrypted_handshake(wire, c, keylog) ==
    LET real == Endpoint(wire)[c]
        client == IF wire[c].early /\ real.early \notin keylog THEN <<"Finished">>
                  ELSE ClientFlight(wire[c])
    IN IF real.hs \in keylog THEN ServerFlight(wire[c]) \o client ELSE <<>>

\* External: the NewSessionTicket messages that the key log opens.
TicketsOpened(wire, c, keylog) ==
    IF Endpoint(wire)[c].app \in keylog THEN wire[c].archived ELSE {}

\* External: the HTTP request or response under these keys.
verify_tls_http(key, real) == key = real

\* load_simulated_recovery and the checks on its result: the private value
\* must have the declared public value, which must be the captured KeyShare.
MatchesKeyShare(material, c) ==
    /\ material.priv /= 0 /\ material.pub /= 0
    /\ material.priv = material.pub
    /\ material.priv = c
-----------------------------------------------------------------------------
(* The recovery functions.  A result says whether the run succeeded, and   *)
(* carries the secrets that later steps take from it; keylog is what the   *)
(* run wrote to its output file, {} when it returned before writing it,    *)
(* and compared is validation.ground_truth_available.                      *)

Result(success, psk, early, res, keylog, compared) ==
    [success |-> success, psk |-> psk, early |-> early, res |-> res, keylog |-> keylog,
     compared |-> compared]

Failed == Result(FALSE, Nothing, Nothing, Nothing, {}, FALSE)

\* print_secret_comparison against sslkeylog.log, unless the file is absent.
TruthAgrees(truth, derived, real) == truth => derived = real

\* Mutant: the first archived ticket is taken for the one that was used.
derive_0rtt_first_ticket(wire, material, truth) ==
    LET z == Dh(material.priv)
        hs == HandshakeTraffic(z, Nothing, 1)
        msgs == extract_decrypted_handshake(wire, 1, {hs})
        parent == Schedule(1, z, Nothing, msgs)
        tickets == TicketsOpened(wire, 1, {hs, parent.app})
        psk == TicketPsk(parent.res, CHOOSE nonce \in tickets : \A n \in tickets : nonce <= n)
        early == EarlyTraffic(psk, 2)
        real == Endpoint(wire)[2].early
    IN  IF ~MatchesKeyShare(material, 1) \/ msgs = <<>> \/ tickets = {} THEN Failed
        ELSE Result(TruthAgrees(truth, early, real) /\ verify_tls_http(early, real),
                    psk, early, Nothing, {early}, truth)

derive_0rtt(wire, material, truth) ==
    LET z == Dh(material.priv)
        hs == HandshakeTraffic(z, Nothing, 1)
        msgs == extract_decrypted_handshake(wire, 1, {hs})
        parent == Schedule(1, z, Nothing, msgs)
        tickets == TicketsOpened(wire, 1, {hs, parent.app})
        matched == {nonce \in tickets : nonce = wire[2].ticket}
        psk == TicketPsk(parent.res, CHOOSE nonce \in matched : TRUE)
        early == EarlyTraffic(psk, 2)
        real == Endpoint(wire)[2].early
    IN  IF ~MatchesKeyShare(material, 1) \/ msgs = <<>> \/ matched = {} THEN Failed
        ELSE Result(TruthAgrees(truth, early, real) /\ verify_tls_http(early, real),
                    psk, early, Nothing, {early}, truth)

\* Mutant: the output file receives the handshake secrets when no Finished was
\* authenticated, as that of derive_1rtt does.
derive_resumed_handshake_only(wire, c, material, psk, early, fresh_dh_required, truth) ==
    LET hs == HandshakeTraffic(IF fresh_dh_required THEN Dh(material.priv) ELSE Nothing, psk, c)
    IN  IF Endpoint(wire)[c].hs /= hs THEN [Failed EXCEPT !.keylog = {early, hs}]
        ELSE [Failed EXCEPT !.keylog = {early, hs, Endpoint(wire)[c].app}]

derive_resumed_1rtt(wire, c, material, psk, early, fresh_dh_required, truth) ==
    LET z == IF fresh_dh_required THEN Dh(material.priv) ELSE Nothing
        hs == HandshakeTraffic(z, psk, c)
        given == IF early = Nothing THEN {} ELSE {early}
        msgs == extract_decrypted_handshake(wire, c, given \union {hs})
        child == Schedule(c, z, psk, msgs)
        real == Endpoint(wire)[c]
    IN  IF \/ psk = Nothing
           \/ fresh_dh_required /\ ~(wire[c].dh /\ MatchesKeyShare(material, c))
           \/ ~fresh_dh_required /\ wire[c].dh
           \/ msgs = <<>>
        THEN Failed
        ELSE Result(/\ TruthAgrees(truth, <<hs, child.app>>, <<real.hs, real.app>>)
                    /\ verify_tls_http(child.app, real.app),
                    Nothing, Nothing, child.res, given \union {hs, child.app}, truth)

\* psk is the content of the declared recovery file, Nothing when that is
\* withheld; its identity is always the one in the ClientHello.
derive_external_psk(wire, psk, truth) ==
    IF psk = Nothing THEN Failed
    ELSE derive_resumed_1rtt(wire, 1, [priv |-> 0, pub |-> 0], psk, Nothing, FALSE, truth)

derive_grandchild_early(wire, child, truth) ==
    LET tickets == TicketsOpened(wire, 2, child.keylog)
        selected == {nonce \in tickets : nonce = wire[3].ticket}
        psk == TicketPsk(child.res, CHOOSE nonce \in selected : TRUE)
        early == EarlyTraffic(psk, 3)
        real == Endpoint(wire)[3].early
    IN  IF ~child.success \/ selected = {} THEN Failed
        ELSE Result(TruthAgrees(truth, early, real) /\ verify_tls_http(early, real),
                    psk, early, Nothing, {early}, truth)
=============================================================================
