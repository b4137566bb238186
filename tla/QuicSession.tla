---------------------------- MODULE QuicSession ----------------------------
(***************************************************************************)
(* The two QUIC v1 endpoints of a capture and dumpcap (all external to the *)
(* repository): Initial, Retry, Handshake and 1-RTT packets, lost in the   *)
(* network or by dumpcap, and sent again with other frame boundaries.      *)
(*                                                                         *)
(* The octets of a CRYPTO stream are numbered from 1 and stand for their   *)
(* values; a frame is a run of them.  A packet names the connection id in  *)
(* its header (dcid) and, for an Initial, the one whose keys protect it    *)
(* (key).  A datagram is a sequence of packets.                            *)
(***************************************************************************)
EXTENDS Integers, FiniteSets, SequencesExt, Selection

CONSTANTS
    ClientHelloLen, ServerHelloLen,   \* octets of the hellos
    Messages,   \* lengths of the server's encrypted handshake messages
    MaxUnusual  \* bound: datagrams dropped by dumpcap, CRYPTO data sent again,
                \* Initial packets without any, and Retry packets, together

ASSUME SessionAssumption ==
    /\ {ClientHelloLen, ServerHelloLen} \subseteq Nat \ {0} /\ Messages \in Seq(Nat \ {0}) /\ Messages # <<>>
    /\ MaxUnusual \in Nat

VARIABLES
    phase,   \* "talk", then "stopped" and "derived": see QuicRecovery
    sent,    \* octets sent of each CRYPTO stream, and whether requests and answers were
    dcid,    \* the id that the client puts into its headers
    key,     \* the id whose Initial keys are in force
    unusual, \* what is left of MaxUnusual
    short,   \* 1-RTT datagrams still to come: the request and the answer
    rows     \* the datagrams in the capture

sessionVars == <<phase, sent, dcid, key, unusual, short, rows>>

Flight     == FoldLeft(LAMBDA a, n : a + n, 0, Messages)   \* octets of the handshake stream
Stream     == {"client_initial", "server_initial", "server_handshake"}
StreamLen  == [client_initial |-> ClientHelloLen, server_initial |-> ServerHelloLen,
               server_handshake |-> Flight]
ToServer(s) == s = "client_initial"

Frame(from, to) == [offset |-> from - 1, data |-> [i \in 1..(to - from + 1) |-> from + i - 1]]

Ping == [offset |-> -1, data |-> <<>>]

Initial(toServer, frames) ==
    [type |-> "initial", toServer |-> toServer, dcid |-> IF toServer THEN dcid ELSE "client",
     key |-> key, frames |-> frames]
Handshake(toServer, frames) ==
    [type |-> "handshake", toServer |-> toServer, dcid |-> "any", key |-> "any", frames |-> frames]
Short(toServer) ==
    [type |-> "short", toServer |-> toServer, dcid |-> "any", key |-> "any", frames |-> <<>>]
RetryPacket ==
    [type |-> "retry", toServer |-> FALSE, dcid |-> "client", key |-> "any", frames |-> <<>>]
\* The readiness probe of the capture: a datagram of one zero octet.
Probe ==
    [type |-> "probe", toServer |-> TRUE, dcid |-> "any", key |-> "any", frames |-> <<>>]

CryptoPacket(s, from, to) ==
    IF s = "server_handshake" THEN Handshake(FALSE, <<Frame(from, to)>>)
    ELSE Initial(ToServer(s), <<Frame(from, to)>>)

SessionInit ==
    /\ phase = "talk"
    /\ sent = [s \in Stream |-> 0]
    /\ dcid = "original" /\ key = "original"
    /\ unusual = MaxUnusual /\ short = 2
    /\ rows = <<<<Probe>>>>

\* dumpcap writes the datagram or drops it; cost is 1 when sending it is unusual.
Capture(datagram, cost) ==
    \/ cost <= unusual /\ rows' = Append(rows, datagram) /\ unusual' = unusual - cost
    \/ cost < unusual /\ unusual' = unusual - cost - 1 /\ UNCHANGED rows

\* A stream may start when the one before it has been sent.
May(s) ==
    CASE s = "client_initial"   -> TRUE
      [] s = "server_initial"   -> sent["client_initial"] = ClientHelloLen
      [] s = "server_handshake" -> sent["server_initial"] = ServerHelloLen

\* The first packet of the server moves the client to the id that it chose.
Switch(s) == dcid' = IF ToServer(s) THEN dcid ELSE "server"

\* The next n octets of a stream, behind a PING perhaps.
SendCrypto(s, n) ==
    /\ May(s) /\ sent[s] + n <= StreamLen[s]
    /\ sent' = [sent EXCEPT ![s] = @ + n]
    /\ LET packet == CryptoPacket(s, sent[s] + 1, sent[s] + n)
       IN  \/ Capture(<<packet>>, 0)
           \/ Capture(<<[packet EXCEPT !.frames = <<Ping>> \o @]>>, 1)
    /\ Switch(s)
    /\ UNCHANGED <<phase, key, short>>

\* The ServerHello and the whole server flight in one datagram.
SendCoalesced ==
    /\ May("server_initial") /\ sent["server_initial"] = 0
    /\ sent' = [sent EXCEPT !["server_initial"] = ServerHelloLen, !["server_handshake"] = Flight]
    /\ Capture(<<CryptoPacket("server_initial", 1, ServerHelloLen),
                 CryptoPacket("server_handshake", 1, Flight)>>, 0)
    /\ Switch("server_initial")
    /\ UNCHANGED <<phase, key, short>>

\* Octets that were sent are sent again, in a frame with other boundaries
\* perhaps.
Resend(s, from, to) ==
    /\ to <= sent[s]
    /\ Capture(<<CryptoPacket(s, from, to)>>, 1)
    /\ Switch(s)
    /\ UNCHANGED <<phase, sent, key, short>>

\* An acknowledgement or a probe without CRYPTO data.
AckInitial(toServer) ==
    /\ sent["client_initial"] > 0
    /\ Capture(<<Initial(toServer, <<>>)>>, 1)
    /\ dcid' = IF toServer THEN dcid ELSE "server"
    /\ UNCHANGED <<phase, sent, key, short>>

\* A Retry: the client starts again, under the keys of the id in the Retry.
Retry ==
    /\ sent["client_initial"] = ClientHelloLen /\ dcid = "original"
    /\ Capture(<<RetryPacket>>, 1)
    /\ sent' = [sent EXCEPT !["client_initial"] = 0]
    /\ dcid' = "retry" /\ key' = "retry"
    /\ UNCHANGED <<phase, short>>

\* The client's Finished with its request, and the answer.
SendShort(toServer) ==
    /\ short = IF toServer THEN 2 ELSE 1
    /\ sent["server_handshake"] = Flight
    /\ Capture(IF toServer THEN <<Handshake(TRUE, <<Frame(1, 1)>>), Short(TRUE)>>
               ELSE <<Short(FALSE)>>, 0)
    /\ short' = short - 1
    /\ UNCHANGED <<phase, sent, dcid, key>>

Talk ==
    /\ phase = "talk"
    /\ \/ \E s \in Stream, n \in 1..3 : SendCrypto(s, n)
       \/ SendCoalesced \/ Retry
       \* Nothing reads the order of these and the 1-RTT packets.
       \/ /\ short = 2
          /\ \/ \E s \in Stream : \E from \in 1..StreamLen[s] : \E to \in from..StreamLen[s] :
                   Resend(s, from, to)
             \/ \E b \in BOOLEAN : AckInitial(b)
       \/ \E b \in BOOLEAN : SendShort(b)
=============================================================================
