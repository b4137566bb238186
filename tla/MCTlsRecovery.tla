---------------------------- MODULE MCTlsRecovery ---------------------------
(* TLC instances of TlsRecovery.                                           *)
EXTENDS TlsRecovery

TwoFlows == {1, 2}
\* The second flow only has to be there.
FiveOctets == 1 :> 5 @@ 2 :> 1

Hello(message, len) == Record("handshake", len, FALSE, message)
Ccs == Record("ccs", 1, FALSE, "none")
App(message, len) == Record("application", len, TRUE, message)
Sealed(type) == Record(type, 1, TRUE, "none")

\* After ChangeCipherSpec comes a Finished, and an alert ends the session.
Rsa(ems) ==
    [protocol |-> "tls12", mode |-> "rsa", index |-> 0, ems |-> ems,
     records |-> (0 :> <<Hello("ClientHello", 1), Hello("ClientKeyExchange", 1), Ccs,
                         Sealed("handshake"), App("request", 1)>>
                  @@ 1 :> <<Hello("ServerHello", 1), Hello("ServerHelloDone", 1), Ccs,
                            Sealed("handshake"), Sealed("alert")>>)]
Tls13(mode, index) ==
    [protocol |-> "tls13", mode |-> mode, index |-> index, ems |-> FALSE,
     records |-> (0 :> <<Hello("ClientHello", 2), App("ClientFinished", 1), App("request", 2)>>
                  @@ 1 :> <<Hello("ServerHello", 2), App("EncryptedExtensions", 1),
                            App("ServerFinished", 1), App("answer", 1)>>)]
Retried ==
    [protocol |-> "tls13", mode |-> "1rtt", index |-> 0, ems |-> FALSE,
     records |-> (0 :> <<Hello("ClientHello", 1), Ccs, Hello("ClientHello", 2), App("request", 1)>>
                  @@ 1 :> <<Hello("HelloRetryRequest", 1), Ccs, Hello("ServerHello", 2),
                            App("ServerFinished", 1)>>)]

AllSessions == {Rsa(TRUE), Rsa(FALSE), Tls13("1rtt", 0), Tls13("0rtt", 1), Retried}
=============================================================================
