--------------------------- MODULE MCSshRecovery ---------------------------
(* TLC instances of SshRecovery.                                           *)
EXTENDS SshRecovery

Intact == [pcap |-> "usable", bins |-> FALSE, suite |-> "expected",
           oracle |-> "complete", truth |-> "match"]
IntactInputs == {Intact}

\* Shared secrets of two octets: high bit set, and clear.
PlainSecrets == {<<128, 7>>, <<9, 200>>}
OneSecret == {<<128, 7>>}
\* One of them starts with a zero octet, as one X25519 output in 256 does.
ZeroSecrets == {<<0, 7>>}

\* Every way in which one input can depart from the intact ones.
FaultyInputs ==
    {Intact}
    \union {[Intact EXCEPT !.oracle = k] :
               k \in {"short", "wrong", "mislabelled", "malformed", "missing"}}
    \union {[Intact EXCEPT !.truth = k] : k \in {"absent", "mismatch", "malformed"}}
    \union {[Intact EXCEPT !.suite = k] : k \in {"kex", "cipher"}}
    \union {[Intact EXCEPT !.pcap = k] : k \in {"no_kex", "absent"}}
    \union {[Intact EXCEPT !.pcap = "absent", !.bins = TRUE]}
=============================================================================
