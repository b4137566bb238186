----------------------------- MODULE SshSession -----------------------------
(***************************************************************************)
(* The two OpenSSH endpoints whose session is recorded: external programs, *)
(* modelled by the packet streams that the decoder in src/decryptor/ssh    *)
(* has to cope with.  Exchange n (n = 0 is the initial one) is protected   *)
(* by the keys of exchange n - 1, or by nothing when n = 0.  The two       *)
(* directions switch keys independently, each at its own NEWKEYS, and each *)
(* counts its own packets.                                                 *)
(***************************************************************************)
EXTENDS SshMpint, FiniteSets

CONSTANTS
    MaxExchange,   \* bound: the last exchange of a session
    MaxChunks,     \* bound: CHANNEL_DATA packets that the server sends
    MaxOther,      \* bound: packets of other types, in either direction
    SeqLimit,        \* packet sequence numbers wrap at SeqLimit (2^32 in the code)
    Secrets,       \* raw X25519 outputs: equally long byte sequences
    Marker, Noise, \* the two kinds of server channel data
    StrictChoices  \* whether strict KEX may be negotiated: a subset of BOOLEAN

ASSUME SessionAssumption ==
    /\ MaxExchange \in Nat /\ MaxChunks \in Nat /\ MaxOther \in Nat
    /\ SeqLimit \in Nat /\ SeqLimit > 3 + MaxOther  \* no wrap in plaintext
    /\ Secrets \subseteq Seq(0..255)
    /\ Marker # Noise
    /\ StrictChoices \subseteq BOOLEAN /\ StrictChoices # {}

VARIABLES
    strict,     \* strict KEX negotiated by both KEXINITs
    sent,       \* sent[d]: the packets put on the wire in direction d
    keyNo,      \* keyNo[d]: exchange whose keys protect d now (-1: plaintext)
    seqNo,      \* seqNo[d]: next packet sequence number of d
    kexinits,   \* kexinits[d]: KEXINIT packets sent in d
    secrets     \* secrets[n + 1]: the shared secret of exchange n

sessionVars == <<strict, sent, keyNo, seqNo, kexinits, secrets>>

Dir == {"c2s", "s2c"}
Other(d) == IF d = "c2s" THEN "s2c" ELSE "c2s"
MsgType == {"KEXINIT", "ECDH_INIT", "ECDH_REPLY", "NEWKEYS", "CHANNEL_DATA", "OTHER"}

\* The exchange hash binds the public messages of the exchange, each named by
\* the number of its exchange, and the shared secret; the session id is the
\* exchange hash of exchange 0.
Transcript(n) == [I_C |-> n, I_S |-> n, Q_C |-> n, Q_S |-> n]
EndpointH(n) == <<Transcript(n), endpoint_mpint(secrets[n + 1])>>
EndpointKey(n) ==
    [K |-> endpoint_mpint(secrets[n + 1]), H |-> EndpointH(n), sid |-> EndpointH(0)]

SessionInit ==
    /\ strict \in StrictChoices
    /\ sent = [d \in Dir |-> <<>>]
    /\ keyNo = [d \in Dir |-> -1]
    /\ seqNo = [d \in Dir |-> 0]
    /\ kexinits = [d \in Dir |-> 0]
    /\ secrets = <<>>

\* A key exchange is under way in d: its KEXINIT is out, its NEWKEYS is not.
Exchanging(d) == kexinits[d] > keyNo[d] + 1

Has(d, type, n) == \E i \in DOMAIN sent[d] : sent[d][i].type = type /\ sent[d][i].kex = n

Packet(d, type, n, body) ==
    [type |-> type, kex |-> n, body |-> body, key |-> keyNo[d], seq |-> seqNo[d]]

Put(d, type, n, body) ==
    /\ sent' = [sent EXCEPT ![d] = Append(@, Packet(d, type, n, body))]
    /\ seqNo' = [seqNo EXCEPT ![d] =
                    IF type = "NEWKEYS" /\ strict THEN 0 ELSE (@ + 1) % SeqLimit]

\* Either side starts an exchange once the previous one is complete, and
\* answers one that the peer has started.
SendKexInit(d) ==
    /\ ~Exchanging(d)
    /\ keyNo[d] < MaxExchange
    /\ keyNo[Other(d)] >= keyNo[d]
    /\ Put(d, "KEXINIT", keyNo[d] + 1, Noise)
    /\ kexinits' = [kexinits EXCEPT ![d] = @ + 1]
    /\ UNCHANGED <<strict, keyNo, secrets>>

SendEcdhInit ==
    LET n == keyNo["c2s"] + 1
    IN  /\ Exchanging("c2s")
        /\ kexinits["s2c"] = n + 1
        /\ ~Has("c2s", "ECDH_INIT", n)
        /\ Put("c2s", "ECDH_INIT", n, Noise)
        /\ UNCHANGED <<strict, keyNo, kexinits, secrets>>

SendEcdhReply ==
    LET n == keyNo["s2c"] + 1
    IN  /\ Exchanging("s2c")
        /\ Has("c2s", "ECDH_INIT", n)
        /\ ~Has("s2c", "ECDH_REPLY", n)
        /\ \E z \in Secrets : secrets' = Append(secrets, z)
        /\ Put("s2c", "ECDH_REPLY", n, Noise)
        /\ UNCHANGED <<strict, keyNo, kexinits>>

\* NEWKEYS is the last packet under the old keys of its direction.
SendNewKeys(d) ==
    LET n == keyNo[d] + 1
    IN  /\ Exchanging(d)
        /\ Has("s2c", "ECDH_REPLY", n)
        /\ Put(d, "NEWKEYS", n, Noise)
        /\ keyNo' = [keyNo EXCEPT ![d] = n]
        /\ UNCHANGED <<strict, kexinits, secrets>>

Sent(d, type) == Cardinality({i \in DOMAIN sent[d] : sent[d][i].type = type})

\* No channel data between a side's KEXINIT and its NEWKEYS.
SendData ==
    /\ keyNo["s2c"] >= 0
    /\ ~Exchanging("s2c")
    /\ Sent("s2c", "CHANNEL_DATA") < MaxChunks
    /\ \E body \in {Marker, Noise} : Put("s2c", "CHANNEL_DATA", -1, body)
    /\ UNCHANGED <<strict, keyNo, kexinits, secrets>>

\* Any other packet: requests and acknowledgements between exchanges, and,
\* unless strict KEX forbids it, IGNORE or DEBUG during the initial one.
SendOther(d) ==
    /\ \/ keyNo[d] >= 0 /\ ~Exchanging(d)
       \/ keyNo[d] = -1 /\ Exchanging(d) /\ ~strict
    /\ Sent("c2s", "OTHER") + Sent("s2c", "OTHER") < MaxOther
    /\ Put(d, "OTHER", -1, Noise)
    /\ UNCHANGED <<strict, keyNo, kexinits, secrets>>

SessionStep ==
    \/ \E d \in Dir : SendKexInit(d) \/ SendNewKeys(d) \/ SendOther(d)
    \/ SendEcdhInit
    \/ SendEcdhReply
    \/ SendData

SessionTypeOK ==
    /\ strict \in BOOLEAN
    /\ sent \in [Dir -> Seq([type: MsgType, kex: Int, body: {Marker, Noise}, key: Int, seq: Nat])]
    /\ keyNo \in [Dir -> Int]
    /\ seqNo \in [Dir -> Nat]
    /\ kexinits \in [Dir -> Nat]
    /\ secrets \in Seq(Secrets)
=============================================================================
