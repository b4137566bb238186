------------------------------ MODULE SshMpint ------------------------------
(***************************************************************************)
(* The integer encodings of decryptor/core/ssh_crypto.py.  A byte string   *)
(* is a sequence of numbers 0..255; the four-octet length prefix is one     *)
(* element holding the length.                                             *)
(***************************************************************************)
EXTENDS Integers, Sequences

HighBit(v) == v # <<>> /\ v[1] >= 128

SignPad(v) == IF HighBit(v) THEN <<0>> \o v ELSE v

LengthPrefixed(v) == <<Len(v)>> \o v

\* bytes.lstrip(b"\x00")
LStripZero(v) ==
    LET nonzero == {i \in 1..Len(v) : v[i] # 0}
    IN  IF nonzero = {} THEN <<>>
        ELSE SubSeq(v, CHOOSE i \in nonzero : \A j \in nonzero : i <= j, Len(v))

\* encode_ssh_mpint: the K that enters key derivation.
encode_ssh_mpint(v) == LengthPrefixed(SignPad(LStripZero(v)))

\* ssh_mpint, local to compute_exchange_hash: the K that enters H.  It pads
\* a value with the high bit set but does not strip leading zero octets.
ssh_mpint(v) == LengthPrefixed(SignPad(v))

\* External: the mpint that an OpenSSH endpoint puts both into its key
\* derivation and into its exchange hash (sshbuf_put_bignum2_bytes).
endpoint_mpint(v) == LengthPrefixed(SignPad(LStripZero(v)))
=============================================================================
