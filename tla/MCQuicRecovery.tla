--------------------------- MODULE MCQuicRecovery ---------------------------
(* TLC instances of QuicRecovery.                                          *)
EXTENDS QuicRecovery

\* EncryptedExtensions of one octet, Finished of two.
TwoMessages == <<1, 2>>
=============================================================================
