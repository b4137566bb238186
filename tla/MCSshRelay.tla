----------------------------- MODULE MCSshRelay -----------------------------
(* TLC instances of SshRelay.                                              *)
EXTENDS SshRelay

TwoAndThree == [d \in Dir |-> IF d = "c2s" THEN 2 ELSE 3]
=============================================================================
