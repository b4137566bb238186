---------------------------- MODULE OracleLadder ----------------------------
(***************************************************************************)
(* What the recovery of a rekeyed SSH session promises about the simulated *)
(* quantum oracle: README "The decoder obtains a later share only after    *)
(* authenticating and decrypting the preceding transport epoch".  Epochs   *)
(* are opened one by one, and the only scalar that may leave the oracle is *)
(* the one that opens the next epoch.                                      *)
(***************************************************************************)
EXTENDS Integers

VARIABLES
    opened,     \* number of transport epochs authenticated so far
    released    \* exchanges whose client scalar has left the oracle

vars == <<opened, released>>

Init == opened = 0 /\ released = {}

Release == /\ released' = released \union {opened}
           /\ UNCHANGED opened

Open == /\ opened \in released
        /\ opened' = opened + 1
        /\ UNCHANGED released

Next == Release \/ Open

Spec == Init /\ [][Next]_vars
=============================================================================
