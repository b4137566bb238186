----------------------------- MODULE Selection -----------------------------
(***************************************************************************)
(* Filtering a sequence.  SelectSeq takes its test as an operator, which a *)
(* proof cannot quantify over; here the test is a set, so that one lemma   *)
(* about Only serves every filter of the models.                           *)
(***************************************************************************)
EXTENDS Naturals, Sequences

\* The elements of s that are in S, in their order.
Only(s, S) ==
    LET kept[i \in 0..Len(s)] ==
            IF i = 0 THEN <<>> ELSE IF s[i] \in S THEN Append(kept[i - 1], s[i]) ELSE kept[i - 1]
    IN  kept[Len(s)]
=============================================================================
