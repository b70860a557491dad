----------------------------- MODULE Selections -----------------------------
(***************************************************************************)
(* What of a sequence is in a set, as a recursive function: the provers    *)
(* know nothing of SelectSeq.                                              *)
(***************************************************************************)
EXTENDS Integers, Sequences

\* The members of a set among the elements of s, in their order.
Selected(s, S) ==
    LET kept[n \in 0..Len(s)] ==
            IF n = 0 THEN <<>>
            ELSE IF s[n] \in S THEN Append(kept[n - 1], s[n])
            ELSE kept[n - 1]
    IN  kept[Len(s)]

=============================================================================
