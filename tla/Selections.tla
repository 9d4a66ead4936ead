----------------------------- MODULE Selections -----------------------------
(* The selection that several programs make by a loop over a list.          *)
EXTENDS Integers, Sequences

\* What s has at the places in K, in order.
Kept(s, K) ==
    LET kept[k \in 0..Len(s)] ==
            IF k = 0 THEN <<>>
            ELSE IF k \in K THEN Append(kept[k - 1], s[k]) ELSE kept[k - 1]
    IN  kept[Len(s)]
=============================================================================
