------------------------------ MODULE Selection ------------------------------
(* The elements of a list that are in a set, in their order: what a list     *)
(* comprehension with a condition makes of it.  SelectSeq does the same with *)
(* an operator for the condition.                                            *)
EXTENDS Integers, Sequences

Kept(s, keep) ==
    LET kept[n \in 0 .. Len(s)] ==
            IF n = 0 THEN << >>
            ELSE IF s[n] \in keep THEN Append(kept[n - 1], s[n])
            ELSE kept[n - 1]
    IN  kept[Len(s)]
=============================================================================
