------------------------------- MODULE Filter -------------------------------
(* The elements of a sequence that belong to a set, in their order: what     *)
(* SelectSeq selects by a test, written so that it can be reasoned about.    *)
EXTENDS Naturals, Sequences

\* What is kept of the first n elements, for each n.
KeptOf(s, S) ==
    LET kept[n \in 0 .. Len(s)] ==
            IF n = 0 THEN <<>>
            ELSE IF s[n] \in S THEN Append(kept[n - 1], s[n]) ELSE kept[n - 1]
    IN  kept

Keep(s, S) == KeptOf(s, S)[Len(s)]
=============================================================================
