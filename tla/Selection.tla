----------------------------- MODULE Selection -----------------------------
(* A helper on sequences, for Frame, Messages, Codec, Direct and WritePump. *)
EXTENDS Naturals, Sequences

\* The elements of s at the positions in D, in the order they stand in s.
Selected(s, D) ==
    LET upTo[i \in 0..Len(s)] ==
            IF i = 0 THEN << >>
            ELSE IF i \in D THEN Append(upTo[i - 1], s[i]) ELSE upTo[i - 1]
    IN  upTo[Len(s)]
=============================================================================
