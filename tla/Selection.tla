------------------------------- MODULE Selection -------------------------------
(***************************************************************************)
(* The elements of a sequence that are in a set, in their order: a filter, *)
(* written as a function of the elements looked at so far.                 *)
(***************************************************************************)
EXTENDS Naturals, Sequences

Selected(seq, set) ==
    LET upTo[i \in 0..Len(seq)] ==
            IF i = 0 THEN <<>>
            ELSE IF seq[i] \in set THEN Append(upTo[i - 1], seq[i]) ELSE upTo[i - 1]
    IN  upTo[Len(seq)]
=============================================================================
