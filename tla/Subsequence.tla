---------------------------- MODULE Subsequence ----------------------------
(***************************************************************************)
(* Array.filter.  SelectSeq of the standard module does the same; this form *)
(* names the places that stay, so that what stays can be reasoned about.    *)
(***************************************************************************)
EXTENDS Integers, Sequences

\* The elements of s at the places in kept, in their order.
At(s, kept) ==
    LET upTo[i \in 0..Len(s)] ==
            IF i = 0 THEN <<>>
            ELSE IF i \in kept THEN Append(upTo[i - 1], s[i]) ELSE upTo[i - 1]
    IN  upTo[Len(s)]
=============================================================================
