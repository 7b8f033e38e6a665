----------------------------- MODULE Selection -----------------------------
(***************************************************************************)
(* Taking from a sequence the elements of a set, in their order: what      *)
(* Sequences' SelectSeq does for a test.  Its test is an operator, which   *)
(* the proof system cannot expand; a set it can reason about.              *)
(***************************************************************************)
EXTENDS Integers, Sequences

\* The elements of s that are in T.
Select(s, T) ==
    LET upTo[n \in 0 .. Len(s)] ==
            IF n = 0 THEN <<>>
            ELSE IF s[n] \in T THEN Append(upTo[n - 1], s[n]) ELSE upTo[n - 1]
    IN  upTo[Len(s)]

\* The indices of a sequence, to select positions by.
Numbers(s) == [k \in 1 .. Len(s) |-> k]

=============================================================================
