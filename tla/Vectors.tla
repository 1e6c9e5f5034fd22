------------------------------ MODULE Vectors -------------------------------
(***************************************************************************)
(* What the code asks of the standard library's vectors, where the         *)
(* operators on sequences have no counterpart that can be proved about.    *)
(***************************************************************************)
EXTENDS Naturals, Sequences

(* Vec::retain: the elements at the positions to keep, in their order.     *)
Retain(s, keep) ==
    LET kept[n \in 0..Len(s)] ==
            IF n = 0 THEN <<>>
            ELSE IF n \in keep THEN Append(kept[n - 1], s[n]) ELSE kept[n - 1]
    IN  kept[Len(s)]

=============================================================================
