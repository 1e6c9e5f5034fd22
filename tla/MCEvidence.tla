----------------------------- MODULE MCEvidence -----------------------------
(***************************************************************************)
(* Five validators, the first one faulty.  It leaves with the second       *)
(* epoch, and the positions of the others shift.  The node leads view 1.   *)
(***************************************************************************)
EXTENDS Evidence

MCSets == [e \in {0, 1} |-> IF e = 0 THEN <<1, 2, 3, 4>> ELSE <<2, 3, 4, 5>>]
MCForeign == {[validator |-> v, view |-> w, type |-> "Vote2", epoch |-> e,
               a |-> "a", b |-> "b"] :
                 <<v, w, e>> \in {<<1, 1, 1>>, <<1, 2, 1>>, <<2, 1, 0>>}}
MCCorrect == [w \in View |-> "a"]

=============================================================================
