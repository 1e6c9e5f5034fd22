----------------------------- MODULE MCPacemaker -----------------------------
(***************************************************************************)
(* Four replicas of equal power; replica 4 does not follow the protocol.   *)
(* An epoch starts in view 3, which is led by replica 4 in the one         *)
(* instance and by replica 1 in the other.                                 *)
(***************************************************************************)
EXTENDS Pacemaker

MCPower == [v \in Validator |-> 1]
MCEpoch == [v \in Views |-> IF v >= 3 THEN 1 ELSE 0]
MCFaultyAt3 == [v \in Views |-> <<2, 1, 4>>[v]]
MCHonestAt3 == [v \in Views |-> <<2, 4, 1, 2>>[v]]

(* Replica 4 helps replica 1 into view 2 and replica 2 into view 3.        *)
MCFaultyWishes == {<<1, 2>>, <<2, 3>>}

(* With an old double certificate it takes replica 3 to view 3.            *)
MCFaultyProposals == {<<3, 3>>}

(* With replica 4, two others make a view succeed: in view 1 the next      *)
(* leader and another, in view 2 two that do not lead the next view.  Or   *)
(* else only view 2 succeeds, through the next leader and another.         *)
MCPrepares == {<<1, 1>>, <<3, 1>>, <<2, 2>>, <<3, 2>>}
MCPreparesLast == {1, 3} \X {2}

(* No broken link, or the two between replicas 1 and 3.                    *)
MCNoCut == {{}}
MCCut == {{<<1, 3>>, <<3, 1>>}}

=============================================================================
