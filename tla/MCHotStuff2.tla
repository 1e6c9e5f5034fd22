----------------------------- MODULE MCHotStuff2 -----------------------------
(***************************************************************************)
(* The block trees and validator sets on which TLC checks HotStuff2.  A    *)
(* tree is a table with one row <<view, parent, app>> per block; a block   *)
(* is the number of its row, and row 1 is Genesis.  app is the block whose *)
(* execution produced the app_hash in the row's block.                     *)
(*                                                                         *)
(* The tables are definitions of their own, and the constants are replaced *)
(* by aliases of them, so that TLC evaluates each table once.              *)
(***************************************************************************)
EXTENDS HotStuff2Inv, TLC

V == INSTANCE ValidatorSet WITH MaxPower <- 100

CONSTANTS n1, n2, n3, z    \* validators; z is the Byzantine one

Validator(v, p) == [id |-> v, power |-> p]

(* f[b] for each row b of a table. *)
Column(tree, c) == [b \in DOMAIN tree |-> tree[b][c]]

(* Heights of a table whose rows follow their parents'. *)
Heights(tree) ==
    LET h[b \in DOMAIN tree] == IF b = 1 THEN 0 ELSE h[tree[b][2]] + 1 IN h

Leaders(vs) == [v \in 1..(MaxView + 1) |-> V!LeaderForView(vs, v)]

-----------------------------------------------------------------------------
(* Four validators, none of which is needed by every quorum.  z has enough *)
(* power to lead every view of the model.                                  *)

FourSet == <<Validator(z, 5), Validator(n1, 6), Validator(n2, 6), Validator(n3, 6)>>

FourTree == << <<0, 1, 1>>,
               <<1, 1, 1>>,
               <<2, 1, 1>> >>   \* conflicts with row 2

FourQuorumT == V!Quorums(FourSet)
FourLeaderT == Leaders(FourSet)
FourBlockT  == DOMAIN FourTree
FourViewT   == Column(FourTree, 1)
FourParentT == Column(FourTree, 2)
FourAppT    == Column(FourTree, 3)
FourHeightT == Heights(FourTree)

FourHonest == {n1, n2, n3}
FourByzantine == {z}
FourQuorum == FourQuorumT
FourLeader == FourLeaderT
FourBlock  == FourBlockT
FourView   == FourViewT
FourParent == FourParentT
FourApp    == FourAppT
FourHeight == FourHeightT

(* The honest validators hold the same power and lead no view.             *)
FourSymmetry == Permutations(FourHonest)

-----------------------------------------------------------------------------
(* Two honest validators and z, which lead views 1, 2 and 3 in that order. *)
(* n1 belongs to every quorum; the model is small enough for crashes.      *)

PairSet == <<Validator(n1, 2), Validator(n2, 1), Validator(z, 1)>>

PairTree == << <<0, 1, 1>>,
               <<1, 1, 1>>,
               <<1, 1, 1>>,     \* proposed again after a restart
               <<2, 1, 1>>, <<2, 2, 1>>, <<2, 2, 2>>, <<2, 3, 1>>, <<2, 3, 3>>,
               <<3, 4, 4>>, <<3, 5, 5>>, <<3, 6, 6>> >>

PairQuorumT == V!Quorums(PairSet)
PairLeaderT == Leaders(PairSet)
PairBlockT == DOMAIN PairTree
PairViewT == Column(PairTree, 1)
PairParentT == Column(PairTree, 2)
PairAppT == Column(PairTree, 3)
PairHeightT == Heights(PairTree)

PairHonest == {n1, n2}
PairByzantine == {z}
PairQuorum == PairQuorumT
PairLeader == PairLeaderT
PairBlock == PairBlockT
PairView == PairViewT
PairParent == PairParentT
PairApp == PairAppT
PairHeight == PairHeightT

-----------------------------------------------------------------------------
(* z, n1 and n2 again, in an order in which n1 leads views 1 and 2 and z   *)
(* leads view 4: the restart of a replica that locked in view 1.           *)

RestartSet == <<Validator(z, 1), Validator(n1, 2), Validator(n2, 1)>>

RestartTree == << <<0, 1, 1>>,
                  <<1, 1, 1>>,
                  <<1, 1, 1>>,     \* proposed again after the restart
                  <<2, 1, 1>>,
                  <<4, 2, 2>>, <<4, 4, 4>> >>

RestartQuorumT == V!Quorums(RestartSet)
RestartLeaderT == Leaders(RestartSet)
RestartBlockT == DOMAIN RestartTree
RestartViewT == Column(RestartTree, 1)
RestartParentT == Column(RestartTree, 2)
RestartAppT == Column(RestartTree, 3)
RestartHeightT == Heights(RestartTree)

RestartQuorum == RestartQuorumT
RestartLeader == RestartLeaderT
RestartBlock == RestartBlockT
RestartView == RestartViewT
RestartParent == RestartParentT
RestartApp == RestartAppT
RestartHeight == RestartHeightT

-----------------------------------------------------------------------------
(* The same validators; n1 leads views 1 and 2, n2 leads view 3.  The tree *)
(* has every block these leaders can propose: the restart in a later view  *)
(* of a replica that holds a lock.                                         *)

ResumeTree == << <<0, 1, 1>>,
                 <<1, 1, 1>>,
                 <<2, 1, 1>>, <<2, 2, 1>>, <<2, 2, 2>>,
                 <<3, 1, 1>>, <<3, 2, 1>>, <<3, 2, 2>>, <<3, 3, 1>>, <<3, 3, 3>>,
                 <<3, 4, 1>>, <<3, 4, 2>>, <<3, 4, 4>>, <<3, 5, 2>>, <<3, 5, 5>> >>

ResumeBlockT == DOMAIN ResumeTree
ResumeViewT == Column(ResumeTree, 1)
ResumeParentT == Column(ResumeTree, 2)
ResumeAppT == Column(ResumeTree, 3)
ResumeHeightT == Heights(ResumeTree)

ResumeBlock == ResumeBlockT
ResumeView == ResumeViewT
ResumeParent == ResumeParentT
ResumeApp == ResumeAppT
ResumeHeight == ResumeHeightT

=============================================================================
