------------------------------- MODULE MCNode -------------------------------
(***************************************************************************)
(* The block trees on which TLC checks Node.  A tree is a table with one   *)
(* row <<view, parent, epoch of the certificate>> per block; a block is    *)
(* the number of its row, and row 1 is Genesis.                            *)
(***************************************************************************)
EXTENDS Node, TLC

Column(tree, c) == [b \in DOMAIN tree |-> tree[b][c]]

HeightsIn(tree) ==
    LET h[b \in DOMAIN tree] == IF b = 1 THEN 0 ELSE h[tree[b][2]] + 1 IN h

(***************************************************************************)
(* A branch 1-3-5-6 with updates in rows 3 and 6, and rivals in rows 2 and *)
(* 4: row 2 was certified, but only its leader saw the certificate, and    *)
(* proposed row 4 on it later.  The epoch announced by row 3 starts in     *)
(* view 4, after row 5 and before row 6.                                   *)
(***************************************************************************)
ForkTree == << <<0, 1, 0>>,
               <<1, 1, 0>>,
               <<2, 1, 0>>,
               <<4, 2, 0>>,
               <<3, 3, 0>>,
               <<5, 5, 1>> >>

ForkBlockT  == DOMAIN ForkTree
ForkViewT   == Column(ForkTree, 1)
ForkParentT == Column(ForkTree, 2)
ForkCertT   == Column(ForkTree, 3)
ForkHeightT == HeightsIn(ForkTree)

ForkBlock == ForkBlockT
ForkView == ForkViewT
ForkParent == ForkParentT
ForkCert == ForkCertT
ForkHeight == ForkHeightT

(***************************************************************************)
(* A single branch; row 3 carries updates again, in the view before the    *)
(* first view of the epoch that row 2 announced.                           *)
(***************************************************************************)
LineTree == << <<0, 1, 0>>,
               <<2, 1, 0>>,
               <<3, 2, 0>>,
               <<4, 3, 0>> >>

LineBlockT  == DOMAIN LineTree
LineViewT   == Column(LineTree, 1)
LineParentT == Column(LineTree, 2)
LineCertT   == Column(LineTree, 3)
LineHeightT == HeightsIn(LineTree)

LineBlock == LineBlockT
LineView == LineViewT
LineParent == LineParentT
LineCert == LineCertT
LineHeight == LineHeightT

(* After a refusal or a stray block only the states without a crash, in    *)
(* views that have a block, are explored: every property but TypeOK speaks *)
(* of undisturbed nodes.                                                   *)
LastBlockView == 5
Explored == Undisturbed \/ (crashes = 0 /\ view <= LastBlockView)

=============================================================================
