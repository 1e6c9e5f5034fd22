------------------------------- MODULE Epochs -------------------------------
(***************************************************************************)
(* Epoch transitions (hotmint-types/epoch.rs, and the folds over committed *)
(* blocks of commit.rs, sync.rs and engine.rs).  An epoch is its number,   *)
(* its first view and the set of blocks whose validator updates it has     *)
(* applied, which stands for the validator set (ValidatorUpdates checks    *)
(* what one application does).  A node keeps three of them: the current    *)
(* one, the previous one for certificates still in flight, and the pending *)
(* one that waits for its first view.                                      *)
(***************************************************************************)
EXTENDS BlockStore

CONSTANTS
    Updates       \* the blocks whose execution returns validator updates

ASSUME UpdatesAssumption == Updates \subseteq Block \ {Genesis}

NoEpoch == [number |-> 0, start |-> 0, applied |-> {Genesis}]

GenesisEpoch == [number |-> 0, start |-> 0, applied |-> {}]

GenesisEpochs == [cur |-> GenesisEpoch, prev |-> NoEpoch, pend |-> NoEpoch]

Activates(pend, view) == pend # NoEpoch /\ view >= pend.start

(***************************************************************************)
(* chained_pending_epoch: updates accumulate on the epoch in flight, if    *)
(* there is one, and move the transition to two views after the last block *)
(* that carried updates.                                                   *)
(***************************************************************************)
ChainedPendingEpoch(cur, pend, b) ==
    LET base == IF pend = NoEpoch THEN cur ELSE pend
    IN  [number  |-> base.number + 1,
         start   |-> ViewOf[b] + 2,
         applied |-> base.applied \cup {b}]

(* Activation by a committed block that has reached the first view.        *)
ActivateAt(e, b) ==
    IF Activates(e.pend, ViewOf[b])
    THEN [cur |-> e.pend, prev |-> e.cur, pend |-> NoEpoch]
    ELSE e

(* Fault: every block of a batch is executed under the active epoch.       *)
ContextEpoch_Active(e, b) == e.cur

(***************************************************************************)
(* The epoch a live commit executes block b under (try_commit): a block of *)
(* a view before the active epoch belongs to the one before it.            *)
(***************************************************************************)
ContextEpoch(e, b) ==
    IF ViewOf[b] < e.cur.start /\ e.prev # NoEpoch THEN e.prev ELSE e.cur

(* The updates returned by the execution of b become the pending epoch, if *)
(* they apply to the set; RefuseLive and RefuseSync of Node if they do not. *)
AfterExecution(e, b) ==
    IF b \in Updates
    THEN [e EXCEPT !.pend = ChainedPendingEpoch(e.cur, e.pend, b)]
    ELSE e

(* advance_view_to: activation by a node that enters a view.               *)
EnterView(e, view) ==
    IF Activates(e.pend, view)
    THEN [cur |-> e.pend, prev |-> e.cur, pend |-> NoEpoch]
    ELSE e

-----------------------------------------------------------------------------
(***************************************************************************)
(* What the chain alone determines: the epochs after the execution of its  *)
(* blocks up to height h, one at a time and from genesis, and the epoch    *)
(* each block is then executed under.  Every commit path claims to derive  *)
(* the same.                                                               *)
(***************************************************************************)
ChainEpochs(chain) ==
    LET after[h \in Heights] ==
            IF h = 0 \/ h > HeightOf[chain] THEN GenesisEpochs
            ELSE LET b == AncestorAt[chain][h]
                 IN  AfterExecution(ActivateAt(after[h - 1], b), b)
    IN  after

ChainContext(chain) ==
    [h \in 1..HeightOf[chain] |->
        LET b == AncestorAt[chain][h]
        IN  ContextEpoch(ActivateAt(ChainEpochs(chain)[h - 1], b), b)]

=============================================================================
