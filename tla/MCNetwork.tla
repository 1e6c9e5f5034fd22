------------------------------ MODULE MCNetwork ------------------------------
(***************************************************************************)
(* Four instances in one run, told apart by the configuration: a churn of  *)
(* connections and epochs around a limit of one slot; relaying; the way    *)
(* of transactions into a pool of two; and requests for blocks.            *)
(***************************************************************************)
EXTENDS Transactions

CONSTANTS pa, pb, pc, pd, t1, t2, t3

MCPeer == {pa, pb, pc, pd}
MCOnChain == {pa, pb, pc}

(* Epoch 2 rotates a key and swaps in a validator, epoch 3 exchanges keys. *)
MCSets == << <<[id |-> 1, key |-> pa], [id |-> 2, key |-> pb]>>,
             <<[id |-> 2, key |-> pa], [id |-> 3, key |-> pc]>>,
             <<[id |-> 2, key |-> pc], [id |-> 3, key |-> pa]>> >>
MCLeaderOf == [e \in 1..3 |-> [v \in 1..2 |-> MCSets[e][v].id]]

Msg(kind, by, e, signers) ==
    [kind |-> kind, by |-> by, epoch |-> e, view |-> 2, signers |-> signers, signed |-> TRUE]
MCMessage == {Msg("vote", 1, 1, {}), Msg("prepare", 2, 1, {}), Msg("tc", 1, 1, {1, 2}),
              Msg("wish", 2, 2, {}), Msg("status", 2, 1, {})}
MCOwnMessage == {m \in MCMessage : m.kind = "vote"}

MCTx == {t1, t2, t3}
MCHashOrder == t1 :> 1 @@ t2 :> 2 @@ t3 :> 3
MCSizeOf == t1 :> 2 @@ t2 :> 4 @@ t3 :> 2
Says(valid, priority, gas) == [valid |-> valid, priority |-> priority, gas |-> gas]
MCVerdict ==
    << t1 :> Says(TRUE, 1, 1) @@ t2 :> Says(TRUE, 2, 2) @@ t3 :> Says(TRUE, 1, 1),
       t1 :> Says(TRUE, 3, 1) @@ t2 :> Says(FALSE, 0, 0) @@ t3 :> Says(TRUE, 2, 1),
       t1 :> Says(FALSE, 0, 0) @@ t2 :> Says(TRUE, 2, 3) @@ t3 :> Says(TRUE, 2, 2) >>
MCBudgets == {0, 3}

(* The configuration, then the bounds of the instance.                     *)
Setting(max_peers, relay, persistent, max_txs, dialers, moves, epochs, floods, kinds,
        inbox_size, sync_queue, txs, versions) ==
    [max_peers |-> max_peers, relay_consensus |-> relay, persistent_peers |-> persistent,
     max_txs |-> max_txs, dialers |-> dialers, churn |-> moves, epochs |-> epochs,
     floods |-> floods, kinds |-> kinds, inbox |-> inbox_size, sync_queue |-> sync_queue,
     txs |-> txs, versions |-> versions]
Churn == Setting(1, FALSE, <<2>>, 0, MCPeer, 4, 3, 0, {"notif"}, 0, 0, 0, 1)
Relaying == Setting(1, TRUE, <<1, 2>>, 0, {pb}, 1, 2, 5, {"notif"}, 1, 0, 0, 1)
Pooling == Setting(1, FALSE, <<1>>, 2, {pa}, 1, 1, 0, {"mempool"}, 0, 0, 3, 3)
Serving == Setting(1, FALSE, <<2>>, 0, {pb, pc, pd}, 3, 2, 0, {"notif"}, 1, 2, 0, 1)
MCSettings == {Churn, Relaying, Pooling, Serving}

=============================================================================
