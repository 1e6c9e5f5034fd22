------------------------------- MODULE Ledger -------------------------------
(***************************************************************************)
(* What the consensus engine promises to the applications above it: every  *)
(* replica has committed a chain of blocks, named by its last block; a     *)
(* replica only ever extends its chain, and any two chains are prefixes of *)
(* one another.                                                            *)
(***************************************************************************)
EXTENDS Naturals

CONSTANTS
    Member,       \* the replicas the promise is made to
    Block,        \* every block
    Genesis,      \* the block every chain starts from
    Ancestors     \* the chain a block closes, itself included

VARIABLE chain    \* the last block of each member's committed chain

OnOneChain(a, b) == a \in Ancestors[b] \/ b \in Ancestors[a]

Init == chain = [r \in Member |-> Genesis]

(* A member commits up to b: one block or several at once.                 *)
Commit(r, b) ==
    /\ chain[r] \in Ancestors[b]
    /\ \A s \in Member : OnOneChain(chain[s], b)
    /\ chain' = [chain EXCEPT ![r] = b]

Next == \E r \in Member, b \in Block : Commit(r, b)

Spec == Init /\ [][Next]_chain

=============================================================================
