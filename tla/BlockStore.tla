----------------------------- MODULE BlockStore -----------------------------
(***************************************************************************)
(* The block store of a node (hotmint-storage/block_store.rs, and the      *)
(* in-memory twin in hotmint-consensus/store.rs) as a record of maps:      *)
(*                                                                         *)
(*    blocks   by_hash: a block is named by its hash                       *)
(*    index    by_height: the block a height leads to                      *)
(*    qcs      commit_qcs, a certificate being named by its block          *)
(*    results  block_results: "none", the "default" answer of the          *)
(*             NoopApplication, or the "real" answer of the application    *)
(*                                                                         *)
(* None stands for an absent key.                                          *)
(***************************************************************************)
EXTENDS Naturals

CONSTANTS
    Block,        \* every well-formed block
    Genesis,      \* Block::genesis
    Parent,       \* Block.parent_hash
    HeightOf,     \* Block.height
    ViewOf,       \* Block.view
    MaxHeight,    \* height of the highest block of the tree
    None

ASSUME BlockAssumption ==
    /\ Genesis \in Block /\ None \notin Block
    /\ MaxHeight \in Nat
    /\ Parent \in [Block -> Block]
    /\ HeightOf \in [Block -> 0..MaxHeight]
    /\ ViewOf \in [Block -> Nat]
    /\ HeightOf[Genesis] = 0
    /\ \A b \in Block \ {Genesis} : HeightOf[b] = HeightOf[Parent[b]] + 1

Heights == 0..MaxHeight

Stores == [blocks  : SUBSET Block,
           index   : [Heights -> Block \cup {None}],
           qcs     : [Heights -> Block \cup {None}],
           results : [Heights -> {"none", "default", "real"}]]

(* Fault: the index follows the last block stored, certificate or not.     *)
PutBlock_IgnoresPin(s, b) ==
    [s EXCEPT !.blocks = @ \cup {b}, !.index[HeightOf[b]] = b]

(* Fault: a block is indexed one height up.                                *)
PutBlock_OffByOne(s, b) ==
    [s EXCEPT !.blocks = @ \cup {b},
              !.index = [h \in Heights |-> IF h = HeightOf[b] + 1 THEN b ELSE @[h]]]

(***************************************************************************)
(* put_block: the index follows the last block stored at a height until a  *)
(* commit certificate pins it.                                             *)
(***************************************************************************)
PutBlock(s, b) ==
    [s EXCEPT !.blocks = @ \cup {b},
              !.index[HeightOf[b]] =
                  IF s.qcs[HeightOf[b]] \in {None, b} THEN b ELSE @]

(***************************************************************************)
(* put_commit_qc: the certificate of block b always replaces the one that  *)
(* is there, and moves the index if the block is stored.                   *)
(***************************************************************************)
PutCommitQC(s, h, b) ==
    [s EXCEPT !.qcs[h] = b,
              !.index[h] = IF b \in s.blocks /\ HeightOf[b] = h THEN b ELSE @]

PutBlockResults(s, h, r) == [s EXCEPT !.results[h] = r]

(* get_block_by_height: a height whose block is not stored has none.       *)
GetBlockByHeight(s, h) ==
    IF s.index[h] \in s.blocks THEN s.index[h] ELSE None

(* open on an empty directory, or on one that lost the genesis block.      *)
Opened(s) == IF Genesis \in s.blocks THEN s ELSE PutBlock(s, Genesis)

EmptyStore == [blocks  |-> {},
               index   |-> [h \in Heights |-> None],
               qcs     |-> [h \in Heights |-> None],
               results |-> [h \in Heights |-> "none"]]

-----------------------------------------------------------------------------
(* The chain below a block: AncestorAt[b][h] is the block of height h.     *)
AncestorAt[b \in Block] ==
    [h \in 0..HeightOf[b] |->
        IF h = HeightOf[b] THEN b ELSE AncestorAt[Parent[b]][h]]

=============================================================================
