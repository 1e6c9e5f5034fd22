----------------------------- MODULE NodeProofs -----------------------------
(***************************************************************************)
(* That a node's application, block store, log and checkpoint stay         *)
(* together through commits, replays, the writes of the watcher, crashes   *)
(* and restarts, and that it executes every block under the epoch that the *)
(* chain determines.                                                       *)
(***************************************************************************)
EXTENDS Node, Recursion

-----------------------------------------------------------------------------
(* The chain below a block.                                                *)

LEMMA BlockFacts ==
    /\ Genesis \in Block /\ None \notin Block /\ MaxHeight \in Nat
    /\ Parent \in [Block -> Block] /\ HeightOf \in [Block -> 0..MaxHeight]
    /\ \A b \in Block : HeightOf[b] \in Heights /\ HeightOf[b] \in Nat /\ Parent[b] \in Block
    /\ \A b \in Block : HeightOf[b] = 0 <=> b = Genesis
    /\ \A b \in Block : b # Genesis => HeightOf[Parent[b]] = HeightOf[b] - 1
BY BlockAssumption DEF Heights

(* AncestorAt follows its definition.                                      *)
LEMMA AncestorDefinition ==
    ASSUME NEW b \in Block
    PROVE  /\ AncestorAt[b] \in [0..HeightOf[b] -> Block]
           /\ AncestorAt[b][HeightOf[b]] = b
           /\ \A h \in 0..HeightOf[b] :
                  h # HeightOf[b] => AncestorAt[b][h] = AncestorAt[Parent[b]][h]
<1> DEFINE V == UNION {[0..n -> Block] : n \in Nat}
           base == [d \in Block |-> [h \in 0..HeightOf[d] |-> d]]
           step == [p \in Block \X V |->
                       [h \in 0..HeightOf[p[1]] |->
                           IF h = HeightOf[p[1]] THEN p[1]
                           ELSE IF h \in DOMAIN p[2] THEN p[2][h] ELSE p[1]]]
           iter(g) == [d \in Block |-> [h \in 0..HeightOf[d] |->
                           IF h = HeightOf[d] THEN d ELSE g[Parent[d]][h]]]
<1>1. \A n \in Nat : \A f \in [0..n -> Block] : f \in V
  OBVIOUS
<1>2. ASSUME NEW f \in V, NEW h \in DOMAIN f PROVE f[h] \in Block
  <2>1. PICK n \in Nat : f \in [0..n -> Block]
    OBVIOUS
  <2> QED BY <2>1, <1>2
<1>3. base \in [Block -> V]
  <2>1. ASSUME NEW d \in Block PROVE base[d] \in V
    <3>1. [h \in 0..HeightOf[d] |-> d] \in [0..HeightOf[d] -> Block]
      OBVIOUS
    <3> HIDE DEF V
    <3> QED BY <1>1, <3>1, BlockFacts
  <2> HIDE DEF V
  <2> QED BY <2>1
<1>4. step \in [Block \X V -> V]
  <2>1. ASSUME NEW p \in Block \X V
        PROVE  [h \in 0..HeightOf[p[1]] |->
                           IF h = HeightOf[p[1]] THEN p[1]
                           ELSE IF h \in DOMAIN p[2] THEN p[2][h] ELSE p[1]] \in V
    <3> HIDE DEF V
    <3>1. p[1] \in Block /\ p[2] \in V
      OBVIOUS
    <3>2. [h \in 0..HeightOf[p[1]] |->
                           IF h = HeightOf[p[1]] THEN p[1]
                           ELSE IF h \in DOMAIN p[2] THEN p[2][h] ELSE p[1]]
              \in [0..HeightOf[p[1]] -> Block]
      BY <3>1, <1>2
    <3> QED BY <1>1, <3>1, <3>2, BlockFacts
  <2> HIDE DEF V
  <2> QED BY <2>1
<1>5. IsRecursion(Block, V, MaxHeight, HeightOf, Parent, base, step)
  <2>1. \A d \in Block : HeightOf[d] # 0 => HeightOf[Parent[d]] < HeightOf[d]
    BY BlockFacts
  <2> HIDE DEF V, base, step
  <2> QED BY <1>3, <1>4, <2>1, BlockFacts DEF IsRecursion
<1>6. PICK g : FollowsRecursion(g, Block, V, HeightOf, Parent, base, step)
  <2> HIDE DEF V, base, step
  <2> QED BY <1>5, LevelRecursion
<1>7. ASSUME NEW d \in Block
      PROVE  g[d] \in V /\ g[d] = IF HeightOf[d] = 0 THEN base[d] ELSE step[<<d, g[Parent[d]]>>]
  <2> HIDE DEF V, base, step
  <2> QED BY <1>6 DEF FollowsRecursion
<1>8. ASSUME NEW d \in Block
      PROVE  DOMAIN g[d] = 0..HeightOf[d]
  <2>1. g[Parent[d]] \in V
    <3> HIDE DEF V
    <3> QED BY <1>7, BlockFacts
  <2>2. DOMAIN base[d] = 0..HeightOf[d] /\ DOMAIN step[<<d, g[Parent[d]]>>] = 0..HeightOf[d]
    <3> HIDE DEF V
    <3> QED BY <2>1
  <2> HIDE DEF V, base, step
  <2> QED BY <1>7, <2>2
<1>9. ASSUME NEW d \in Block PROVE g[d] = iter(g)[d]
  <2>1. g[Parent[d]] \in V /\ Parent[d] \in Block
    <3> HIDE DEF V
    <3> QED BY <1>7, BlockFacts
  <2>2. CASE HeightOf[d] = 0
    <3>1. g[d] = base[d]
      BY <1>7, <2>2
    <3> QED BY <2>2, <3>1
  <2>3. CASE HeightOf[d] # 0
    <3>1. DOMAIN g[Parent[d]] = 0..(HeightOf[d] - 1)
      BY <2>1, <2>3, <1>8, BlockFacts
    <3>2. g[d] = [h \in 0..HeightOf[d] |->
                     IF h = HeightOf[d] THEN d
                     ELSE IF h \in DOMAIN g[Parent[d]] THEN g[Parent[d]][h] ELSE d]
      <4>1. g[d] = step[<<d, g[Parent[d]]>>]
        BY <1>7, <2>3
      <4> HIDE DEF V
      <4> QED BY <4>1, <2>1
    <3>3. \A h \in 0..HeightOf[d] : h # HeightOf[d] => h \in 0..(HeightOf[d] - 1)
      BY BlockFacts
    <3> QED BY <3>1, <3>2, <3>3
  <2> QED BY <2>2, <2>3
<1>10. g = iter(g)
  <2>1. g = [d \in Block |-> g[d]]
    <3> HIDE DEF V, base, step
    <3> QED BY <1>6 DEF FollowsRecursion
  <2> HIDE DEF V, base, step
  <2> QED BY <2>1, <1>9
<1>11. AncestorAt = CHOOSE f : f = iter(f)
  BY DEF AncestorAt
<1>12. AncestorAt = iter(AncestorAt)
  <2> HIDE DEF iter
  <2> QED BY <1>10, <1>11
<1> DEFINE P == {n \in Nat : \A d \in Block : HeightOf[d] = n => AncestorAt[d] \in [0..n -> Block]}
<1>13. ASSUME NEW d \in Block
       PROVE  /\ AncestorAt[d] = [h \in 0..HeightOf[d] |-> AncestorAt[d][h]]
              /\ AncestorAt[d][HeightOf[d]] = d
              /\ \A h \in 0..HeightOf[d] :
                     h # HeightOf[d] => AncestorAt[d][h] = AncestorAt[Parent[d]][h]
  <2>1. HeightOf[d] \in 0..HeightOf[d]
    BY BlockFacts
  <2>2. AncestorAt[d] = [h \in 0..HeightOf[d] |->
                           IF h = HeightOf[d] THEN d ELSE AncestorAt[Parent[d]][h]]
    <3> HIDE DEF V, base, step
    <3> QED BY <1>12
  <2> DEFINE A == AncestorAt[d]
             B == AncestorAt[Parent[d]]
  <2>3. A = [h \in 0..HeightOf[d] |-> IF h = HeightOf[d] THEN d ELSE B[h]]
    BY <2>2
  <2> HIDE DEF A, B
  <2>4. /\ A = [h \in 0..HeightOf[d] |-> A[h]] /\ A[HeightOf[d]] = d
        /\ \A h \in 0..HeightOf[d] : h # HeightOf[d] => A[h] = B[h]
    BY <2>1, <2>3
  <2> QED BY <2>4 DEF A, B
<1>14. 0 \in P
  <2> SUFFICES ASSUME NEW d \in Block, HeightOf[d] = 0 PROVE AncestorAt[d] \in [0..0 -> Block]
    OBVIOUS
  <2>1. \A h \in 0..0 : AncestorAt[d][h] = d
    <3>1. AncestorAt[d][HeightOf[d]] = d
      BY <1>13
    <3>2. \A h \in 0..0 : h = HeightOf[d]
      OBVIOUS
    <3> QED BY <3>1, <3>2
  <2>2. AncestorAt[d] = [h \in 0..0 |-> AncestorAt[d][h]]
    BY <1>13
  <2> QED BY <2>1, <2>2
<1>15. ASSUME NEW n \in Nat, n \in P PROVE n + 1 \in P
  <2> SUFFICES ASSUME NEW d \in Block, HeightOf[d] = n + 1
               PROVE  AncestorAt[d] \in [0..(n + 1) -> Block]
    OBVIOUS
  <2>1. HeightOf[Parent[d]] = n /\ Parent[d] \in Block
    BY BlockFacts
  <2>2. AncestorAt[Parent[d]] \in [0..n -> Block]
    BY <1>15, <2>1
  <2>3. \A h \in 0..(n + 1) : AncestorAt[d][h] \in Block
    <3> SUFFICES ASSUME NEW h \in 0..(n + 1) PROVE AncestorAt[d][h] \in Block
      OBVIOUS
    <3>1. CASE h = n + 1
      BY <3>1, <1>13
    <3>2. CASE h # n + 1
      <4>1. h \in 0..n
        BY <3>2
      <4> QED BY <3>2, <4>1, <2>2, <1>13
    <3> QED BY <3>1, <3>2
  <2>4. AncestorAt[d] = [h \in 0..(n + 1) |-> AncestorAt[d][h]]
    BY <1>13
  <2> QED BY <2>3, <2>4
<1>16. Nat \subseteq P
  <2> HIDE DEF P
  <2> QED BY <1>14, <1>15, NumberInduction
<1>17. HeightOf[b] \in P
  BY <1>16, BlockFacts
<1> QED BY <1>13, <1>17

(* A block's ancestor of a height has that height.                         *)
LEMMA AncestorHeight ==
    ASSUME NEW b \in Block, NEW h \in 0..HeightOf[b]
    PROVE  AncestorAt[b][h] \in Block /\ HeightOf[AncestorAt[b][h]] = h
<1> DEFINE P == {n \in Nat : \A d \in Block : HeightOf[d] = n =>
                    \A k \in 0..n : HeightOf[AncestorAt[d][k]] = k}
<1>1. 0 \in P
  BY AncestorDefinition
<1>2. ASSUME NEW n \in Nat, n \in P PROVE n + 1 \in P
  <2> SUFFICES ASSUME NEW d \in Block, HeightOf[d] = n + 1, NEW k \in 0..(n + 1)
               PROVE  HeightOf[AncestorAt[d][k]] = k
    OBVIOUS
  <2>1. HeightOf[Parent[d]] = n /\ Parent[d] \in Block
    BY BlockFacts, SMTT(30)
  <2>2. AncestorAt[d][k] = IF k = n + 1 THEN d ELSE AncestorAt[Parent[d]][k]
    BY AncestorDefinition
  <2> QED BY <1>2, <2>1, <2>2
<1>3. Nat \subseteq P
  <2> HIDE DEF P
  <2> QED BY <1>1, <1>2, NumberInduction
<1>4. HeightOf[b] \in Nat /\ AncestorAt[b][h] \in Block
  BY AncestorDefinition, BlockFacts
<1>5. \A k \in 0..HeightOf[b] : HeightOf[AncestorAt[b][k]] = k
  BY <1>3, <1>4
<1> QED BY <1>4, <1>5

(* The ancestors of an ancestor are ancestors.                             *)
LEMMA AncestorOfAncestor ==
    ASSUME NEW b \in Block, NEW k \in 0..HeightOf[b], NEW h \in 0..k
    PROVE  AncestorAt[AncestorAt[b][k]][h] = AncestorAt[b][h]
<1> DEFINE P == {n \in Nat : \A d \in Block : HeightOf[d] = n =>
                    \A i \in 0..n : \A j \in 0..i :
                        AncestorAt[AncestorAt[d][i]][j] = AncestorAt[d][j]}
<1>1. 0 \in P
  <2> SUFFICES ASSUME NEW d \in Block, HeightOf[d] = 0
               PROVE  AncestorAt[AncestorAt[d][0]][0] = AncestorAt[d][0]
    OBVIOUS
  <2>1. AncestorAt[d][0] = d
    BY AncestorDefinition
  <2> QED BY <2>1
<1>2. ASSUME NEW n \in Nat, n \in P PROVE n + 1 \in P
  <2> SUFFICES ASSUME NEW d \in Block, HeightOf[d] = n + 1, NEW i \in 0..(n + 1), NEW j \in 0..i
               PROVE  AncestorAt[AncestorAt[d][i]][j] = AncestorAt[d][j]
    OBVIOUS
  <2>1. HeightOf[Parent[d]] = n /\ Parent[d] \in Block
    BY BlockFacts, SMTT(30)
  <2>2. \A m \in 0..(n + 1) : AncestorAt[d][m] = IF m = n + 1 THEN d ELSE AncestorAt[Parent[d]][m]
    BY AncestorDefinition
  <2>3. CASE i = n + 1
    BY <2>2, <2>3
  <2>4. CASE i # n + 1
    <3>1. i \in 0..n /\ j \in 0..i /\ j # n + 1 /\ j \in 0..(n + 1)
      BY <2>4
    <3>2. AncestorAt[AncestorAt[Parent[d]][i]][j] = AncestorAt[Parent[d]][j]
      BY <1>2, <2>1, <3>1
    <3> QED BY <2>2, <2>4, <3>1, <3>2
  <2> QED BY <2>3, <2>4
<1>3. Nat \subseteq P
  <2> HIDE DEF P
  <2> QED BY <1>1, <1>2, NumberInduction
<1>4. HeightOf[b] \in P
  BY <1>3, BlockFacts
<1> QED BY <1>4

(* The branch that consensus commits.                                      *)
LEMMA ChainFacts ==
    /\ FinalHeight \in Heights /\ FinalHeight \in Nat /\ FinalHeight <= MaxHeight
    /\ Chain \in [0..FinalHeight -> Block]
    /\ \A h \in 0..FinalHeight : HeightOf[Chain[h]] = h /\ h \in Heights
    /\ Chain[0] = Genesis
    /\ \A h \in 1..FinalHeight : Chain[h] # Genesis
    /\ \A h \in 1..FinalHeight : Parent[Chain[h]] = Chain[h - 1]
    /\ \A h \in 0..FinalHeight : \A k \in 0..h : AncestorAt[Chain[h]][k] = Chain[k]
<1>1. FinalTip \in Block
  BY NodeAssumption
<1>2. FinalHeight \in 0..MaxHeight /\ MaxHeight \in Nat
  BY <1>1, BlockFacts DEF FinalHeight
<1>3. Chain \in [0..FinalHeight -> Block]
  BY <1>1, AncestorDefinition DEF Chain, FinalHeight
<1>4. \A h \in 0..FinalHeight : HeightOf[Chain[h]] = h
  BY <1>1, AncestorHeight DEF Chain, FinalHeight
<1>5. \A h \in 0..FinalHeight : \A k \in 0..h : AncestorAt[Chain[h]][k] = Chain[k]
  BY <1>1, AncestorOfAncestor DEF Chain, FinalHeight
<1>6. Chain[0] = Genesis /\ \A h \in 1..FinalHeight : Chain[h] # Genesis
  BY <1>2, <1>3, <1>4, BlockFacts
<1>7. ASSUME NEW h \in 1..FinalHeight PROVE Parent[Chain[h]] = Chain[h - 1]
  <2> DEFINE c == Chain[h]
             p == Parent[c]
  <2>1. /\ c \in Block /\ HeightOf[c] = h /\ c # Genesis /\ h - 1 \in 0..h /\ h \in 0..FinalHeight
        /\ h - 1 # h
    BY <1>2, <1>3, <1>4, <1>6
  <2>2. p \in Block /\ HeightOf[p] = h - 1
    BY <2>1, BlockFacts
  <2>3. AncestorAt[c][h - 1] = AncestorAt[p][h - 1]
    BY <2>1, AncestorDefinition
  <2>4. AncestorAt[p][h - 1] = p
    <3> HIDE DEF p
    <3>1. h - 1 \in 0..HeightOf[p]
      BY <2>1, <2>2
    <3> QED BY <2>2, <3>1, AncestorDefinition
  <2>5. AncestorAt[c][h - 1] = Chain[h - 1]
    BY <1>5, <2>1
  <2> QED BY <2>3, <2>4, <2>5
<1> QED BY <1>2, <1>3, <1>4, <1>5, <1>6, <1>7 DEF Heights

-----------------------------------------------------------------------------
(* The block store.                                                        *)

(* The index does not dangle, and leads from height 0 to Genesis.          *)
GoodStore(s) ==
    /\ s \in Stores /\ Genesis \in s.blocks /\ s.index[0] = Genesis
    /\ \A h \in Heights : s.index[h] # None =>
           s.index[h] \in s.blocks /\ HeightOf[s.index[h]] = h

(* Height h leads to the committed block, and a certificate keeps it so.   *)
Pinned(s, h) ==
    /\ Chain[h] \in s.blocks /\ s.index[h] = Chain[h]
    /\ h > 0 => s.qcs[h] = Chain[h]

(* The committed blocks up to height n are there, with results.            *)
Covered(s, n) == \A h \in 1..n : Chain[h] \in s.blocks /\ s.results[h] # "none"

(* Store t comes after s: nothing committed is lost on the way.            *)
Succeeds(t, s) ==
    /\ GoodStore(t) /\ s.blocks \subseteq t.blocks
    /\ \A h \in 0..FinalHeight : Pinned(s, h) => Pinned(t, h)
    /\ \A h \in Heights : s.results[h] # "none" => t.results[h] # "none"

LEMMA SuccessionIsTransitive ==
    ASSUME NEW s, NEW t, NEW u, Succeeds(t, s), Succeeds(u, t)
    PROVE  Succeeds(u, s)
BY DEF Succeeds

LEMMA SucceedsItself == ASSUME NEW s, GoodStore(s) PROVE Succeeds(s, s)
BY DEF Succeeds

(* put_block.                                                              *)
LEMMA PutBlockSucceeds ==
    ASSUME NEW s, GoodStore(s), NEW b \in Block
    PROVE  /\ Succeeds(PutBlock(s, b), s) /\ b \in PutBlock(s, b).blocks
           /\ PutBlock(s, b).qcs = s.qcs /\ PutBlock(s, b).results = s.results
<1> DEFINE t == PutBlock(s, b)
           H == HeightOf[b]
           i == IF s.qcs[H] \in {None, b} THEN b ELSE s.index[H]
<1>1. s \in Stores /\ H \in Heights /\ HeightOf[b] = H
  BY BlockFacts DEF GoodStore
<1>2. /\ t.blocks = s.blocks \cup {b} /\ t.qcs = s.qcs /\ t.results = s.results
      /\ t.index = [s.index EXCEPT ![H] = i]
  BY <1>1 DEF PutBlock, Stores
<1>3. /\ s.blocks \in SUBSET Block /\ s.index \in [Heights -> Block \cup {None}]
      /\ s.qcs \in [Heights -> Block \cup {None}]
      /\ s.results \in [Heights -> {"none", "default", "real"}]
  BY <1>1 DEF Stores
<1>4. i \in Block \cup {None}
  BY <1>1, <1>3
<1>5. t \in Stores
  BY <1>1 DEF PutBlock, Stores
<1> HIDE DEF i, t, H
<1>6. \A h \in Heights : t.index[h] = IF h = H THEN i ELSE s.index[h]
  BY <1>1, <1>2, <1>3
<1>7. GoodStore(t)
  <2>1. t.index[0] = Genesis
    <3>1. CASE H = 0
      <4>1. b = Genesis
        BY <1>1, <3>1, BlockFacts
      <4>2. i = Genesis
        BY <3>1, <4>1 DEF GoodStore, i
      <4> QED BY <1>1, <1>6, <3>1, <4>2
    <3>2. CASE H # 0
      BY <1>6, <3>2, BlockFacts DEF GoodStore, Heights
    <3> QED BY <3>1, <3>2
  <2>2. ASSUME NEW h \in Heights, t.index[h] # None
        PROVE  t.index[h] \in t.blocks /\ HeightOf[t.index[h]] = h
    <3>1. CASE h = H /\ s.qcs[H] \in {None, b}
      BY <1>1, <1>2, <1>6, <3>1 DEF i
    <3>2. CASE ~(h = H /\ s.qcs[H] \in {None, b})
      <4>1. t.index[h] = s.index[h]
        BY <1>6, <3>2 DEF i
      <4> QED BY <1>2, <2>2, <4>1 DEF GoodStore
    <3> QED BY <3>1, <3>2
  <2>3. Genesis \in t.blocks
    BY <1>2 DEF GoodStore
  <2> QED BY <1>5, <2>1, <2>2, <2>3 DEF GoodStore
<1>8. ASSUME NEW h \in 0..FinalHeight, Pinned(s, h) PROVE Pinned(t, h)
  <2>1. h \in Heights /\ Chain[h] \in Block /\ HeightOf[Chain[h]] = h /\ (h = 0 => Chain[h] = Genesis)
    BY ChainFacts
  <2>2. t.index[h] = Chain[h]
    <3>1. CASE h = 0
      BY <1>7, <2>1, <3>1 DEF GoodStore
    <3>2. CASE h # 0
      <4>1. s.qcs[h] = Chain[h] /\ Chain[h] # None
        BY <1>8, <2>1, <3>2, BlockFacts DEF Pinned, Heights
      <4>2. h = H => i = Chain[h]
        BY <1>8, <4>1 DEF i, Pinned
      <4> QED BY <1>6, <1>8, <2>1, <4>2 DEF Pinned
    <3> QED BY <3>1, <3>2
  <2> QED BY <1>2, <1>8, <2>2 DEF Pinned
<1> QED BY <1>2, <1>7, <1>8 DEF Succeeds, t

(* put_commit_qc, for a block of the committed branch, or for a height     *)
(* that has no certificate yet.                                            *)
LEMMA PutCommitQCSucceeds ==
    ASSUME NEW s, GoodStore(s), NEW b \in Block, NEW h, h = HeightOf[b],
           \/ h \in 0..FinalHeight /\ b = Chain[h]
           \/ b # Genesis /\ s.qcs[h] = None
    PROVE  /\ Succeeds(PutCommitQC(s, h, b), s)
           /\ b \in s.blocks /\ h \in 0..FinalHeight /\ b = Chain[h]
                  => Pinned(PutCommitQC(s, h, b), h)
           /\ PutCommitQC(s, h, b).results = s.results
           /\ PutCommitQC(s, h, b).blocks = s.blocks
<1> DEFINE t == PutCommitQC(s, h, b)
           i == IF b \in s.blocks /\ HeightOf[b] = h THEN b ELSE s.index[h]
<1>1. s \in Stores /\ h \in Heights /\ HeightOf[b] = h
  BY BlockFacts DEF GoodStore
<1>2. /\ t.blocks = s.blocks /\ t.results = s.results
      /\ t.index = [s.index EXCEPT ![h] = i] /\ t.qcs = [s.qcs EXCEPT ![h] = b]
  BY <1>1 DEF PutCommitQC, Stores
<1>3. /\ s.blocks \in SUBSET Block /\ s.index \in [Heights -> Block \cup {None}]
      /\ s.qcs \in [Heights -> Block \cup {None}]
      /\ s.results \in [Heights -> {"none", "default", "real"}]
  BY <1>1 DEF Stores
<1>4. i \in Block \cup {None}
  BY <1>1, <1>3
<1>5. t \in Stores
  BY <1>1 DEF PutCommitQC, Stores
<1> HIDE DEF i, t
<1>6. /\ \A k \in Heights : t.index[k] = IF k = h THEN i ELSE s.index[k]
      /\ \A k \in Heights : t.qcs[k] = IF k = h THEN b ELSE s.qcs[k]
  BY <1>1, <1>2, <1>3
<1>7. GoodStore(t)
  <2>1. t.index[0] = Genesis
    <3>1. CASE h = 0
      <4>1. b = Genesis
        BY <1>1, <3>1, BlockFacts
      <4>2. i = Genesis
        BY <3>1, <4>1 DEF GoodStore, i
      <4> QED BY <1>1, <1>6, <3>1, <4>2
    <3>2. CASE h # 0
      BY <1>6, <3>2, BlockFacts DEF GoodStore, Heights
    <3> QED BY <3>1, <3>2
  <2>2. ASSUME NEW k \in Heights, t.index[k] # None
        PROVE  t.index[k] \in t.blocks /\ HeightOf[t.index[k]] = k
    <3>1. CASE k = h /\ b \in s.blocks
      BY <1>1, <1>2, <1>6, <3>1 DEF i
    <3>2. CASE ~(k = h /\ b \in s.blocks)
      <4>1. t.index[k] = s.index[k]
        BY <1>6, <3>2 DEF i
      <4> QED BY <1>2, <2>2, <4>1 DEF GoodStore
    <3> QED BY <3>1, <3>2
  <2>3. Genesis \in t.blocks
    BY <1>2 DEF GoodStore
  <2> QED BY <1>5, <2>1, <2>2, <2>3 DEF GoodStore
<1>8. ASSUME NEW k \in 0..FinalHeight, Pinned(s, k) PROVE Pinned(t, k)
  <2>1. k \in Heights /\ Chain[k] \in Block /\ (k = 0 => Chain[k] = Genesis)
    BY ChainFacts
  <2>2. CASE k # h
    BY <1>2, <1>6, <1>8, <2>1, <2>2 DEF Pinned
  <2>3. CASE k = h
    <3>1. CASE b = Chain[h]
      <4>1. i = b
        BY <1>1, <1>8, <2>3, <3>1 DEF i, Pinned
      <4> QED BY <1>2, <1>6, <1>8, <2>1, <2>3, <3>1, <4>1 DEF Pinned
    <3>2. CASE b # Genesis /\ s.qcs[h] = None
      <4>1. h > 0
        BY <1>1, <3>2, BlockFacts DEF Heights
      <4>2. s.qcs[h] = Chain[h]
        BY <1>8, <2>3, <4>1 DEF Pinned
      <4> QED BY <2>1, <2>3, <3>2, <4>2, BlockFacts
    <3> QED BY <3>1, <3>2
  <2> QED BY <2>2, <2>3
<1>9. ASSUME b \in s.blocks, b = Chain[h] PROVE Pinned(t, h)
  BY <1>1, <1>2, <1>6, <1>9 DEF Pinned, i
<1> QED BY <1>2, <1>7, <1>8, <1>9 DEF Succeeds, t

(* put_block_results.                                                      *)
LEMMA PutBlockResultsSucceeds ==
    ASSUME NEW s, GoodStore(s), NEW h \in Heights, NEW r \in {"default", "real"}
    PROVE  /\ Succeeds(PutBlockResults(s, h, r), s)
           /\ PutBlockResults(s, h, r).results[h] # "none"
           /\ PutBlockResults(s, h, r).blocks = s.blocks
<1> DEFINE t == PutBlockResults(s, h, r)
<1>1. /\ t.blocks = s.blocks /\ t.index = s.index /\ t.qcs = s.qcs
      /\ t.results = [s.results EXCEPT ![h] = r] /\ t \in Stores
      /\ s.results \in [Heights -> {"none", "default", "real"}]
  BY DEF PutBlockResults, GoodStore, Stores
<1>2. \A k \in Heights : t.results[k] = IF k = h THEN r ELSE s.results[k]
  BY <1>1
<1>3. r # "none"
  OBVIOUS
<1> HIDE DEF t
<1>4. GoodStore(t)
  BY <1>1 DEF GoodStore
<1>5. \A k \in 0..FinalHeight : Pinned(s, k) => Pinned(t, k)
  BY <1>1 DEF Pinned
<1> QED BY <1>1, <1>2, <1>3, <1>4, <1>5 DEF Succeeds, t

(* A certificate kept for the block a proposal extends.                    *)
LEMMA KeepJustifySucceeds ==
    ASSUME NEW s, GoodStore(s), NEW b \in Block
    PROVE  Succeeds(KeepJustify(s, b), s)
<1> DEFINE j == Parent[b]
<1>1. j \in Block
  BY BlockFacts
<1>2. CASE j # Genesis /\ j \in s.blocks /\ s.qcs[HeightOf[j]] = None
  <2> DEFINE h == HeightOf[j]
  <2>1. Succeeds(PutCommitQC(s, h, j), s)
    <3>1. h = HeightOf[j] /\ s.qcs[h] = None /\ j # Genesis
      BY <1>2
    <3> HIDE DEF h, j
    <3> QED BY <1>1, <3>1, PutCommitQCSucceeds
  <2> QED BY <1>2, <2>1 DEF KeepJustify
<1>3. CASE ~(j # Genesis /\ j \in s.blocks /\ s.qcs[HeightOf[j]] = None)
  BY <1>3, SucceedsItself DEF KeepJustify
<1> QED BY <1>2, <1>3

(* The ancestors a proposal carries along.                                 *)
LEMMA WithAncestorsSucceeds ==
    ASSUME NEW s, GoodStore(s), NEW b \in Block, committed \in Nat
    PROVE  Succeeds(WithAncestors(s, b), s)
<1> DEFINE skips(h) == h <= committed \/ h >= HeightOf[b]
           adds(v, h) == IF AncestorAt[b][h] \in s.blocks THEN v ELSE PutBlock(v, AncestorAt[b][h])
           D == {t \in Stores : Succeeds(t, s)}
           level == [h \in Heights |-> h]
           pred == [h \in Heights |-> IF h = 0 THEN 0 ELSE h - 1]
           base == [h \in Heights |-> s]
           step == [p \in Heights \X D |-> IF skips(p[1]) THEN p[2] ELSE adds(p[2], p[1])]
           iter(f) == [h \in Heights |->
                         IF h <= committed \/ h >= HeightOf[b]
                         THEN IF h = 0 THEN s ELSE f[h - 1]
                         ELSE IF AncestorAt[b][h] \in s.blocks THEN f[h - 1]
                              ELSE PutBlock(f[h - 1], AncestorAt[b][h])]
<1>0. MaxHeight \in Nat /\ Heights = 0..MaxHeight /\ HeightOf[b] \in Nat
  BY BlockFacts DEF Heights
<1>1. s \in D
  BY SucceedsItself DEF GoodStore
<1>2. ASSUME NEW v \in D, NEW h \in Heights, ~skips(h) PROVE adds(v, h) \in D
  <2> DEFINE a == AncestorAt[b][h]
  <2>1. a \in Block
    <3>1. h \in 0..HeightOf[b]
      BY <1>0, <1>2
    <3> QED BY <3>1, AncestorHeight
  <2>2. GoodStore(v) /\ Succeeds(v, s)
    BY DEF Succeeds
  <2> HIDE DEF a
  <2>3. Succeeds(PutBlock(v, a), v)
    BY <2>1, <2>2, PutBlockSucceeds
  <2>4. Succeeds(PutBlock(v, a), s)
    BY <2>2, <2>3, SuccessionIsTransitive
  <2>5. PutBlock(v, a) \in D
    BY <2>4 DEF Succeeds, GoodStore
  <2> QED BY <2>5 DEF a
<1>3. IsRecursion(Heights, D, MaxHeight, level, pred, base, step)
  <2>1. /\ MaxHeight \in Nat /\ level \in [Heights -> 0..MaxHeight]
        /\ pred \in [Heights -> Heights]
        /\ \A d \in Heights : level[d] # 0 => level[pred[d]] < level[d]
    <3> HIDE DEF D
    <3> QED BY <1>0
  <2>2. base \in [Heights -> D]
    <3> HIDE DEF D
    <3> QED BY <1>1
  <2>3. step \in [Heights \X D -> D]
    <3>1. ASSUME NEW p \in Heights \X D
          PROVE  (IF skips(p[1]) THEN p[2] ELSE adds(p[2], p[1])) \in D
      <4>1. p[1] \in Heights /\ p[2] \in D
        OBVIOUS
      <4> HIDE DEF D, adds, skips
      <4> QED BY <4>1, <1>2
    <3> HIDE DEF D, adds, skips
    <3> QED BY <3>1
  <2> HIDE DEF D, level, pred, base, step
  <2> QED BY <2>1, <2>2, <2>3 DEF IsRecursion
<1>4. PICK g : FollowsRecursion(g, Heights, D, level, pred, base, step)
  <2> HIDE DEF D, level, pred, base, step
  <2> QED BY <1>3, LevelRecursion
<1>5. ASSUME NEW h \in Heights
      PROVE  g[h] \in D /\ g[h] = IF level[h] = 0 THEN base[h] ELSE step[<<h, g[pred[h]]>>]
  <2> HIDE DEF D, level, pred, base, step
  <2> QED BY <1>4 DEF FollowsRecursion
<1>6. ASSUME NEW h \in Heights PROVE g[h] = iter(g)[h]
  <2>1. level[h] = h /\ base[h] = s /\ (h # 0 => pred[h] = h - 1 /\ h - 1 \in Heights)
    BY <1>0
  <2>2. CASE h = 0
    <3>1. g[h] = s
      <4> HIDE DEF D, level, pred, base, step
      <4> QED BY <1>5, <2>1, <2>2
    <3>2. h <= committed
      BY <2>2
    <3> QED BY <2>2, <3>1, <3>2
  <2>3. CASE h # 0
    <3> DEFINE v == g[h - 1]
    <3>1. v \in D
      <4> HIDE DEF D
      <4> QED BY <1>5, <2>1, <2>3
    <3>2. g[h] = step[<<h, v>>]
      <4> HIDE DEF D, level, pred, base, step
      <4> QED BY <1>5, <2>1, <2>3
    <3>3. step[<<h, v>>] = IF skips(h) THEN v ELSE adds(v, h)
      <4> HIDE DEF D, adds, skips, v
      <4> QED BY <3>1
    <3> QED BY <2>3, <3>2, <3>3
  <2> QED BY <2>2, <2>3
<1>7. g = iter(g)
  <2>1. g = [h \in Heights |-> g[h]]
    <3> HIDE DEF D, level, pred, base, step
    <3> QED BY <1>4 DEF FollowsRecursion
  <2> HIDE DEF D, level, pred, base, step
  <2> QED BY <2>1, <1>6
<1> DEFINE G == CHOOSE f : f = iter(f)
<1>8. G = iter(G)
  <2> HIDE DEF iter
  <2> QED BY <1>7
<1>9. WithAncestors(s, b) = G[MaxHeight]
  BY DEF WithAncestors
<1> DEFINE P == {n \in Nat : n \in Heights => G[n] = g[n]}
<1>10. \A h \in Heights : G[h] = iter(G)[h] /\ g[h] = iter(g)[h]
  <2> HIDE DEF G, iter
  <2> QED BY <1>7, <1>8
<1>11. 0 \in P
  <2>1. 0 \in Heights /\ 0 <= committed
    BY <1>0
  <2>2. iter(G)[0] = s /\ iter(g)[0] = s
    <3> HIDE DEF G
    <3> QED BY <2>1
  <2> HIDE DEF G, iter
  <2> QED BY <1>10, <2>1, <2>2
<1>12. ASSUME NEW n \in Nat, n \in P PROVE n + 1 \in P
  <2> SUFFICES ASSUME n + 1 \in Heights PROVE G[n + 1] = g[n + 1]
    OBVIOUS
  <2>1. n \in Heights /\ (n + 1) - 1 = n /\ n + 1 # 0
    BY <1>0
  <2>2. G[n] = g[n]
    BY <1>12, <2>1
  <2>3. iter(G)[n + 1] = iter(g)[n + 1]
    <3> HIDE DEF G
    <3> QED BY <2>1, <2>2
  <2> HIDE DEF G, iter
  <2> QED BY <1>10, <2>3
<1>13. Nat \subseteq P
  <2> HIDE DEF P
  <2> QED BY <1>11, <1>12, NumberInduction
<1>14. MaxHeight \in Heights /\ G[MaxHeight] = g[MaxHeight]
  BY <1>0, <1>13
<1>15. g[MaxHeight] \in D
  <2> HIDE DEF D
  <2> QED BY <1>5, <1>14
<1> HIDE DEF G
<1> QED BY <1>9, <1>14, <1>15

-----------------------------------------------------------------------------
(* The calls of the application.                                           *)

(* An answered execution has happened once, a failed one at most once.     *)
LEMMA ExecutionOutcomes ==
    ASSUME NEW o \in CallOutcomes("execute_block")
    PROVE  /\ o.answer \in {"given", "error"} /\ o.applied \in {0, 1}
           /\ o.answer = "given" => o.applied = 1
<1>1. ASSUME NEW c \in CallOnce("execute_block")
      PROVE  /\ c.applied \in {0, 1}
             /\ c.end = "answer" => c.applied = 1
             /\ c.end = "unwritten" => c.applied = 0
             /\ Retries("execute_block", c.end) <=> c.end = "unwritten"
  BY DEF CallOnce, ReadFrame, Dispatches, WriteFrame, Retries, MayRetryAfterWrite
<1>2. OnFailure("execute_block") = "error"
  BY DEF OnFailure, Raised, Denied, Empty, Aborted
<1> HIDE DEF CallOnce
<1> QED BY <1>1, <1>2 DEF CallOutcomes

-----------------------------------------------------------------------------
(* The inductive invariant.                                                *)

Epoch == [number : Nat, start : Nat, applied : SUBSET Block]

EpochTriples == [cur : Epoch, prev : Epoch, pend : Epoch]

Jobs == [kind  : {"idle", "live", "view", "sync"},
         stage : {"none", "intent", "walk", "execute", "persist", "done", "truncate"},
         tip   : Block, from : Heights, e : EpochTriples, act : BOOLEAN]

Watches == [stage : {"off", "store", "results", "write"}, height : 0..FinalHeight, epoch : Nat]

Statuses == [height : 0..FinalHeight, epoch : Nat]

Executions == [block : Block, epoch : Nat]

Types ==
    /\ phase \in {"sync", "running", "down", "halted"}
    /\ view \in Nat /\ committed \in 0..FinalHeight /\ epochs \in EpochTriples
    /\ job \in Jobs /\ status \in Statuses /\ watch \in Watches
    /\ GoodStore(store) /\ GoodStore(disk)
    /\ saved \in [view : Nat, height : 0..FinalHeight, e : EpochTriples]
    /\ app \in Seq(Executions)
    /\ crashes \in 0..MaxCrashes /\ early \in BOOLEAN /\ torn \in BOOLEAN

Up == phase \in {"sync", "running"}

(* A commit or a replay, in one of the given stages.                       *)
Commits(stages) == job.kind \in {"live", "sync"} /\ job.stage \in stages

(* What the node can be in the middle of.                                  *)
JobsFitPhase ==
    /\ ~Up => job = Idle /\ watch = WatchOff
    /\ phase = "sync" => job.kind \in {"idle", "sync"} /\ watch = WatchOff
    /\ phase = "running" => job.kind \in {"idle", "live", "view"}
    /\ job.kind = "idle" => job = Idle
    /\ job.kind = "view" => job.stage = "persist"
    /\ job.kind = "sync" => job.stage \in {"intent", "execute", "persist", "done", "truncate"}
    /\ job.kind = "live" =>
           job.stage \in {"intent", "walk", "execute", "persist", "done", "truncate"}
    /\ watch.stage \in {"results", "write"} => watch.height < FinalHeight

(* The target of a commit is a block of the committed branch: what a       *)
(* replay is about to execute or has executed, what a live commit has      *)
(* still to reach or has reached.                                          *)
TipsAreCommitted ==
    /\ job.kind \in {"live", "sync"} =>
           HeightOf[job.tip] \in 1..FinalHeight /\ job.tip = Chain[HeightOf[job.tip]]
    /\ job.kind = "sync" =>
           HeightOf[job.tip] = IF job.stage \in {"intent", "execute"} THEN committed + 1
                               ELSE committed
    /\ job.kind = "live" /\ job.stage = "execute" =>
           /\ committed <= HeightOf[job.tip] /\ saved.height < HeightOf[job.tip]
           /\ job.from = saved.height
           /\ \A h \in 1..HeightOf[job.tip] : Chain[h] \in store.blocks
    /\ Commits({"persist"}) => committed = HeightOf[job.tip]

(* The checkpoint lags behind only between an execution and its end.       *)
CheckpointIsClose ==
    Up => IF (job.kind = "live" /\ job.stage = "execute") \/ Commits({"persist"})
          THEN saved.height <= committed
          ELSE saved.height = committed

(* The log with an intent and nothing else.                                *)
Opening(h) == LogCommitIntent(<<>>, h)

(* The intent is in the log from before the execution until the end.       *)
LogIsOpen ==
    /\ Up /\ (job.stage \in {"none", "intent"} \/ job.kind = "view") => wal = <<>>
    /\ Commits({"walk", "execute", "persist", "done"}) => wal = Opening(HeightOf[job.tip])

(* What has been executed is in memory while the node is up, and published *)
(* while it runs; when it is down, it is in the checkpoint, or an intent   *)
(* is open above the checkpoint.                                           *)
ExecutionsAreKnown ==
    /\ Up => Len(app) = committed
    /\ phase = "running" => status.height = committed
    /\ phase = "down" => \/ Len(app) = saved.height
                         \/ \E h \in Heights : h > saved.height /\ wal = Opening(h)

(* Height h, and all below it, is safe in the store and on the disk.       *)
Secure(h) ==
    Covered(store, h) /\ Covered(disk, h) /\ Pinned(store, h) /\ Pinned(disk, h)

StoreIsSafe ==
    /\ Secure(saved.height)
    /\ Commits({"persist"}) => Secure(committed)
    /\ job.kind = "sync" /\ job.stage \in {"intent", "execute"} =>
           Pinned(store, committed + 1) /\ Pinned(disk, committed + 1)

NodeInv ==
    /\ Types /\ JobsFitPhase /\ TipsAreCommitted /\ CheckpointIsClose /\ LogIsOpen
    /\ ExecutionsAreKnown /\ StoreIsSafe /\ ExecutedIsCommitted

LEMMA EpochTypes ==
    /\ NoEpoch \in Epoch /\ GenesisEpochs \in EpochTriples
    /\ \A e \in EpochTriples, b \in Block :
           /\ ActivateAt(e, b) \in EpochTriples /\ AfterExecution(e, b) \in EpochTriples
           /\ ContextEpoch(e, b) \in Epoch
    /\ \A e \in EpochTriples, v \in Nat : EnterView(e, v) \in EpochTriples
<1>1. NoEpoch \in Epoch /\ GenesisEpoch \in Epoch /\ GenesisEpochs \in EpochTriples
  BY BlockFacts DEF NoEpoch, GenesisEpoch, GenesisEpochs, Epoch, EpochTriples
<1>2. ASSUME NEW e \in EpochTriples, NEW b \in Block
      PROVE  /\ ActivateAt(e, b) \in EpochTriples /\ AfterExecution(e, b) \in EpochTriples
             /\ ContextEpoch(e, b) \in Epoch
  <2>1. e.cur \in Epoch /\ e.prev \in Epoch /\ e.pend \in Epoch
    BY DEF EpochTriples
  <2>2. ChainedPendingEpoch(e.cur, e.pend, b) \in Epoch
    BY <2>1, BlockAssumption DEF ChainedPendingEpoch, Epoch
  <2> HIDE DEF Epoch
  <2>3. ActivateAt(e, b) \in EpochTriples
    BY <1>1, <2>1 DEF ActivateAt, EpochTriples
  <2>4. AfterExecution(e, b) \in EpochTriples
    BY <2>2 DEF AfterExecution, EpochTriples
  <2> QED BY <2>1, <2>3, <2>4 DEF ContextEpoch
<1>3. ASSUME NEW e \in EpochTriples, NEW v \in Nat PROVE EnterView(e, v) \in EpochTriples
  BY <1>1 DEF EnterView, EpochTriples
<1> QED BY <1>1, <1>2, <1>3

(* Such a log keeps a node with a lower checkpoint from starting.          *)
LEMMA OpenIntent ==
    ASSUME NEW n \in Nat, NEW h \in Nat
    PROVE  NeedsReplay(Opening(h), n) <=> n < h
<1> DEFINE w == Opening(h)
           Entries == [kind : {"intent"}, height : Nat]
<1>1. w \in Seq(Entries) /\ Len(w) = 1 /\ w[1] = Intent(h)
  <2>1. <<>> \in Seq(Entries) /\ Len(<<>>) = 0 /\ Intent(h) \in Entries
    BY DEF Intent
  <2> HIDE DEF Entries
  <2> QED BY <2>1 DEF Opening, LogCommitIntent
<1> HIDE DEF w
<1>2. w # <<>> /\ w[Len(w)] = Intent(h)
  BY <1>1, SMTT(30)
<1>3. Complete(w) = w
  BY <1>1, <1>2 DEF Complete, Intent
<1>4. NeedsReplay(w, n) <=> n < h
  BY <1>2, <1>3 DEF NeedsReplay, Intent
<1> QED BY <1>4 DEF w

LEMMA AtRest ==
    /\ Idle \in Jobs /\ WatchOff \in Watches
    /\ Idle.kind = "idle" /\ Idle.stage = "none" /\ Idle.tip = Genesis
    /\ WatchOff.stage = "off"
BY EpochTypes, BlockFacts, ChainFacts DEF Idle, WatchOff, Jobs, Watches

(* A later store has what an earlier one had.                              *)
LEMMA SafetyIsKept ==
    ASSUME NEW s, NEW t, Succeeds(t, s), NEW n \in 0..FinalHeight
    PROVE  (Covered(s, n) => Covered(t, n)) /\ (Pinned(s, n) => Pinned(t, n))
<1>1. 1..n \subseteq Heights
  BY ChainFacts DEF Heights
<1> QED BY <1>1 DEF Covered, Succeeds

LEMMA JobChange ==
    ASSUME NEW j \in Jobs,
           NEW x \in {"none", "intent", "walk", "execute", "persist", "done", "truncate"}
    PROVE  /\ [j EXCEPT !.stage = x] \in Jobs
           /\ [j EXCEPT !.stage = x].kind = j.kind /\ [j EXCEPT !.stage = x].stage = x
           /\ [j EXCEPT !.stage = x].tip = j.tip /\ [j EXCEPT !.stage = x].from = j.from
BY DEF Jobs

(* What the node is doing, with its log and its checkpoint.                *)
LEMMA JobFacts ==
    ASSUME NodeInv
    PROVE  /\ job.stage = "intent" => Up /\ job.kind \in {"live", "sync"} /\ wal = <<>>
           /\ job.stage \in {"done", "truncate", "walk", "execute"} =>
                  Up /\ job.kind \in {"live", "sync"}
           /\ job.stage = "persist" => Up /\ job.kind \in {"live", "sync", "view"}
           /\ job.stage = "none" <=> job = Idle
           /\ job = Idle <=> job.kind = "idle"
           /\ Up /\ ~(job.kind = "live" /\ job.stage = "execute") /\ ~Commits({"persist"}) =>
                  saved.height = committed /\ Secure(committed)
           /\ HeightOf[job.tip] \in Nat /\ job.tip \in Block
           /\ Secure(saved.height)
BY AtRest, BlockFacts DEF NodeInv, Types, JobsFitPhase, Up, LogIsOpen, CheckpointIsClose,
    StoreIsSafe, Commits, Jobs

-----------------------------------------------------------------------------
(* The steps of a commit.                                                  *)

LEMMA LogIntentStep == ASSUME NodeInv, LogIntent PROVE NodeInv'
<1> USE DEF NodeInv, Types
<1> DEFINE x == IF job.kind = "live" THEN "walk" ELSE "execute"
<1>0. /\ job' \in Jobs /\ job'.kind = job.kind /\ job'.tip = job.tip /\ job'.stage = x
      /\ job.stage = "intent" /\ Up /\ job.kind \in {"live", "sync"}
      /\ job' # Idle
      /\ wal' = Opening(HeightOf[job.tip])
      /\ UNCHANGED <<phase, view, committed, epochs, status, watch, store, disk, saved, app, crashes, early, torn>>
  <2>1. job.stage = "intent" /\ Up /\ job.kind \in {"live", "sync"} /\ wal = <<>>
    BY JobFacts DEF LogIntent
  <2>2. x \in {"walk", "execute"} /\ job' = [job EXCEPT !.stage = x]
    BY DEF LogIntent
  <2>3. wal' = Opening(HeightOf[job.tip])
    BY <2>1 DEF LogIntent, Opening
  <2> HIDE DEF x
  <2>4. job' \in Jobs /\ job'.kind = job.kind /\ job'.tip = job.tip /\ job'.stage = x
    BY <2>2 DEF Jobs
  <2> QED BY <2>1, <2>3, <2>4, AtRest DEF LogIntent, memory, history
<1>1. Types'
  BY <1>0
<1>2. JobsFitPhase'
  BY <1>0 DEF JobsFitPhase, Up
<1>3. TipsAreCommitted'
  BY <1>0 DEF TipsAreCommitted, Commits
<1>4. CheckpointIsClose'
  BY <1>0 DEF CheckpointIsClose, Commits, Up
<1>5. LogIsOpen'
  BY <1>0 DEF LogIsOpen, Commits, Up
<1>6. ExecutionsAreKnown'
  BY <1>0 DEF ExecutionsAreKnown, Up
<1>7. StoreIsSafe'
  BY <1>0 DEF StoreIsSafe, Secure, Commits
<1>8. ExecutedIsCommitted'
  BY <1>0 DEF ExecutedIsCommitted
<1> QED BY <1>1, <1>2, <1>3, <1>4, <1>5, <1>6, <1>7, <1>8

LEMMA TryCommitStep == ASSUME NodeInv, TryCommit PROVE NodeInv'
<1> USE DEF NodeInv, Types
<1> DEFINE x == IF BranchIsWhole(job.tip) THEN "execute" ELSE "done"
           t == HeightOf[job.tip]
<1>0. /\ job' \in Jobs /\ job'.kind = "live" /\ job'.tip = job.tip /\ job'.stage = x
      /\ x = "execute" => job'.from = committed
      /\ job.stage = "walk" /\ job.kind = "live" /\ Up
      /\ job' # Idle
      /\ UNCHANGED <<phase, view, committed, epochs, status, watch, store, disk, saved, app, wal,
                     crashes, early, torn>>
  <2>1. /\ job' \in Jobs /\ job'.kind = "live" /\ job'.tip = job.tip /\ job'.stage = x
        /\ x = "execute" => job'.from = committed
    <3> DEFINE j == [job EXCEPT !.stage = "execute", !.from = committed, !.e = epochs]
    <3>1. j \in Jobs
      BY ChainFacts DEF Jobs
    <3>2. j.kind = job.kind /\ j.tip = job.tip /\ j.stage = "execute" /\ j.from = committed
      BY DEF Jobs
    <3>3. CASE BranchIsWhole(job.tip)
      <4>1. job' = j /\ x = "execute" /\ job.kind = "live"
        BY <3>3 DEF TryCommit
      <4> HIDE DEF j
      <4> QED BY <3>1, <3>2, <4>1
    <3>4. CASE ~BranchIsWhole(job.tip)
      <4>1. job' = [job EXCEPT !.stage = "done"] /\ x = "done" /\ job.kind = "live"
        BY <3>4 DEF TryCommit
      <4> HIDE DEF x
      <4> QED BY <4>1 DEF Jobs
    <3> QED BY <3>3, <3>4
  <2> QED BY <2>1, JobFacts, AtRest DEF TryCommit, memory, history
<1>1. Types'
  BY <1>0
<1>2. JobsFitPhase'
  BY <1>0 DEF JobsFitPhase, Up
<1>3. TipsAreCommitted'
  <2>1. t \in 1..FinalHeight /\ job.tip = Chain[t] /\ saved.height = committed
    BY <1>0 DEF TipsAreCommitted, CheckpointIsClose, Commits
  <2>2. ASSUME BranchIsWhole(job.tip)
        PROVE  committed < t /\ \A h \in 1..t : Chain[h] \in store.blocks
    <3>1. committed < t /\ committed \in Nat /\ t \in Nat
      BY <2>1, <2>2, ChainFacts DEF BranchIsWhole
    <3>2. \A h \in 0..t : AncestorAt[job.tip][h] = Chain[h]
      BY <2>1, ChainFacts, SMTT(30)
    <3>3. \A h \in committed..t : AncestorAt[job.tip][h] \in store.blocks
      BY <2>2 DEF BranchIsWhole
    <3>4. \A h \in 1..committed : Chain[h] \in store.blocks
      BY <2>1 DEF StoreIsSafe, Secure, Covered
    <3>5. ASSUME NEW h \in 1..t PROVE Chain[h] \in store.blocks
      <4>1. CASE h <= committed
        BY <3>1, <3>4, <4>1
      <4>2. CASE h > committed
        <5>1. h \in committed..t /\ h \in 0..t
          BY <3>1, <4>2
        <5> QED BY <3>2, <3>3, <5>1
      <4> QED BY <3>1, <4>1, <4>2
    <3> QED BY <3>1, <3>5
  <2>3. x = "execute" => BranchIsWhole(job.tip)
    OBVIOUS
  <2>4. x \in {"execute", "done"} /\ committed \in Nat /\ t \in Nat
    BY <2>1, ChainFacts
  <2> HIDE DEF x
  <2> QED BY <1>0, <2>1, <2>2, <2>3, <2>4 DEF TipsAreCommitted, Commits
<1>4. CheckpointIsClose'
  BY <1>0, ChainFacts DEF CheckpointIsClose, Commits, Up
<1>5. LogIsOpen'
  BY <1>0 DEF LogIsOpen, Commits, Up
<1>6. ExecutionsAreKnown'
  BY <1>0 DEF ExecutionsAreKnown, Up
<1>7. StoreIsSafe'
  BY <1>0 DEF StoreIsSafe, Secure, Commits
<1>8. ExecutedIsCommitted'
  BY <1>0 DEF ExecutedIsCommitted
<1> QED BY <1>1, <1>2, <1>3, <1>4, <1>5, <1>6, <1>7, <1>8

LEMMA PersistStateStep == ASSUME NodeInv, PersistState PROVE NodeInv'
<1> USE DEF NodeInv, Types
<1>0. /\ job.stage = "persist" /\ Up /\ job.kind \in {"live", "sync", "view"}
      /\ job' \in Jobs
      /\ job.kind = "view" => job' = Idle
      /\ job.kind # "view" => job'.kind = job.kind /\ job'.tip = job.tip /\ job'.stage = "done"
      /\ saved' = [view |-> view, height |-> committed, e |-> epochs] /\ disk' = store
      /\ UNCHANGED <<phase, view, committed, epochs, status, watch, store, app, wal, crashes, early, torn>>
  <2>1. saved' = [view |-> view, height |-> committed, e |-> epochs]
    BY DEF PersistState, SavedUpTo, Fields, EpochTriples
  <2> QED BY <2>1, JobFacts, JobChange, AtRest DEF PersistState, memory, history
<1>1. Types'
  <2>1. saved' \in [view : Nat, height : 0..FinalHeight, e : EpochTriples]
    BY <1>0
  <2> QED BY <1>0, <2>1
<1>2. JobsFitPhase'
  BY <1>0, AtRest DEF JobsFitPhase, Up
<1>3. TipsAreCommitted'
  BY <1>0, AtRest DEF TipsAreCommitted, Commits
<1>4. CheckpointIsClose'
  BY <1>0, ChainFacts, AtRest DEF CheckpointIsClose, Commits, Up
<1>5. LogIsOpen'
  BY <1>0, AtRest DEF LogIsOpen, Commits, Up
<1>6. ExecutionsAreKnown'
  BY <1>0 DEF ExecutionsAreKnown, Up
<1>7. StoreIsSafe'
  <2>1. Secure(committed)
    <3>1. CASE job.kind = "view"
      BY <1>0, <3>1, JobFacts DEF Commits
    <3>2. CASE job.kind # "view"
      BY <1>0, <3>2 DEF StoreIsSafe, Commits
    <3> QED BY <3>1, <3>2
  <2>2. Covered(store, committed) /\ Pinned(store, committed)
    BY <2>1 DEF Secure
  <2> QED BY <1>0, <2>2, AtRest DEF StoreIsSafe, Secure, Commits, Covered, Pinned
<1>8. ExecutedIsCommitted'
  BY <1>0 DEF ExecutedIsCommitted
<1> QED BY <1>1, <1>2, <1>3, <1>4, <1>5, <1>6, <1>7, <1>8

LEMMA LogCommitDoneStep == ASSUME NodeInv, LogCommitDone PROVE NodeInv'
<1> USE DEF NodeInv, Types
<1>0. /\ job.stage = "done" /\ Up /\ job.kind \in {"live", "sync"}
      /\ job' \in Jobs /\ job'.kind = job.kind /\ job'.tip = job.tip /\ job'.stage = "truncate"
      /\ job' # Idle
      /\ UNCHANGED <<phase, view, committed, epochs, status, watch, store, disk, saved, app, crashes, early, torn>>
  BY JobFacts, JobChange, AtRest DEF LogCommitDone, memory, history
<1>1. Types'
  BY <1>0
<1>2. JobsFitPhase'
  BY <1>0 DEF JobsFitPhase, Up
<1>3. TipsAreCommitted'
  BY <1>0 DEF TipsAreCommitted, Commits
<1>4. CheckpointIsClose'
  BY <1>0 DEF CheckpointIsClose, Commits, Up
<1>5. LogIsOpen'
  BY <1>0 DEF LogIsOpen, Commits, Up
<1>6. ExecutionsAreKnown'
  BY <1>0 DEF ExecutionsAreKnown, Up
<1>7. StoreIsSafe'
  BY <1>0 DEF StoreIsSafe, Secure, Commits
<1>8. ExecutedIsCommitted'
  BY <1>0 DEF ExecutedIsCommitted
<1> QED BY <1>1, <1>2, <1>3, <1>4, <1>5, <1>6, <1>7, <1>8

LEMMA TruncateWalStep == ASSUME NodeInv, TruncateWal PROVE NodeInv'
<1> USE DEF NodeInv, Types
<1>0. /\ job.stage = "truncate" /\ Up /\ job.kind \in {"live", "sync"}
      /\ job' = Idle /\ wal' = <<>>
      /\ UNCHANGED <<phase, view, committed, epochs, status, watch, store, disk, saved, app, crashes, early, torn>>
  BY JobFacts DEF TruncateWal, Truncate, memory, history
<1>1. Types'
  BY <1>0, AtRest
<1>2. JobsFitPhase'
  BY <1>0, AtRest DEF JobsFitPhase, Up
<1>3. TipsAreCommitted'
  BY <1>0, AtRest DEF TipsAreCommitted, Commits
<1>4. CheckpointIsClose'
  BY <1>0, AtRest DEF CheckpointIsClose, Commits, Up
<1>5. LogIsOpen'
  BY <1>0, AtRest DEF LogIsOpen, Commits, Up
<1>6. ExecutionsAreKnown'
  BY <1>0 DEF ExecutionsAreKnown, Up
<1>7. StoreIsSafe'
  BY <1>0, AtRest DEF StoreIsSafe, Secure, Commits
<1>8. ExecutedIsCommitted'
  BY <1>0 DEF ExecutedIsCommitted
<1> QED BY <1>1, <1>2, <1>3, <1>4, <1>5, <1>6, <1>7, <1>8

LEMMA AdvanceViewToStep ==
    ASSUME NodeInv, NEW v \in 1..MaxView, AdvanceViewTo(v)
    PROVE  NodeInv'
<1> USE DEF NodeInv, Types
<1>0. /\ job = Idle /\ phase = "running" /\ Up
      /\ job' \in Jobs /\ job'.kind = "view" /\ job'.stage = "persist" /\ job' # Idle
      /\ view' \in Nat /\ epochs' \in EpochTriples /\ early' \in BOOLEAN
      /\ UNCHANGED <<phase, committed, status, watch, store, disk, saved, app, wal, crashes, torn>>
  <2>1. job' \in Jobs /\ job'.kind = "view" /\ job'.stage = "persist"
    BY AtRest DEF AdvanceViewTo, Jobs
  <2>2. view' \in Nat /\ epochs' \in EpochTriples
    <3>1. v \in Nat
      BY NodeAssumption
    <3> QED BY <3>1, EpochTypes DEF AdvanceViewTo
  <2> QED BY <2>1, <2>2, AtRest DEF AdvanceViewTo, Free, Up
<1>1. Types'
  BY <1>0
<1>2. JobsFitPhase'
  BY <1>0 DEF JobsFitPhase, Up
<1>3. TipsAreCommitted'
  BY <1>0 DEF TipsAreCommitted, Commits
<1>4. CheckpointIsClose'
  BY <1>0, AtRest DEF CheckpointIsClose, Commits, Up
<1>5. LogIsOpen'
  BY <1>0, AtRest DEF LogIsOpen, Commits, Up
<1>6. ExecutionsAreKnown'
  BY <1>0 DEF ExecutionsAreKnown, Up
<1>7. StoreIsSafe'
  BY <1>0 DEF StoreIsSafe, Secure, Commits
<1>8. ExecutedIsCommitted'
  BY <1>0 DEF ExecutedIsCommitted
<1> QED BY <1>1, <1>2, <1>3, <1>4, <1>5, <1>6, <1>7, <1>8

LEMMA ApplyCommitStep ==
    ASSUME NodeInv, NEW b \in Block \ {Genesis}, ApplyCommit(b)
    PROVE  NodeInv'
<1> USE DEF NodeInv, Types
<1>0. /\ job = Idle /\ phase = "running" /\ Up
      /\ job' \in Jobs /\ job'.kind = "live" /\ job'.stage = "intent" /\ job'.tip = b /\ job' # Idle
      /\ HeightOf[b] \in 1..FinalHeight /\ b = Chain[HeightOf[b]]
      /\ UNCHANGED <<phase, view, committed, epochs, status, watch, store, disk, saved, app, wal,
                     crashes, early, torn>>
  <2>1. PICK h \in 1..FinalHeight : b = Chain[h]
    BY DEF ApplyCommit
  <2>2. HeightOf[b] = h
    BY <2>1, ChainFacts
  <2>3. job' \in Jobs /\ job'.kind = "live" /\ job'.stage = "intent" /\ job'.tip = b
    BY AtRest DEF ApplyCommit, Jobs
  <2> QED BY <2>1, <2>2, <2>3, AtRest DEF ApplyCommit, Free, Up, memory, history
<1>1. Types'
  BY <1>0
<1>2. JobsFitPhase'
  BY <1>0 DEF JobsFitPhase, Up
<1>3. TipsAreCommitted'
  BY <1>0 DEF TipsAreCommitted, Commits
<1>4. CheckpointIsClose'
  BY <1>0, AtRest DEF CheckpointIsClose, Commits, Up
<1>5. LogIsOpen'
  BY <1>0, AtRest DEF LogIsOpen, Commits, Up
<1>6. ExecutionsAreKnown'
  BY <1>0 DEF ExecutionsAreKnown, Up
<1>7. StoreIsSafe'
  BY <1>0 DEF StoreIsSafe, Secure, Commits
<1>8. ExecutedIsCommitted'
  BY <1>0 DEF ExecutedIsCommitted
<1> QED BY <1>1, <1>2, <1>3, <1>4, <1>5, <1>6, <1>7, <1>8

-----------------------------------------------------------------------------
(* Proposals and the watcher, which change the store beside the commits.   *)

LEMMA StoreGrows ==
    ASSUME NodeInv, Succeeds(store', store), disk' = disk \/ disk' = store',
           watch' \in Watches, watch'.stage \in {"results", "write"} => watch'.height < FinalHeight,
           phase # "running" => watch' = watch,
           UNCHANGED <<phase, view, committed, epochs, job, status, saved, wal, app, crashes,
                       early, torn>>
    PROVE  NodeInv'
<1> USE DEF NodeInv, Types
<1>0. /\ GoodStore(store') /\ GoodStore(disk') /\ store.blocks \subseteq store'.blocks
      /\ \A n \in 0..FinalHeight : Covered(store, n) => Covered(store', n)
      /\ \A n \in 0..FinalHeight : Pinned(store, n) => Pinned(store', n)
  <2>1. \A n \in 0..FinalHeight :
            (Covered(store, n) => Covered(store', n)) /\ (Pinned(store, n) => Pinned(store', n))
    BY SafetyIsKept
  <2> QED BY <2>1 DEF Succeeds
<1>1. Types'
  BY <1>0
<1>2. JobsFitPhase'
  BY DEF JobsFitPhase, Up
<1>3. TipsAreCommitted'
  BY <1>0 DEF TipsAreCommitted, Commits
<1>4. CheckpointIsClose'
  BY DEF CheckpointIsClose, Commits, Up
<1>5. LogIsOpen'
  BY DEF LogIsOpen, Commits, Up
<1>6. ExecutionsAreKnown'
  BY DEF ExecutionsAreKnown, Up
<1>7. StoreIsSafe'
  <2>1. ASSUME NEW n \in 0..FinalHeight, Secure(n) PROVE Secure(n)'
    <3>1. Covered(store', n) /\ Pinned(store', n) /\ Covered(disk', n) /\ Pinned(disk', n)
      BY <1>0, <2>1 DEF Secure
    <3> QED BY <3>1 DEF Secure, Covered, Pinned
  <2>2. Secure(saved.height)'
    BY <2>1 DEF StoreIsSafe
  <2>3. Commits({"persist"}) => Secure(committed)'
    BY <2>1 DEF StoreIsSafe
  <2>4. job.kind = "sync" /\ job.stage \in {"intent", "execute"} =>
            Pinned(store', committed + 1) /\ Pinned(disk', committed + 1)
    BY <1>0 DEF StoreIsSafe, TipsAreCommitted
  <2> QED BY <2>2, <2>3, <2>4 DEF StoreIsSafe, Commits, Secure
<1>8. ExecutedIsCommitted'
  BY DEF ExecutedIsCommitted
<1> QED BY <1>1, <1>2, <1>3, <1>4, <1>5, <1>6, <1>7, <1>8

LEMMA PastProposalStep ==
    ASSUME NodeInv, NEW b \in Block \ {Genesis}, NEW anc \in BOOLEAN, PastProposal(b, anc)
    PROVE  NodeInv'
<1> DEFINE s == IF anc THEN WithAncestors(store, b) ELSE store
           t == IF HeightOf[b] > committed THEN PutBlock(s, b) ELSE s
<1>0. GoodStore(store) /\ committed \in Nat /\ watch \in Watches
  BY ChainFacts DEF NodeInv, Types
<1>1. Succeeds(s, store)
  BY <1>0, WithAncestorsSucceeds, SucceedsItself
<1> HIDE DEF s
<1>2. Succeeds(PutBlock(s, b), s) /\ Succeeds(s, s)
  BY <1>1, PutBlockSucceeds, SucceedsItself DEF Succeeds
<1>3. Succeeds(t, store)
  BY <1>1, <1>2, SuccessionIsTransitive
<1>4. store' = t
  BY DEF PastProposal, s
<1>5. watch.stage \in {"results", "write"} => watch.height < FinalHeight
  BY DEF NodeInv, JobsFitPhase
<1> HIDE DEF t
<1> QED BY <1>0, <1>3, <1>4, <1>5, StoreGrows DEF PastProposal, memory, history

LEMMA CurrentProposalStep ==
    ASSUME NodeInv, NEW b \in Block \ {Genesis}, NEW anc \in BOOLEAN, NEW acc \in BOOLEAN,
           CurrentProposal(b, anc, acc)
    PROVE  NodeInv'
<1> DEFINE r == IF anc THEN WithAncestors(store, b) ELSE store
           s == KeepJustify(r, b)
           t == IF acc /\ Parent[b] \in s.blocks THEN PutBlock(s, b) ELSE s
<1>0. GoodStore(store) /\ committed \in Nat /\ watch \in Watches
  BY ChainFacts DEF NodeInv, Types
<1>1. Succeeds(r, store)
  BY <1>0, WithAncestorsSucceeds, SucceedsItself
<1> HIDE DEF r
<1>2. Succeeds(s, r)
  BY <1>1, KeepJustifySucceeds DEF Succeeds
<1> HIDE DEF s
<1>3. Succeeds(PutBlock(s, b), s) /\ Succeeds(s, s)
  BY <1>2, PutBlockSucceeds, SucceedsItself DEF Succeeds
<1>4. Succeeds(s, store)
  BY <1>1, <1>2, SuccessionIsTransitive
<1>5. Succeeds(t, store)
  BY <1>3, <1>4, SuccessionIsTransitive
<1>6. store' = t
  BY DEF CurrentProposal, r, s
<1>7. watch.stage \in {"results", "write"} => watch.height < FinalHeight
  BY DEF NodeInv, JobsFitPhase
<1> HIDE DEF t
<1> QED BY <1>0, <1>5, <1>6, <1>7, StoreGrows DEF CurrentProposal, memory, history

(* The committed block of a height, stored with its certificate.           *)
LEMMA CommittedBlockIsPinned ==
    ASSUME NEW s, GoodStore(s), NEW h \in 0..FinalHeight
    PROVE  LET t == PutCommitQC(PutBlock(s, Chain[h]), HeightOf[Chain[h]], Chain[h])
           IN  Succeeds(t, s) /\ Pinned(t, h)
<1> DEFINE b == Chain[h]
           u == PutBlock(s, b)
           t == PutCommitQC(u, h, b)
<1>1. b \in Block /\ HeightOf[b] = h
  BY ChainFacts
<1> HIDE DEF b
<1>2. Succeeds(u, s) /\ b \in u.blocks /\ GoodStore(u)
  BY <1>1, PutBlockSucceeds DEF Succeeds
<1>3. b = Chain[h]
  BY DEF b
<1> HIDE DEF u
<1>4. Succeeds(t, u) /\ Pinned(t, h)
  BY <1>1, <1>2, <1>3, PutCommitQCSucceeds
<1>5. Succeeds(t, s)
  BY <1>2, <1>4, SuccessionIsTransitive
<1> QED BY <1>1, <1>4, <1>5 DEF u, b

(* A block of the committed branch is the one of its height.              *)
LEMMA BranchBlock ==
    ASSUME NEW b \in Branch
    PROVE  HeightOf[b] \in 0..FinalHeight /\ b = Chain[HeightOf[b]] /\ b \in Block
<1>1. PICK h \in 0..FinalHeight : b = Chain[h]
  BY DEF Branch
<1> QED BY <1>1, ChainFacts

LEMMA WatchChange ==
    ASSUME NEW w \in Watches, NEW x \in {"off", "store", "results", "write"}
    PROVE  /\ [w EXCEPT !.stage = x] \in Watches
           /\ [w EXCEPT !.stage = x].stage = x /\ [w EXCEPT !.stage = x].height = w.height
           /\ w.height < FinalHeight =>
                  /\ [w EXCEPT !.stage = x, !.height = @ + 1] \in Watches
                  /\ [w EXCEPT !.stage = x, !.height = @ + 1].stage = x
<1>1. w.height \in 0..FinalHeight /\ FinalHeight \in Nat
  BY ChainFacts DEF Watches
<1>2. w.height < FinalHeight => w.height + 1 \in 0..FinalHeight
  BY <1>1
<1> HIDE DEF FinalHeight
<1> QED BY <1>2 DEF Watches

LEMMA WatcherStep ==
    ASSUME NodeInv,
           \/ WatchStart \/ WatchLook \/ WatchWrite \/ WatchEnd
           \/ \E b \in Branch : WatchStore(b)
    PROVE  NodeInv'
<1>0. /\ GoodStore(store) /\ watch \in Watches /\ committed \in 0..FinalHeight
      /\ watch.stage \in {"results", "write"} => watch.height < FinalHeight
      /\ watch.height \in 0..FinalHeight /\ FinalHeight \in Nat
      /\ phase # "running" => watch = WatchOff
      /\ status \in Statuses /\ Succeeds(store, store)
  BY ChainFacts, SucceedsItself DEF NodeInv, Types, JobsFitPhase, Up, Watches
<1>1. ASSUME watch.stage # "off" PROVE phase = "running"
  BY <1>0, <1>1, AtRest
<1>2. CASE WatchStart
  <2>2. watch' \in Watches /\ watch'.stage = "store"
    BY <1>0, <1>2 DEF WatchStart, Watches, Statuses
  <2> QED BY <1>0, <1>2, <2>2, StoreGrows DEF WatchStart, memory, history
<1>3. ASSUME NEW b \in Branch, WatchStore(b) PROVE NodeInv'
  <2> DEFINE h == watch.height + 1
  <2>0. HeightOf[b] = h /\ HeightOf[b] \in 0..FinalHeight /\ b = Chain[HeightOf[b]]
    BY <1>3, BranchBlock DEF WatchStore, Offered
  <2>1. h \in 0..FinalHeight /\ watch.height < FinalHeight /\ b = Chain[h]
    BY <1>0, <2>0
  <2>2. store' = PutCommitQC(PutBlock(store, Chain[h]), HeightOf[Chain[h]], Chain[h]) /\ disk' = store'
    BY <1>3, <2>1 DEF WatchStore
  <2>3. watch' \in Watches /\ watch'.height < FinalHeight
    BY <1>0, <1>3, <2>1, WatchChange, Zenon DEF WatchStore
  <2> HIDE DEF h
  <2>4. Succeeds(store', store)
    BY <1>0, <2>1, <2>2, CommittedBlockIsPinned
  <2>5. phase = "running"
    BY <1>1, <1>3 DEF WatchStore
  <2> QED BY <1>3, <2>2, <2>3, <2>4, <2>5, StoreGrows DEF WatchStore, memory, history
<1>4. CASE WatchLook
  <2>1. watch' \in Watches /\ (watch'.stage \in {"results", "write"} => watch'.height < FinalHeight)
    <3>1. watch.height < FinalHeight
      BY <1>0, <1>4 DEF WatchLook
    <3>2. CASE store.results[watch.height + 1] = "none"
      BY <1>0, <1>4, <3>1, <3>2, WatchChange, Zenon DEF WatchLook
    <3>3. CASE store.results[watch.height + 1] # "none"
      BY <1>0, <1>4, <3>1, <3>3, WatchChange, Zenon DEF WatchLook
    <3> QED BY <3>2, <3>3
  <2>2. phase = "running"
    BY <1>1, <1>4 DEF WatchLook
  <2> QED BY <1>0, <1>4, <2>1, <2>2, StoreGrows DEF WatchLook, memory, history
<1>5. CASE WatchWrite
  <2> DEFINE h == watch.height + 1
  <2>1. watch.height < FinalHeight /\ h \in Heights
    BY <1>0, <1>5, ChainFacts DEF WatchWrite, Heights
  <2>2. Succeeds(store', store)
    <3>1. store' = PutBlockResults(store, h, "default")
      BY <1>5 DEF WatchWrite
    <3> HIDE DEF h
    <3> QED BY <1>0, <2>1, <3>1, PutBlockResultsSucceeds
  <2>3. watch' \in Watches /\ watch'.stage = "store"
    BY <1>0, <1>5, <2>1, WatchChange, Zenon DEF WatchWrite
  <2>4. phase = "running"
    BY <1>1, <1>5 DEF WatchWrite
  <2> QED BY <1>5, <2>2, <2>3, <2>4, StoreGrows DEF WatchWrite, memory, history
<1>6. CASE WatchEnd
  <2>1. watch' \in Watches /\ watch'.stage = "off" /\ phase = "running"
    BY <1>1, <1>6, AtRest DEF WatchEnd
  <2> QED BY <1>0, <1>6, <2>1, StoreGrows DEF WatchEnd, memory, history
<1> QED BY <1>2, <1>3, <1>4, <1>5, <1>6

-----------------------------------------------------------------------------
(* Executions.                                                             *)

LEMMA ExecutionAppends ==
    ASSUME app \in Seq(Executions), NEW b \in Block, NEW e \in Epoch, NEW n \in {0, 1}
    PROVE  /\ Execution(b, e, n) \in Seq(Executions)
           /\ Len(Execution(b, e, n)) = Len(app) + n
           /\ \A i \in 1..Len(app) : Execution(b, e, n)[i] = app[i]
           /\ n = 1 => /\ Execution(b, e, n)[Len(app) + 1].block = b
                       /\ Execution(b, e, n)[Len(app) + 1].epoch = e.number
<1> DEFINE x == [block |-> b, epoch |-> e.number]
           y == [i \in 1..n |-> x]
<1>1. x \in Executions /\ x.block = b /\ x.epoch = e.number
  BY DEF Executions, Epoch
<1> HIDE DEF x
<1>2. y \in Seq(Executions) /\ Len(y) = n /\ (n = 1 => y[1] = x)
  <2>1. n \in Nat /\ y \in [1..n -> Executions]
    BY <1>1
  <2> QED BY <2>1
<1> HIDE DEF y
<1>3. Execution(b, e, n) = app \o y
  BY DEF Execution, x, y
<1> QED BY <1>1, <1>2, <1>3

(* The application executes the block that follows on what it has executed. *)
LEMMA AppExtendsChain ==
    ASSUME NodeInv, NEW e \in Epoch, NEW n \in {0, 1}, Len(app) < FinalHeight,
           NEW b, b = Chain[Len(app) + 1], app' = Execution(b, e, n)
    PROVE  /\ app' \in Seq(Executions) /\ Len(app') = Len(app) + n /\ ExecutedIsCommitted'
<1>1. app \in Seq(Executions) /\ Len(app) \in Nat /\ FinalHeight \in Nat
  BY ChainFacts DEF NodeInv, Types
<1>2. b \in Block
  BY <1>1, ChainFacts
<1>3. /\ app' \in Seq(Executions) /\ Len(app') = Len(app) + n
      /\ \A i \in 1..Len(app) : app'[i] = app[i]
      /\ n = 1 => app'[Len(app) + 1].block = b
  BY <1>1, <1>2, ExecutionAppends
<1>4. \A i \in 1..Len(app) : app[i].block = Chain[i]
  BY DEF NodeInv, ExecutedIsCommitted
<1>5. ASSUME NEW i \in 1..Len(app') PROVE app'[i].block = Chain[i]
  <2>1. CASE i <= Len(app)
    BY <1>1, <1>3, <1>4, <2>1
  <2>2. CASE i > Len(app)
    <3>1. n = 1 /\ i = Len(app) + 1
      BY <1>1, <1>3, <2>2
    <3> QED BY <1>3, <3>1
  <2> QED BY <1>1, <2>1, <2>2
<1>6. Len(app') <= FinalHeight
  BY <1>1, <1>3
<1> QED BY <1>3, <1>5, <1>6 DEF ExecutedIsCommitted

LEMMA ExecuteLiveStep == ASSUME NodeInv, ExecuteLive PROVE NodeInv'
<1> USE DEF NodeInv, Types
<1> DEFINE t == HeightOf[job.tip]
           b == AncestorAt[job.tip][committed + 1]
           e == ActivateAt(job.e, b)
<1>1. /\ job.kind = "live" /\ job.stage = "execute" /\ committed < t /\ committed' = committed + 1
      /\ UNCHANGED <<phase, view, epochs, watch, store, disk, saved, wal, crashes, early, torn>>
  BY DEF ExecuteLive, ExecuteNext, history
<1>2. /\ t \in 1..FinalHeight /\ job.tip = Chain[t] /\ saved.height < t /\ saved.height <= committed
      /\ \A h \in 1..t : Chain[h] \in store.blocks
      /\ job.from = saved.height
      /\ committed \in Nat /\ t \in Nat /\ FinalHeight \in Nat /\ saved.height \in Nat /\ Up
      /\ Len(app) = committed
  BY <1>1, ChainFacts, JobFacts DEF TipsAreCommitted, CheckpointIsClose, ExecutionsAreKnown
<1>3. b = Chain[committed + 1] /\ b \in Block /\ committed + 1 \in 1..FinalHeight
  BY <1>1, <1>2, ChainFacts, SMTT(30)
<1> HIDE DEF b, t
<1>4. e \in EpochTriples /\ job.e \in EpochTriples
  BY <1>3, EpochTypes DEF Jobs
<1>5. PICK o \in CallOutcomes("execute_block") :
          /\ o.answer = "given" /\ app' = Execution(b, ContextEpoch(e, b), o.applied)
          /\ job' = [job EXCEPT !.e = AfterExecution(e, b), !.act = @ \/ e # job.e]
  BY DEF ExecuteLive, ExecuteNext, b
<1>6. app' = Execution(b, ContextEpoch(e, b), 1)
  BY <1>5, ExecutionOutcomes
<1>7. /\ job' \in Jobs /\ job'.kind = "live" /\ job'.stage = "execute" /\ job'.tip = job.tip
      /\ job'.from = job.from
  <2>1. AfterExecution(e, b) \in EpochTriples
    BY <1>3, <1>4, EpochTypes
  <2> HIDE DEF e
  <2> QED BY <1>1, <1>5, <2>1 DEF Jobs
<1>8. app' \in Seq(Executions) /\ Len(app') = committed + 1 /\ ExecutedIsCommitted'
  <2>1. ContextEpoch(e, b) \in Epoch
    BY <1>3, <1>4, EpochTypes
  <2>2. Len(app) < FinalHeight /\ b = Chain[Len(app) + 1]
    BY <1>2, <1>3
  <2> HIDE DEF e
  <2>3. app' \in Seq(Executions) /\ Len(app') = Len(app) + 1 /\ ExecutedIsCommitted'
    BY <1>6, <2>1, <2>2, AppExtendsChain
  <2> QED BY <1>2, <2>3
<1>16. status' \in Statuses /\ status'.height = committed + 1
  <2>1. status' = Published(HeightOf[b], ContextEpoch(e, b))
    BY DEF ExecuteLive, ExecuteNext, b
  <2>2. HeightOf[b] = committed + 1 /\ committed + 1 \in 0..FinalHeight
    BY <1>2, <1>3, ChainFacts
  <2>3. ContextEpoch(e, b) \in Epoch
    BY <1>3, <1>4, EpochTypes
  <2> HIDE DEF e
  <2>4. ContextEpoch(e, b).number \in Nat
    BY <2>3 DEF Epoch
  <2> QED BY <2>1, <2>2, <2>4 DEF Published, Statuses
<1> HIDE DEF e
<1>9. Types'
  BY <1>1, <1>3, <1>7, <1>8, <1>16
<1>10. JobsFitPhase'
  BY <1>1, <1>2, <1>7, AtRest DEF JobsFitPhase, Up
<1>11. TipsAreCommitted'
  BY <1>1, <1>2, <1>7 DEF TipsAreCommitted, Commits, t
<1>12. CheckpointIsClose'
  BY <1>1, <1>2, <1>7 DEF CheckpointIsClose, Commits, Up
<1>13. LogIsOpen'
  BY <1>1, <1>7 DEF LogIsOpen, Commits, Up
<1>14. ExecutionsAreKnown'
  BY <1>1, <1>2, <1>8, <1>16 DEF ExecutionsAreKnown, Up
<1>15. StoreIsSafe'
  BY <1>1, <1>7 DEF StoreIsSafe, Secure, Commits
<1> QED BY <1>8, <1>9, <1>10, <1>11, <1>12, <1>13, <1>14, <1>15

LEMMA ProcessCommitResultStep == ASSUME NodeInv, ProcessCommitResult PROVE NodeInv'
<1> USE DEF NodeInv, Types
<1> DEFINE t == HeightOf[job.tip]
           r == PutCommitQC(store, t, job.tip)
           u == WithResults(store)
<1>1. /\ job.kind = "live" /\ job.stage = "execute" /\ committed = t
      /\ epochs' = [cur |-> job.e.cur, prev |-> IF job.act THEN epochs.cur ELSE epochs.prev,
                    pend |-> job.e.pend]
      /\ store' = u /\ disk' = u /\ job' = [job EXCEPT !.stage = "persist"]
      /\ UNCHANGED <<phase, view, committed, status, watch, saved, wal, app, crashes, early, torn>>
  BY DEF ProcessCommitResult, history
<1>2. /\ t \in 1..FinalHeight /\ job.tip = Chain[t] /\ saved.height < t
      /\ job.from = saved.height
      /\ \A h \in 1..t : Chain[h] \in store.blocks
      /\ t \in Nat /\ FinalHeight \in Nat /\ saved.height \in Nat /\ Up /\ t \in Heights
      /\ Len(app) = committed /\ job.tip \in Block
  BY <1>1, ChainFacts, JobFacts DEF TipsAreCommitted, ExecutionsAreKnown
<1>3. job' \in Jobs /\ job'.kind = "live" /\ job'.stage = "persist" /\ job'.tip = job.tip
  BY <1>1, JobChange
<1>4. epochs' \in EpochTriples
  BY <1>1 DEF EpochTriples, Jobs
<1>5. Succeeds(r, store) /\ Pinned(r, t) /\ r.results = store.results
  <2>1. job.tip \in store.blocks /\ t \in 0..FinalHeight
    BY <1>2
  <2>2. t = HeightOf[job.tip]
    OBVIOUS
  <2> HIDE DEF t
  <2> QED BY <1>2, <2>1, <2>2, PutCommitQCSucceeds
<1>6. /\ u \in Stores /\ u.blocks = r.blocks /\ u.index = r.index /\ u.qcs = r.qcs
      /\ u.results = [h \in Heights |->
             IF h \in (saved.height + 1)..t THEN "real" ELSE store.results[h]]
  <2>1. r \in Stores
    BY <1>5 DEF Succeeds, GoodStore
  <2>2. u = [r EXCEPT !.results = [h \in Heights |->
                IF h \in (saved.height + 1)..t THEN "real" ELSE r.results[h]]]
    BY <1>1, <1>2 DEF WithResults
  <2> HIDE DEF u, r, t
  <2> QED BY <1>5, <2>1, <2>2 DEF Stores
<1>7. /\ \A h \in Heights : u.results[h] = IF h \in (saved.height + 1)..t THEN "real"
                                           ELSE store.results[h]
      /\ GoodStore(u) /\ Pinned(u, t) /\ store.blocks \subseteq u.blocks
      /\ \A h \in 0..FinalHeight : Pinned(store, h) => Pinned(u, h)
  <2> HIDE DEF u, r, t
  <2> QED BY <1>5, <1>6 DEF GoodStore, Pinned, Succeeds
<1>8. Covered(u, t) /\ Covered(u, saved.height)
  <2> SUFFICES ASSUME NEW h \in 1..t PROVE Chain[h] \in u.blocks /\ u.results[h] # "none"
    BY <1>2 DEF Covered
  <2>1. h \in Heights /\ Chain[h] \in u.blocks
    <3>1. h \in Nat /\ h \in 0..FinalHeight
      BY <1>2
    <3>2. h \in Heights
      BY <3>1, ChainFacts
    <3> HIDE DEF u
    <3> QED BY <1>2, <1>7, <3>2
  <2>2. CASE h <= saved.height
    <3>1. store.results[h] # "none"
      BY <1>2, <2>2 DEF StoreIsSafe, Secure, Covered
    <3>2. h \notin (saved.height + 1)..t
      BY <1>2, <2>2
    <3> QED BY <1>7, <2>1, <3>1, <3>2
  <2>3. CASE h > saved.height
    <3>1. h \in (saved.height + 1)..t
      BY <1>2, <2>3
    <3> QED BY <1>7, <2>1, <3>1
  <2> QED BY <1>2, <2>2, <2>3
<1>9. Pinned(u, saved.height)
  BY <1>7 DEF StoreIsSafe, Secure
<1> HIDE DEF u, r
<1>10. Types'
  BY <1>1, <1>2, <1>3, <1>4, <1>7
<1>11. JobsFitPhase'
  BY <1>1, <1>2, <1>3, AtRest DEF JobsFitPhase, Up
<1>12. TipsAreCommitted'
  BY <1>1, <1>2, <1>3 DEF TipsAreCommitted, Commits
<1>13. CheckpointIsClose'
  BY <1>1, <1>2, <1>3 DEF CheckpointIsClose, Commits, Up
<1>14. LogIsOpen'
  BY <1>1, <1>3 DEF LogIsOpen, Commits, Up
<1>15. ExecutionsAreKnown'
  BY <1>1, <1>2 DEF ExecutionsAreKnown, Up
<1>16. StoreIsSafe'
  <2> HIDE DEF t
  <2>1. Secure(committed)' /\ Secure(saved.height)'
    BY <1>1, <1>7, <1>8, <1>9 DEF Secure, Covered, Pinned
  <2> QED BY <1>1, <1>3, <2>1 DEF StoreIsSafe, Commits
<1>17. ExecutedIsCommitted'
  BY <1>1 DEF ExecutedIsCommitted
<1> QED BY <1>10, <1>11, <1>12, <1>13, <1>14, <1>15, <1>16, <1>17

-----------------------------------------------------------------------------
(* Startup sync.                                                           *)

LEMMA SyncStoreStep ==
    ASSUME NodeInv, NEW c \in Branch, SyncStore(c)
    PROVE  NodeInv'
<1> USE DEF NodeInv, Types
<1> DEFINE h == committed + 1
           b == Chain[h]
<1>0. HeightOf[c] = h /\ HeightOf[c] \in 0..FinalHeight /\ c = Chain[HeightOf[c]]
  BY BranchBlock DEF SyncStore, Offered
<1>1. /\ phase = "sync" /\ job = Idle /\ committed < FinalHeight /\ disk' = store'
      /\ store' = PutCommitQC(PutBlock(store, Chain[h]), HeightOf[Chain[h]], Chain[h])
      /\ job' = [Idle EXCEPT !.kind = "sync", !.stage = "intent", !.tip = b]
      /\ UNCHANGED <<phase, view, committed, epochs, status, watch, saved, wal, app, crashes, early, torn>>
  <2>1. committed < FinalHeight /\ c = Chain[h]
    BY <1>0, ChainFacts
  <2> HIDE DEF h
  <2> QED BY <2>1 DEF SyncStore, memory
<1>2. h \in 1..FinalHeight /\ h \in 0..FinalHeight /\ FinalHeight \in Nat /\ committed \in Nat /\ Up
  BY <1>1, ChainFacts DEF Up
<1>3. b \in Block /\ HeightOf[b] = h /\ b = Chain[HeightOf[b]]
  BY <1>2, ChainFacts
<1>4. Succeeds(store', store) /\ Pinned(store', h) /\ GoodStore(store')
  <2> HIDE DEF h
  <2>1. Succeeds(store', store) /\ Pinned(store', h)
    BY <1>1, <1>2, CommittedBlockIsPinned
  <2> QED BY <2>1 DEF Succeeds
<1>5. job' \in Jobs /\ job'.kind = "sync" /\ job'.stage = "intent" /\ job'.tip = b
  <2> HIDE DEF b
  <2> QED BY <1>1, <1>3, AtRest DEF Jobs
<1> HIDE DEF b
<1>6. Types'
  BY <1>1, <1>4, <1>5
<1>7. JobsFitPhase'
  BY <1>1, <1>5, AtRest DEF JobsFitPhase, Up
<1>8. TipsAreCommitted'
  BY <1>1, <1>2, <1>3, <1>5 DEF TipsAreCommitted, Commits
<1>9. saved.height = committed /\ wal = <<>>
  BY <1>1, <1>2, AtRest DEF CheckpointIsClose, Commits, LogIsOpen
<1>10. CheckpointIsClose'
  BY <1>1, <1>5, <1>9 DEF CheckpointIsClose, Commits, Up
<1>11. LogIsOpen'
  BY <1>1, <1>5, <1>9 DEF LogIsOpen, Commits, Up
<1>12. ExecutionsAreKnown'
  BY <1>1 DEF ExecutionsAreKnown, Up
<1>13. StoreIsSafe'
  <2>1. Covered(store', saved.height) /\ Pinned(store', saved.height)
    BY <1>4, SafetyIsKept, SMTT(30) DEF StoreIsSafe, Secure
  <2>2. Secure(saved.height)'
    BY <1>1, <2>1 DEF Secure, Covered, Pinned
  <2> QED BY <1>1, <1>4, <1>5, <2>2 DEF StoreIsSafe, Commits
<1>14. ExecutedIsCommitted'
  BY <1>1 DEF ExecutedIsCommitted
<1> QED BY <1>6, <1>7, <1>8, <1>10, <1>11, <1>12, <1>13, <1>14

(* A replay that fails leaves a node that refuses to continue.             *)
LEMMA SyncFailsHalts == ASSUME NodeInv, SyncFails PROVE phase' = "halted"
<1> DEFINE t == HeightOf[job.tip]
<1>1. /\ job.kind = "sync" /\ job.stage = "execute"
      /\ phase' = IF NeedsReplay(wal, committed) THEN "halted" ELSE "sync"
  BY DEF SyncFails
<1>2. wal = Opening(t) /\ t = committed + 1 /\ committed \in Nat
  BY <1>1, ChainFacts DEF NodeInv, Types, LogIsOpen, TipsAreCommitted, Commits
<1> HIDE DEF t
<1>3. NeedsReplay(wal, committed)
  BY <1>2, OpenIntent
<1> QED BY <1>1, <1>3

LEMMA SyncFailsStep ==
    ASSUME NodeInv, SyncFails, epochs' \in EpochTriples, app' \in Seq(Executions),
           ExecutedIsCommitted'
    PROVE  NodeInv'
<1> USE DEF NodeInv, Types
<1>1. /\ job.kind = "sync" /\ job.stage = "execute" /\ job' = Idle
      /\ phase' = IF NeedsReplay(wal, committed) THEN "halted" ELSE "sync"
      /\ UNCHANGED <<view, committed, status, watch, store, disk, saved, crashes, early, torn>>
  BY DEF SyncFails, history
<1>2. phase = "sync" /\ Up /\ watch = WatchOff
  BY <1>1, JobFacts, AtRest DEF JobsFitPhase, Up
<1>3. phase' = "halted"
  BY SyncFailsHalts
<1>4. Types'
  BY <1>1, <1>3, AtRest
<1>5. JobsFitPhase'
  BY <1>1, <1>2, <1>3, AtRest DEF JobsFitPhase, Up
<1>6. TipsAreCommitted'
  BY <1>1, AtRest DEF TipsAreCommitted, Commits
<1>7. CheckpointIsClose' /\ LogIsOpen' /\ ExecutionsAreKnown'
  BY <1>1, <1>3, AtRest DEF CheckpointIsClose, LogIsOpen, ExecutionsAreKnown, Commits, Up
<1>8. StoreIsSafe'
  BY <1>1, AtRest DEF StoreIsSafe, Secure, Commits
<1> QED BY <1>4, <1>5, <1>6, <1>7, <1>8

LEMMA SyncRejectedStep == ASSUME NodeInv, SyncRejected PROVE NodeInv'
<1>1. SyncFails /\ UNCHANGED <<epochs, app>>
  BY DEF SyncRejected
<1>2. ExecutedIsCommitted'
  BY <1>1 DEF NodeInv, ExecutedIsCommitted
<1> QED BY <1>1, <1>2, SyncFailsStep DEF NodeInv, Types

(* What a replay is about to execute.                                      *)
LEMMA ReplayFacts ==
    ASSUME NodeInv, job.kind = "sync", job.stage = "execute"
    PROVE  LET t == HeightOf[job.tip]
           IN  /\ t \in 1..FinalHeight /\ t = committed + 1 /\ job.tip = Chain[t]
               /\ job.tip \in Block /\ phase = "sync" /\ Up /\ saved.height = committed
               /\ Len(app) = committed
               /\ committed \in Nat /\ t \in Nat /\ FinalHeight \in Nat /\ t \in Heights
<1> USE DEF NodeInv, Types
<1> DEFINE t == HeightOf[job.tip]
<1>1. Up /\ job.tip \in Block /\ saved.height = committed
  BY JobFacts DEF Commits
<1>2. t \in 1..FinalHeight /\ t = committed + 1 /\ job.tip = Chain[t]
  BY DEF TipsAreCommitted
<1>3. t \in 0..FinalHeight /\ t \in Nat /\ FinalHeight \in Nat
  BY <1>2, ChainFacts
<1> QED BY <1>1, <1>2, <1>3, ChainFacts DEF JobsFitPhase, Up, ExecutionsAreKnown

(* What it makes of the application.                                       *)
LEMMA ReplayExecutes ==
    ASSUME NodeInv, job.kind = "sync", job.stage = "execute",
           \E o \in CallOutcomes("execute_block") :
               /\ o.answer = "given"
               /\ app' = Execution(job.tip, ReplayEpochs(job.tip).cur, o.applied)
    PROVE  /\ ReplayEpochs(job.tip) \in EpochTriples
           /\ app' \in Seq(Executions) /\ Len(app') = HeightOf[job.tip] /\ ExecutedIsCommitted'
<1> DEFINE t == HeightOf[job.tip]
           e == ReplayEpochs(job.tip)
<1>1. /\ t \in 1..FinalHeight /\ t = committed + 1 /\ job.tip = Chain[t] /\ job.tip \in Block
      /\ Len(app) = committed /\ committed \in Nat /\ FinalHeight \in Nat
  BY ReplayFacts
<1>2. e \in EpochTriples
  BY <1>1, EpochTypes DEF ReplayEpochs, NodeInv, Types
<1>3. PICK o \in CallOutcomes("execute_block") :
          o.answer = "given" /\ app' = Execution(job.tip, e.cur, o.applied)
  OBVIOUS
<1>4. app' = Execution(job.tip, e.cur, 1)
  BY <1>3, ExecutionOutcomes
<1> HIDE DEF t, e
<1>5. e.cur \in Epoch
  BY <1>2 DEF EpochTriples
<1>6. Len(app) < FinalHeight /\ job.tip = Chain[Len(app) + 1]
  BY <1>1
<1>7. app' \in Seq(Executions) /\ Len(app') = Len(app) + 1 /\ ExecutedIsCommitted'
  BY <1>4, <1>5, <1>6, AppExtendsChain
<1> QED BY <1>1, <1>2, <1>7 DEF t, e

LEMMA RefuseSyncStep == ASSUME NodeInv, RefuseSync PROVE NodeInv'
<1>1. SyncFails /\ job.kind = "sync" /\ job.stage = "execute"
  BY DEF RefuseSync, SyncFails
<1>2. /\ ReplayEpochs(job.tip) \in EpochTriples
      /\ app' \in Seq(Executions) /\ ExecutedIsCommitted'
  BY <1>1, ReplayExecutes DEF RefuseSync
<1>3. epochs' \in EpochTriples
  BY <1>2 DEF RefuseSync, EpochTriples, NodeInv, Types
<1> QED BY <1>1, <1>2, <1>3, SyncFailsStep

LEMMA SyncExecuteStep == ASSUME NodeInv, SyncExecute PROVE NodeInv'
<1> USE DEF NodeInv, Types
<1> DEFINE t == HeightOf[job.tip]
           e == ReplayEpochs(job.tip)
<1>1. /\ job.kind = "sync" /\ job.stage = "execute" /\ committed' = t
      /\ epochs' = AfterExecution(e, job.tip) /\ disk' = store'
      /\ store' = IF store.results[t] = "none" THEN PutBlockResults(store, t, "real") ELSE store
      /\ job' = [job EXCEPT !.stage = "persist"]
      /\ UNCHANGED <<phase, view, status, watch, saved, wal, crashes, early, torn>>
  BY DEF SyncExecute, history
<1>2. /\ t \in 1..FinalHeight /\ t = committed + 1 /\ job.tip = Chain[t] /\ job.tip \in Block
      /\ phase = "sync" /\ Up /\ saved.height = committed /\ Len(app) = committed
      /\ committed \in Nat /\ t \in Nat /\ FinalHeight \in Nat /\ t \in Heights
  BY <1>1, ReplayFacts
<1> HIDE DEF t
<1>3. e \in EpochTriples /\ epochs' \in EpochTriples /\ e.cur \in Epoch
  <2>1. e \in EpochTriples
    BY <1>2, EpochTypes DEF ReplayEpochs
  <2> HIDE DEF e
  <2>2. e.cur \in Epoch
    BY <2>1 DEF EpochTriples
  <2> QED BY <1>1, <1>2, <2>1, <2>2, EpochTypes
<1>4. app' \in Seq(Executions) /\ Len(app') = t /\ ExecutedIsCommitted'
  BY <1>1, ReplayExecutes DEF SyncExecute, t
<1>5. job' \in Jobs /\ job'.kind = "sync" /\ job'.stage = "persist" /\ job'.tip = job.tip
  BY <1>1, JobChange
<1>6. Succeeds(store', store) /\ GoodStore(store') /\ store'.results[t] # "none"
  <2>1. Succeeds(store', store) /\ store'.results[t] # "none"
    BY <1>1, <1>2, PutBlockResultsSucceeds, SucceedsItself
  <2> QED BY <2>1 DEF Succeeds
<1> HIDE DEF e
<1>7. Types'
  BY <1>1, <1>2, <1>3, <1>4, <1>5, <1>6
<1>8. JobsFitPhase'
  BY <1>1, <1>2, <1>5, AtRest DEF JobsFitPhase, Up
<1>9. TipsAreCommitted'
  BY <1>1, <1>2, <1>5 DEF TipsAreCommitted, Commits, t
<1>10. CheckpointIsClose'
  BY <1>1, <1>2, <1>5 DEF CheckpointIsClose, Commits, Up
<1>11. LogIsOpen'
  BY <1>1, <1>5, <1>2 DEF LogIsOpen, Commits, Up
<1>12. ExecutionsAreKnown'
  BY <1>1, <1>2, <1>4 DEF ExecutionsAreKnown, Up
<1>13. StoreIsSafe'
  <2>1. Covered(store', saved.height) /\ Pinned(store', saved.height)
    BY <1>6, SafetyIsKept DEF StoreIsSafe, Secure
  <2>2. Pinned(store', t)
    <3>1. Pinned(store, t) /\ t \in 0..FinalHeight
      BY <1>1, <1>2 DEF StoreIsSafe
    <3> QED BY <1>6, <3>1, SafetyIsKept
  <2>3. Covered(store', t)
    <3> SUFFICES ASSUME NEW h \in 1..t PROVE Chain[h] \in store'.blocks /\ store'.results[h] # "none"
      BY DEF Covered
    <3>1. CASE h = t
      BY <1>6, <2>2, <3>1 DEF Pinned
    <3>2. CASE h # t
      <4>1. h \in 1..saved.height
        BY <1>2, <3>2
      <4> QED BY <2>1, <4>1 DEF Covered
    <3> QED BY <3>1, <3>2
  <2>4. Secure(committed)' /\ Secure(saved.height)'
    BY <1>1, <2>1, <2>2, <2>3 DEF Secure, Covered, Pinned
  <2> QED BY <1>1, <1>5, <2>4 DEF StoreIsSafe, Commits
<1> QED BY <1>4, <1>7, <1>8, <1>9, <1>10, <1>11, <1>12, <1>13

LEMMA StartEngineStep == ASSUME NodeInv, StartEngine PROVE NodeInv'
<1> USE DEF NodeInv, Types
<1>1. /\ phase = "sync" /\ job = Idle /\ phase' = "running" /\ disk' = store /\ Up
      /\ saved' = [view |-> view', height |-> committed, e |-> epochs]
      /\ status' = Published(committed, epochs.cur)
      /\ UNCHANGED <<committed, epochs, job, watch, store, wal, app, crashes, early, torn>>
  BY DEF StartEngine, history, Up
<1>2. saved.height = committed /\ wal = <<>> /\ Len(app) = committed /\ Secure(committed)
  BY <1>1, AtRest DEF CheckpointIsClose, Commits, LogIsOpen, ExecutionsAreKnown, StoreIsSafe
<1>3. view' \in Nat
  <2> DEFINE v == 1 + ViewOf[Chain[committed]]
  <2>1. GetBlockByHeight(store, committed) = Chain[committed]
    BY <1>2 DEF Secure, Pinned, GetBlockByHeight
  <2>2. v \in Nat
    BY ChainFacts, BlockAssumption, SMTT(30)
  <2>4. Chain[committed] # None
    BY ChainFacts, BlockAssumption
  <2>3. view' = IF committed > 0 /\ v > view THEN v ELSE view
    BY <2>1, <2>4 DEF StartEngine
  <2> HIDE DEF v
  <2> QED BY <2>2, <2>3
<1>12. status' \in Statuses /\ status'.height = committed
  BY <1>1 DEF Published, Statuses, EpochTriples, Epoch
<1>4. Types'
  BY <1>1, <1>3, <1>12
<1>5. JobsFitPhase'
  BY <1>1, AtRest DEF JobsFitPhase, Up
<1>6. TipsAreCommitted'
  BY <1>1, AtRest DEF TipsAreCommitted, Commits
<1>7. CheckpointIsClose'
  BY <1>1, AtRest DEF CheckpointIsClose, Commits, Up
<1>8. LogIsOpen'
  BY <1>1, <1>2, AtRest DEF LogIsOpen, Commits, Up
<1>9. ExecutionsAreKnown'
  BY <1>1, <1>2, <1>12 DEF ExecutionsAreKnown, Up
<1>10. StoreIsSafe'
  BY <1>1, <1>2, AtRest DEF StoreIsSafe, Secure, Commits, Covered, Pinned
<1>11. ExecutedIsCommitted'
  BY <1>1 DEF ExecutedIsCommitted
<1> QED BY <1>4, <1>5, <1>6, <1>7, <1>8, <1>9, <1>10, <1>11

-----------------------------------------------------------------------------
(* Crashes.                                                                *)

(* A crash at any moment leaves a state from which a restart is safe.      *)
LEMMA CrashIsSafe ==
    ASSUME NodeInv, Gone,
           saved' \in [view : Nat, height : 0..FinalHeight, e : EpochTriples],
           Secure(saved'.height),
           app' \in Seq(Executions), ExecutedIsCommitted', early' \in BOOLEAN, torn' \in BOOLEAN,
           \/ Len(app') = saved'.height
           \/ \E h \in Heights : h > saved'.height /\ wal' = Opening(h)
    PROVE  NodeInv'
<1> USE DEF NodeInv, Types
<1> DEFINE n == saved'.height
<1>1. /\ phase' = "down" /\ crashes' \in 0..MaxCrashes
      /\ view' = 1 /\ committed' = 0 /\ epochs' = GenesisEpochs
      /\ job' = Idle /\ watch' = WatchOff /\ store' \in {store, disk} /\ disk' = store'
      /\ status' = Published(0, GenesisEpoch)
  BY NodeAssumption DEF Gone
<1>2. GoodStore(store') /\ Covered(store', n) /\ Pinned(store', n)
  BY <1>1 DEF Secure
<1>3. Types'
  BY <1>1, <1>2, AtRest, EpochTypes, ChainFacts DEF Published, GenesisEpoch, Statuses
<1>4. JobsFitPhase'
  BY <1>1, AtRest DEF JobsFitPhase, Up
<1>5. TipsAreCommitted'
  BY <1>1, AtRest DEF TipsAreCommitted, Commits
<1>6. CheckpointIsClose' /\ LogIsOpen'
  BY <1>1, AtRest DEF CheckpointIsClose, LogIsOpen, Commits, Up
<1>7. ExecutionsAreKnown'
  BY <1>1 DEF ExecutionsAreKnown, Up
<1>8. StoreIsSafe'
  BY <1>1, <1>2, AtRest DEF StoreIsSafe, Secure, Commits, Covered, Pinned
<1> QED BY <1>3, <1>4, <1>5, <1>6, <1>7, <1>8

(* What is executed and not checkpointed has an open intent.               *)
LEMMA OpenOrSaved ==
    ASSUME NodeInv, Up
    PROVE  \/ Len(app) = saved.height
           \/ \E h \in Heights : h > saved.height /\ wal = Opening(h)
<1> USE DEF NodeInv, Types
<1> DEFINE t == HeightOf[job.tip]
<1>1. Len(app) = committed /\ committed \in Nat /\ saved.height \in Nat
  BY ChainFacts DEF ExecutionsAreKnown
<1>2. CASE job.kind = "live" /\ job.stage = "execute"
  <2>1. t \in Heights /\ t > saved.height /\ wal = Opening(t)
    BY <1>2, BlockFacts DEF TipsAreCommitted, LogIsOpen, Commits, Jobs
  <2> QED BY <2>1
<1>3. CASE Commits({"persist"})
  <2>1. t \in Heights /\ t = committed /\ wal = Opening(t) /\ saved.height <= committed
    BY <1>3, BlockFacts DEF TipsAreCommitted, LogIsOpen, Commits, Jobs, CheckpointIsClose
  <2> QED BY <1>1, <2>1
<1>4. CASE ~(job.kind = "live" /\ job.stage = "execute") /\ ~Commits({"persist"})
  BY <1>1, <1>4 DEF CheckpointIsClose
<1> QED BY <1>2, <1>3, <1>4

LEMMA CrashStep == ASSUME NodeInv, Crash PROVE NodeInv'
<1>1. Gone /\ UNCHANGED <<saved, wal, app, early, torn>> /\ Up
  BY DEF Crash, Gone, Up
<1>2. \/ Len(app') = saved'.height
      \/ \E h \in Heights : h > saved'.height /\ wal' = Opening(h)
  BY <1>1, OpenOrSaved
<1>3. ExecutedIsCommitted'
  BY <1>1 DEF NodeInv, ExecutedIsCommitted
<1>4. Secure(saved'.height)
  BY <1>1, JobFacts
<1> QED BY <1>1, <1>2, <1>3, <1>4, CrashIsSafe DEF NodeInv, Types

LEMMA CrashInWalStep == ASSUME NodeInv, CrashInWal PROVE NodeInv'
<1>1. Gone /\ UNCHANGED <<saved, app, early, torn>> /\ Up /\ job.stage \in {"intent", "done"}
  BY DEF CrashInWal, Gone, Up
<1>2. Len(app') = saved'.height /\ Secure(saved'.height)
  BY <1>1, JobFacts DEF NodeInv, ExecutionsAreKnown, Commits
<1>3. ExecutedIsCommitted'
  BY <1>1 DEF NodeInv, ExecutedIsCommitted
<1> QED BY <1>1, <1>2, <1>3, CrashIsSafe DEF NodeInv, Types

LEMMA CrashInPersistStep == ASSUME NodeInv, CrashInPersist PROVE NodeInv'
<1>1. /\ Gone /\ UNCHANGED <<wal, app, early>> /\ Up /\ job.stage = "persist"
      /\ torn' \in BOOLEAN
  BY DEF CrashInPersist, Gone, Up
<1>2. PICK k \in 1..(Fields - 1) : saved' = SavedUpTo(k)
  BY DEF CrashInPersist
<1>3. Secure(committed) /\ Secure(saved.height) /\ Len(app) = committed
  BY <1>1, JobFacts DEF NodeInv, StoreIsSafe, ExecutionsAreKnown, Commits
<1>4. /\ saved' \in [view : Nat, height : 0..FinalHeight, e : EpochTriples]
      /\ saved'.height = IF k >= 2 THEN committed ELSE saved.height
  <2>1. /\ view \in Nat /\ committed \in 0..FinalHeight /\ epochs \in EpochTriples
        /\ saved.view \in Nat /\ saved.height \in 0..FinalHeight /\ saved.e \in EpochTriples
    BY DEF NodeInv, Types
  <2>2. [cur  |-> IF k >= 3 THEN epochs.cur ELSE saved.e.cur,
         prev |-> IF k >= 4 THEN epochs.prev ELSE saved.e.prev,
         pend |-> IF k >= 5 THEN epochs.pend ELSE saved.e.pend] \in EpochTriples
    BY <2>1 DEF EpochTriples
  <2> QED BY <1>2, <2>1, <2>2 DEF SavedUpTo
<1>5. Secure(saved'.height)
  BY <1>3, <1>4
<1>6. ExecutedIsCommitted'
  BY <1>1 DEF NodeInv, ExecutedIsCommitted
<1>7. \/ Len(app') = saved'.height
      \/ \E h \in Heights : h > saved'.height /\ wal' = Opening(h)
  <2>1. CASE k >= 2
    BY <1>1, <1>3, <1>4, <2>1
  <2>2. CASE ~(k >= 2)
    BY <1>1, <1>4, <2>2, OpenOrSaved
  <2> QED BY <2>1, <2>2
<1> QED BY <1>1, <1>4, <1>5, <1>6, <1>7, CrashIsSafe DEF NodeInv, Types

LEMMA PanicStep == ASSUME NodeInv, Panic PROVE NodeInv'
<1> DEFINE t == HeightOf[job.tip]
           b == AncestorAt[job.tip][committed + 1]
           e == IF job.kind = "live" THEN ContextEpoch(ActivateAt(job.e, b), b)
                ELSE ReplayEpochs(b).cur
<1>1. Gone /\ UNCHANGED <<saved, wal, early, torn>> /\ Up /\ job.stage = "execute"
  BY DEF Panic, Gone, Up
<1>2. job.kind \in {"live", "sync"} /\ job.tip \in Block /\ Secure(saved.height)
  BY <1>1, JobFacts
<1>3. /\ t \in 1..FinalHeight /\ job.tip = Chain[t] /\ wal = Opening(t)
      /\ committed \in Nat /\ FinalHeight \in Nat /\ Len(app) = committed /\ t \in Heights
  <2>1. t \in 1..FinalHeight /\ job.tip = Chain[t]
    BY <1>2 DEF NodeInv, TipsAreCommitted
  <2>2. wal = Opening(t)
    BY <1>1, <1>2 DEF NodeInv, LogIsOpen, Commits
  <2>3. committed \in Nat /\ FinalHeight \in Nat /\ Len(app) = committed
    BY <1>1, ChainFacts DEF NodeInv, Types, ExecutionsAreKnown
  <2> QED BY <1>2, <2>1, <2>2, <2>3, BlockFacts
<1>4. committed < t /\ saved.height < t
  <2>1. CASE job.kind = "live"
    BY <1>1, <2>1 DEF NodeInv, TipsAreCommitted, Panic
  <2>2. CASE job.kind = "sync"
    BY <1>1, <1>3, <2>2, JobFacts DEF NodeInv, TipsAreCommitted, Commits
  <2> QED BY <1>2, <2>1, <2>2
<1>5. b = Chain[committed + 1] /\ b \in Block
  BY <1>3, <1>4, ChainFacts
<1>6. PICK o \in CallOutcomes("execute_block") : app' = Execution(b, e, o.applied)
  BY DEF Panic
<1> HIDE DEF b
<1>7. e \in Epoch
  <2>1. job.e \in EpochTriples /\ epochs \in EpochTriples
    BY DEF NodeInv, Types, Jobs
  <2>2. ReplayEpochs(b) \in EpochTriples /\ ActivateAt(job.e, b) \in EpochTriples
    BY <1>5, <2>1, EpochTypes DEF ReplayEpochs
  <2>3. ReplayEpochs(b).cur \in Epoch
    BY <2>2 DEF EpochTriples
  <2> QED BY <1>5, <2>2, <2>3, EpochTypes
<1> HIDE DEF e, t
<1>8. app' \in Seq(Executions) /\ ExecutedIsCommitted'
  <2> DEFINE n == o.applied
  <2>1. n \in {0, 1}
    BY ExecutionOutcomes
  <2>2. Len(app) < FinalHeight /\ b = Chain[Len(app) + 1]
    BY <1>3, <1>4, <1>5
  <2> HIDE DEF n
  <2>3. app' = Execution(b, e, n)
    BY <1>6 DEF n
  <2> QED BY <1>7, <2>1, <2>2, <2>3, AppExtendsChain
<1>9. \E h \in Heights : h > saved'.height /\ wal' = Opening(h)
  <2>1. t > saved.height
    BY <1>3, <1>4, ChainFacts DEF NodeInv, Types
  <2> QED BY <1>1, <1>3, <2>1
<1>10. Secure(saved'.height)
  BY <1>1, <1>2
<1> QED BY <1>1, <1>8, <1>9, <1>10, CrashIsSafe DEF NodeInv, Types

LEMMA RestartStep == ASSUME NodeInv, Restart PROVE NodeInv'
<1> USE DEF NodeInv, Types
<1>1. /\ phase = "down" /\ store' = Opened(store) /\ disk' = store'
      /\ phase' = IF NeedsReplay(wal, saved.height) THEN "halted" ELSE "sync"
      /\ wal' = Recovered(wal, saved.height)
      /\ view' = saved.view /\ committed' = saved.height /\ epochs' = saved.e
      /\ UNCHANGED <<job, status, watch, saved, app, crashes, early, torn>>
  BY DEF Restart, history
<1>2. store' = store /\ job = Idle /\ watch = WatchOff
  BY <1>1 DEF GoodStore, Opened, JobsFitPhase, Up
<1>3. phase' = "sync" => wal' = <<>> /\ Len(app) = saved.height
  <2> SUFFICES ASSUME ~NeedsReplay(wal, saved.height)
               PROVE  wal' = <<>> /\ Len(app) = saved.height
    BY <1>1
  <2>1. wal' = <<>>
    BY <1>1 DEF Recovered, Truncate
  <2>2. ASSUME NEW h \in Heights, h > saved.height, wal = Opening(h) PROVE FALSE
    <3>1. h \in Nat /\ saved.height \in Nat
      BY ChainFacts, BlockFacts DEF Heights
    <3> QED BY <2>2, <3>1, OpenIntent
  <2> QED BY <1>1, <2>1, <2>2 DEF ExecutionsAreKnown
<1>4. Types'
  BY <1>1, <1>2
<1>5. JobsFitPhase'
  BY <1>1, <1>2, AtRest DEF JobsFitPhase, Up
<1>6. TipsAreCommitted'
  BY <1>1, <1>2, AtRest DEF TipsAreCommitted, Commits
<1>7. CheckpointIsClose'
  BY <1>1, <1>2, AtRest DEF CheckpointIsClose, Commits, Up
<1>8. LogIsOpen'
  BY <1>1, <1>2, <1>3, AtRest DEF LogIsOpen, Commits, Up
<1>9. ExecutionsAreKnown'
  BY <1>1, <1>3 DEF ExecutionsAreKnown, Up
<1>10. StoreIsSafe'
  BY <1>1, <1>2, AtRest DEF StoreIsSafe, Secure, Commits, Covered, Pinned
<1>11. ExecutedIsCommitted'
  BY <1>1 DEF ExecutedIsCommitted
<1> QED BY <1>4, <1>5, <1>6, <1>7, <1>8, <1>9, <1>10, <1>11

-----------------------------------------------------------------------------
(* Types, whatever peers serve and whichever commits are refused.          *)

TypeInv ==
    /\ phase \in {"sync", "running", "down", "halted"}
    /\ view \in Nat /\ committed \in Heights /\ epochs \in EpochTriples
    /\ job \in Jobs /\ status \in [height : Heights, epoch : Nat]
    /\ watch \in [stage : {"off", "store", "results", "write"}, height : Heights, epoch : Nat]
    /\ watch.stage \in {"results", "write"} => watch.height + 1 \in Heights
    /\ GoodStore(store) /\ GoodStore(disk)
    /\ saved \in [view : Nat, height : Heights, e : EpochTriples]
    /\ crashes \in 0..MaxCrashes /\ refusals \in 0..MaxRefusals
    /\ early \in BOOLEAN /\ torn \in BOOLEAN /\ strayed \in BOOLEAN

(* A certificate of any block leaves the index sound.                      *)
LEMMA PutCommitQCGood ==
    ASSUME NEW s, GoodStore(s), NEW b \in Block, NEW h, h = HeightOf[b]
    PROVE  GoodStore(PutCommitQC(s, h, b))
<1> DEFINE t == PutCommitQC(s, h, b)
           i == IF b \in s.blocks /\ HeightOf[b] = h THEN b ELSE s.index[h]
<1>1. s \in Stores /\ h \in Heights /\ (h = 0 => b = Genesis)
  BY BlockFacts DEF GoodStore
<1>2. /\ t.blocks = s.blocks /\ t.results = s.results
      /\ t.index = [s.index EXCEPT ![h] = i] /\ t.qcs = [s.qcs EXCEPT ![h] = b]
  BY <1>1 DEF PutCommitQC, Stores
<1>3. t \in Stores
  BY <1>1 DEF PutCommitQC, Stores
<1>4. \A k \in Heights : t.index[k] = IF k = h THEN i ELSE s.index[k]
  BY <1>1, <1>2 DEF Stores
<1>5. 0 \in Heights
  BY BlockFacts DEF Heights
<1> HIDE DEF t
<1>6. GoodStore(t)
  BY <1>1, <1>2, <1>3, <1>4, <1>5 DEF GoodStore
<1> QED BY <1>6 DEF t

(* A block of a peer, stored with its certificate.                         *)
LEMMA OfferedBlockIsGood ==
    ASSUME NEW s, GoodStore(s), NEW b \in Block
    PROVE  GoodStore(PutCommitQC(PutBlock(s, b), HeightOf[b], b))
BY PutBlockSucceeds, PutCommitQCGood DEF Succeeds

LEMMA PublishedType ==
    ASSUME NEW h \in Heights, NEW e \in Epoch
    PROVE  Published(h, e) \in [height : Heights, epoch : Nat]
BY DEF Published, Epoch

(* Steps of the store: proposals, and the watcher.                         *)
LEMMA TypeOfStoreSteps ==
    ASSUME TypeInv,
           \/ \E b \in Block \ {Genesis}, anc \in BOOLEAN : PastProposal(b, anc)
           \/ \E b \in Block \ {Genesis}, anc, acc \in BOOLEAN : CurrentProposal(b, anc, acc)
           \/ \E b \in Block \ {Genesis} : WatchStore(b)
           \/ WatchStart \/ WatchLook \/ WatchWrite \/ WatchEnd
    PROVE  TypeInv'
<1> USE DEF TypeInv
<1>0. committed \in Nat /\ GoodStore(store)
  BY BlockFacts DEF Heights
<1>1. ASSUME NEW b \in Block \ {Genesis}, NEW anc \in BOOLEAN, PastProposal(b, anc)
      PROVE  TypeInv'
  <2> DEFINE s == IF anc THEN WithAncestors(store, b) ELSE store
             t == IF HeightOf[b] > committed THEN PutBlock(s, b) ELSE s
  <2>1. GoodStore(s)
    BY <1>0, WithAncestorsSucceeds DEF Succeeds
  <2> HIDE DEF s
  <2>2. GoodStore(t)
    BY <2>1, PutBlockSucceeds DEF Succeeds
  <2>3. store' = t
    BY <1>1 DEF PastProposal, s
  <2> HIDE DEF t
  <2> QED BY <1>1, <2>2, <2>3 DEF PastProposal, memory, history
<1>2. ASSUME NEW b \in Block \ {Genesis}, NEW anc \in BOOLEAN, NEW acc \in BOOLEAN,
             CurrentProposal(b, anc, acc)
      PROVE  TypeInv'
  <2> DEFINE r == IF anc THEN WithAncestors(store, b) ELSE store
             s == KeepJustify(r, b)
             t == IF acc /\ Parent[b] \in s.blocks THEN PutBlock(s, b) ELSE s
  <2>1. GoodStore(r)
    BY <1>0, WithAncestorsSucceeds DEF Succeeds
  <2> HIDE DEF r
  <2>2. GoodStore(s)
    BY <2>1, KeepJustifySucceeds DEF Succeeds
  <2> HIDE DEF s
  <2>3. GoodStore(t)
    BY <2>2, PutBlockSucceeds DEF Succeeds
  <2>4. store' = t
    BY <1>2 DEF CurrentProposal, r, s
  <2> HIDE DEF t
  <2> QED BY <1>2, <2>3, <2>4 DEF CurrentProposal, memory, history
<1>3. ASSUME NEW b \in Block \ {Genesis}, WatchStore(b) PROVE TypeInv'
  <2>1. GoodStore(store') /\ disk' = store'
    BY <1>3, OfferedBlockIsGood DEF WatchStore
  <2>2. watch.height + 1 \in Heights
    BY <1>3, BlockFacts DEF WatchStore, Offered
  <2>3. watch' = [watch EXCEPT !.stage = "results"]
    BY <1>3 DEF WatchStore
  <2>4. strayed' \in BOOLEAN
    BY <1>3 DEF WatchStore
  <2> QED BY <1>3, <2>1, <2>2, <2>3, <2>4 DEF WatchStore, memory
<1>4. CASE WatchStart
  BY <1>4 DEF WatchStart, memory, history
<1>5. CASE WatchLook
  BY <1>5 DEF WatchLook, memory, history
<1>6. CASE WatchWrite
  <2>1. watch.height + 1 \in Heights
    BY <1>6 DEF WatchWrite
  <2> DEFINE h == watch.height + 1
  <2>2. store' = PutBlockResults(store, h, "default") /\ disk' = store'
    BY <1>6 DEF WatchWrite
  <2>3. GoodStore(store')
    <3> HIDE DEF h
    <3> QED BY <2>1, <2>2, PutBlockResultsSucceeds DEF Succeeds, h
  <2>4. watch' = [watch EXCEPT !.stage = "store", !.height = h]
    BY <1>6 DEF WatchWrite
  <2> HIDE DEF h
  <2>5. h \in Heights
    BY <2>1 DEF h
  <2> QED BY <1>6, <2>2, <2>3, <2>4, <2>5 DEF WatchWrite, memory, history
<1>7. CASE WatchEnd
  BY <1>7, BlockFacts DEF WatchEnd, WatchOff, Heights, memory, history
<1> QED BY <1>1, <1>2, <1>3, <1>4, <1>5, <1>6, <1>7

(* Steps of a commit or a view change.                                     *)
LEMMA TypeOfCommitSteps ==
    ASSUME TypeInv,
           \/ \E v \in 1..MaxView : AdvanceViewTo(v)
           \/ \E b \in Block \ {Genesis} : ApplyCommit(b)
           \/ LogIntent \/ TryCommit \/ ExecuteLive \/ RefuseLive \/ ProcessCommitResult
           \/ PersistState \/ LogCommitDone \/ TruncateWal
    PROVE  TypeInv'
<1> USE DEF TypeInv
<1>1. ASSUME NEW v \in 1..MaxView, AdvanceViewTo(v) PROVE TypeInv'
  <2>1. v \in Nat
    BY NodeAssumption
  <2>2. epochs' \in EpochTriples /\ view' \in Nat
    BY <1>1, <2>1, EpochTypes DEF AdvanceViewTo
  <2>3. job' \in Jobs
    BY <1>1, AtRest DEF AdvanceViewTo, Jobs
  <2>4. early' \in BOOLEAN
    BY <1>1 DEF AdvanceViewTo
  <2> QED BY <1>1, <2>2, <2>3, <2>4 DEF AdvanceViewTo
<1>2. ASSUME NEW b \in Block \ {Genesis}, ApplyCommit(b) PROVE TypeInv'
  <2>1. job' \in Jobs
    BY <1>2, AtRest DEF ApplyCommit, Jobs
  <2> QED BY <1>2, <2>1 DEF ApplyCommit, memory, history
<1>3. CASE LogIntent
  <2>1. job' \in Jobs
    BY <1>3, JobChange DEF LogIntent
  <2> QED BY <1>3, <2>1 DEF LogIntent, memory, history
<1>4. CASE TryCommit
  <2>1. job' \in Jobs
    <3>1. [job EXCEPT !.stage = "execute", !.from = committed, !.e = epochs] \in Jobs
      BY DEF Jobs
    <3> QED BY <1>4, <3>1, JobChange DEF TryCommit
  <2> QED BY <1>4, <2>1 DEF TryCommit, memory, history
<1>5. ASSUME ExecuteLive \/ RefuseLive PROVE TypeInv'
  <2> DEFINE b == AncestorAt[job.tip][committed + 1]
             e == ActivateAt(job.e, b)
  <2>1. ExecuteNext(b, e)
    BY <1>5 DEF ExecuteLive, RefuseLive
  <2>2. committed < HeightOf[job.tip] /\ job.tip \in Block /\ committed \in Nat /\ HeightOf[job.tip] \in Heights
    BY <2>1, BlockFacts DEF ExecuteNext, Jobs, Heights
  <2>3. committed + 1 \in 0..HeightOf[job.tip] /\ committed + 1 \in Heights
    BY <2>2, BlockFacts DEF Heights
  <2>4. b \in Block
    BY <2>2, <2>3, AncestorDefinition
  <2> HIDE DEF b
  <2>5. e \in EpochTriples
    BY <2>4, EpochTypes DEF Jobs
  <2> HIDE DEF e
  <2>6. AfterExecution(e, b) \in EpochTriples /\ ContextEpoch(e, b) \in Epoch
    BY <2>4, <2>5, EpochTypes
  <2>7. status' \in [height : Heights, epoch : Nat]
    BY <2>1, <2>4, <2>6, BlockFacts, PublishedType DEF ExecuteNext
  <2>8. CASE ExecuteLive
    <3>1. job' = [job EXCEPT !.e = AfterExecution(e, b), !.act = @ \/ e # job.e]
      BY <2>8 DEF ExecuteLive, b, e
    <3>2. job' \in Jobs
      BY <2>6, <3>1 DEF Jobs
    <3>3. committed' \in Heights
      BY <2>3, <2>8 DEF ExecuteLive
    <3> QED BY <2>7, <2>8, <3>2, <3>3 DEF ExecuteLive, history
  <2>9. CASE RefuseLive
    <3>1. job' \in Jobs
      BY <2>9, JobChange DEF RefuseLive
    <3>2. refusals' \in 0..MaxRefusals
      BY <2>9, NodeAssumption DEF RefuseLive
    <3> QED BY <2>7, <2>9, <3>1, <3>2 DEF RefuseLive, memory
  <2> QED BY <1>5, <2>8, <2>9
<1>6. CASE ProcessCommitResult
  <2> DEFINE t == HeightOf[job.tip]
             r == PutCommitQC(store, t, job.tip)
             u == WithResults(store)
  <2>1. job.tip \in Block /\ t = HeightOf[job.tip]
    BY DEF Jobs
  <2>2. GoodStore(r)
    BY <2>1, PutCommitQCGood
  <2>3. u = [r EXCEPT !.results = [h \in Heights |->
                IF h \in (job.from + 1)..committed THEN "real" ELSE r.results[h]]]
    BY DEF WithResults
  <2> HIDE DEF u, r
  <2>4. GoodStore(u)
    <3>1. r \in Stores
      BY <2>2 DEF GoodStore
    <3>2. u \in Stores /\ u.blocks = r.blocks /\ u.index = r.index
      BY <2>3, <3>1 DEF Stores
    <3> QED BY <2>2, <3>2 DEF GoodStore
  <2>5. store' = u /\ disk' = u
    BY <1>6 DEF ProcessCommitResult, u
  <2>6. epochs' \in EpochTriples
    BY <1>6 DEF ProcessCommitResult, EpochTriples, Jobs
  <2>7. job' \in Jobs
    BY <1>6, JobChange DEF ProcessCommitResult
  <2> QED BY <1>6, <2>4, <2>5, <2>6, <2>7 DEF ProcessCommitResult, history
<1>7. CASE PersistState
  <2>1. saved' = [view |-> view, height |-> committed, e |-> epochs]
    BY <1>7 DEF PersistState, SavedUpTo, Fields, EpochTriples
  <2>2. job' \in Jobs
    BY <1>7, JobChange, AtRest DEF PersistState
  <2> QED BY <1>7, <2>1, <2>2 DEF PersistState, memory, history
<1>8. CASE LogCommitDone
  <2>1. job' \in Jobs
    BY <1>8, JobChange DEF LogCommitDone
  <2> QED BY <1>8, <2>1 DEF LogCommitDone, memory, history
<1>9. CASE TruncateWal
  BY <1>9, AtRest DEF TruncateWal, memory, history
<1> QED BY <1>1, <1>2, <1>3, <1>4, <1>5, <1>6, <1>7, <1>8, <1>9

(* Steps of startup sync.                                                  *)
LEMMA TypeOfSyncSteps ==
    ASSUME TypeInv,
           \/ \E b \in Block \ {Genesis} : SyncStore(b)
           \/ SyncRejected \/ RefuseSync \/ SyncExecute \/ StartEngine
    PROVE  TypeInv'
<1> USE DEF TypeInv
<1>1. ASSUME NEW b \in Block \ {Genesis}, SyncStore(b) PROVE TypeInv'
  <2>1. GoodStore(store') /\ disk' = store'
    BY <1>1, OfferedBlockIsGood DEF SyncStore
  <2>2. job' \in Jobs
    BY <1>1, AtRest DEF SyncStore, Jobs
  <2>3. strayed' \in BOOLEAN
    BY <1>1 DEF SyncStore
  <2> QED BY <1>1, <2>1, <2>2, <2>3 DEF SyncStore, memory
<1>0. /\ job.tip \in Block /\ HeightOf[job.tip] \in Heights
      /\ ReplayEpochs(job.tip) \in EpochTriples
  BY BlockFacts, EpochTypes DEF ReplayEpochs, Jobs
<1>2. ASSUME SyncRejected \/ RefuseSync PROVE TypeInv'
  <2>1. SyncFails /\ epochs' \in EpochTriples
    BY <1>0, <1>2 DEF SyncRejected, RefuseSync, EpochTriples
  <2> QED BY <2>1, AtRest DEF SyncFails, history
<1>3. CASE SyncExecute
  <2>1. epochs' \in EpochTriples /\ committed' \in Heights
    BY <1>0, <1>3, EpochTypes DEF SyncExecute
  <2>2. GoodStore(store') /\ disk' = store'
    BY <1>0, <1>3, PutBlockResultsSucceeds DEF SyncExecute, Succeeds
  <2>3. job' \in Jobs
    BY <1>3, JobChange DEF SyncExecute
  <2> QED BY <1>3, <2>1, <2>2, <2>3 DEF SyncExecute, history
<1>4. CASE StartEngine
  <2> DEFINE b == GetBlockByHeight(store, committed)
             v == 1 + IF b = None THEN committed ELSE ViewOf[b]
  <2>1. b = None \/ b \in Block
    BY DEF GetBlockByHeight, GoodStore, Stores
  <2>2. v \in Nat
    BY <2>1, BlockAssumption DEF Heights
  <2>3. view' = IF committed > 0 /\ v > view THEN v ELSE view
    BY <1>4 DEF StartEngine
  <2> HIDE DEF v
  <2>4. view' \in Nat
    BY <2>2, <2>3
  <2>5. status' \in [height : Heights, epoch : Nat]
    BY <1>4, PublishedType DEF StartEngine, EpochTriples
  <2> QED BY <1>4, <2>4, <2>5 DEF StartEngine, history
<1> QED BY <1>1, <1>2, <1>3, <1>4

(* Crashes and restarts.                                                   *)
LEMMA TypeOfCrashSteps ==
    ASSUME TypeInv, Crash \/ CrashInWal \/ CrashInPersist \/ Panic \/ Restart
    PROVE  TypeInv'
<1> USE DEF TypeInv
<1>1. ASSUME Gone, saved' \in [view : Nat, height : Heights, e : EpochTriples],
             early' \in BOOLEAN, torn' \in BOOLEAN
      PROVE  TypeInv'
  <2>1. status' \in [height : Heights, epoch : Nat]
    BY <1>1, BlockFacts DEF Gone, Published, GenesisEpoch, Heights
  <2>2. watch' \in [stage : {"off", "store", "results", "write"}, height : Heights, epoch : Nat]
        /\ watch'.stage = "off"
    BY <1>1, BlockFacts DEF Gone, WatchOff, Heights
  <2>3. 0 \in Heights
    BY BlockFacts DEF Heights
  <2>4. /\ phase' = "down" /\ view' = 1 /\ committed' = 0 /\ epochs' = GenesisEpochs
        /\ job' = Idle /\ UNCHANGED <<strayed, refusals>>
    BY <1>1 DEF Gone
  <2>5. GoodStore(store') /\ GoodStore(disk')
    BY <1>1 DEF Gone
  <2>6. crashes' \in 0..MaxCrashes
    BY <1>1, NodeAssumption DEF Gone
  <2>7. job' \in Jobs /\ epochs' \in EpochTriples
    BY <2>4, AtRest, EpochTypes
  <2> QED BY <1>1, <2>1, <2>2, <2>3, <2>4, <2>5, <2>6, <2>7
<1>2. CASE Crash \/ CrashInWal \/ Panic
  BY <1>1, <1>2 DEF Crash, CrashInWal, Panic
<1>3. CASE CrashInPersist
  <2>1. PICK k \in 1..(Fields - 1) : saved' = SavedUpTo(k)
    BY <1>3 DEF CrashInPersist
  <2>2. [cur  |-> IF k >= 3 THEN epochs.cur ELSE saved.e.cur,
         prev |-> IF k >= 4 THEN epochs.prev ELSE saved.e.prev,
         pend |-> IF k >= 5 THEN epochs.pend ELSE saved.e.pend] \in EpochTriples
    BY DEF EpochTriples
  <2>3. saved' \in [view : Nat, height : Heights, e : EpochTriples]
    BY <2>1, <2>2 DEF SavedUpTo
  <2>4. Gone /\ early' \in BOOLEAN /\ torn' \in BOOLEAN
    BY <1>3 DEF CrashInPersist
  <2> QED BY <1>1, <2>3, <2>4
<1>4. CASE Restart
  <2>1. store' = store
    BY <1>4 DEF Restart, Opened, GoodStore
  <2> QED BY <1>4, <2>1 DEF Restart, history
<1> QED BY <1>2, <1>3, <1>4

LEMMA TypeStep == ASSUME TypeInv, [Next]_vars PROVE TypeInv'
<1>1. CASE UNCHANGED vars
  BY <1>1 DEF TypeInv, vars
<1> QED BY <1>1, TypeOfStoreSteps, TypeOfCommitSteps, TypeOfSyncSteps, TypeOfCrashSteps DEF Next

(* Nothing that has disturbed the node is undone.                          *)
LEMMA DisturbanceStays == ASSUME TypeInv, [Next]_vars, Undisturbed' PROVE Undisturbed
<1> USE DEF Undisturbed
<1>1. refusals \in Nat
  BY NodeAssumption DEF TypeInv
<1>2. CASE UNCHANGED <<strayed, refusals>>
  BY <1>2
<1>3. CASE RefuseLive
  BY <1>1, <1>3 DEF RefuseLive
<1>4. ASSUME NEW b, SyncStore(b) \/ WatchStore(b) PROVE Undisturbed
  BY <1>4 DEF SyncStore, WatchStore
<1>5. ASSUME \/ \E b \in Block \ {Genesis}, anc \in BOOLEAN : PastProposal(b, anc)
             \/ \E b \in Block \ {Genesis}, anc, acc \in BOOLEAN : CurrentProposal(b, anc, acc)
             \/ \E v \in 1..MaxView : AdvanceViewTo(v)
             \/ \E b \in Block \ {Genesis} : ApplyCommit(b)
             \/ LogIntent \/ TryCommit \/ ExecuteLive \/ ProcessCommitResult
             \/ PersistState \/ LogCommitDone \/ TruncateWal
             \/ SyncRejected \/ RefuseSync \/ SyncExecute \/ StartEngine
             \/ WatchStart \/ WatchLook \/ WatchWrite \/ WatchEnd
             \/ Crash \/ CrashInWal \/ CrashInPersist \/ Panic \/ Restart
      PROVE  UNCHANGED <<strayed, refusals>>
  BY <1>5 DEF PastProposal, CurrentProposal, AdvanceViewTo, ApplyCommit, LogIntent, TryCommit,
     ExecuteLive, ProcessCommitResult, PersistState, LogCommitDone, TruncateWal, SyncRejected,
     RefuseSync, SyncFails, SyncExecute, StartEngine, WatchStart, WatchLook, WatchWrite,
     WatchEnd, Crash, CrashInWal, CrashInPersist, Panic, Gone, Restart, history
<1>6. CASE UNCHANGED vars
  BY <1>2, <1>6 DEF vars
<1> QED BY <1>2, <1>3, <1>4, <1>5, <1>6 DEF Next

-----------------------------------------------------------------------------
LEMMA InitialNode == Init => NodeInv
<1> SUFFICES ASSUME Init PROVE NodeInv
  OBVIOUS
<1> USE DEF Init
<1>1. GoodStore(store) /\ disk = store /\ store.blocks = {Genesis} /\ store.index[0] = Genesis
  <2> DEFINE s == EmptyStore
  <2>1. s \in Stores /\ s.blocks = {} /\ s.qcs[0] = None /\ HeightOf[Genesis] = 0 /\ 0 \in Heights
        /\ \A h \in Heights : s.index[h] = None
    BY BlockFacts DEF EmptyStore, Stores, Heights
  <2>2. store = PutBlock(s, Genesis)
    BY <2>1 DEF Opened
  <2>3. store \in Stores
    BY <2>1, <2>2, BlockFacts, SMTT(30) DEF PutBlock, Stores
  <2>4. store.blocks = {Genesis}
    BY <2>1, <2>2 DEF PutBlock, Stores
  <2>5. \A h \in Heights : store.index[h] = IF h = 0 THEN Genesis ELSE None
    BY <2>1, <2>2 DEF PutBlock, Stores
  <2> QED BY <2>1, <2>3, <2>4, <2>5 DEF GoodStore
<1>2. saved.height = 0 /\ saved \in [view : Nat, height : 0..FinalHeight, e : EpochTriples]
  BY EpochTypes, ChainFacts DEF Blank
<1>3. Types
  <2>1. app \in Seq(Executions)
    OBVIOUS
  <2>2. view \in Nat /\ committed \in 0..FinalHeight /\ crashes \in 0..MaxCrashes
    BY ChainFacts, NodeAssumption
  <2>3. epochs \in EpochTriples /\ job \in Jobs /\ watch \in Watches /\ status \in Statuses
    BY AtRest, EpochTypes, ChainFacts DEF Published, GenesisEpoch, Statuses
  <2>4. phase \in {"sync", "running", "down", "halted"} /\ early \in BOOLEAN /\ torn \in BOOLEAN
    OBVIOUS
  <2>5. GoodStore(store) /\ GoodStore(disk)
    BY <1>1
  <2> HIDE DEF Init
  <2> QED BY <1>2, <2>1, <2>2, <2>3, <2>4, <2>5 DEF Types
<1>4. JobsFitPhase /\ TipsAreCommitted /\ CheckpointIsClose /\ LogIsOpen /\ ExecutionsAreKnown
  BY <1>2, AtRest DEF JobsFitPhase, TipsAreCommitted, CheckpointIsClose, LogIsOpen,
     ExecutionsAreKnown, Commits, Up
<1>5. StoreIsSafe
  BY <1>1, <1>2, AtRest, ChainFacts DEF StoreIsSafe, Secure, Covered, Pinned, Commits
<1>6. ExecutedIsCommitted
  BY ChainFacts DEF ExecutedIsCommitted
<1> QED BY <1>3, <1>4, <1>5, <1>6 DEF NodeInv

(* A step after which the node is still undisturbed.                       *)
LEMMA NodeStep == ASSUME NodeInv, TypeInv, [Next]_vars, Undisturbed' PROVE NodeInv'
<1>1. CASE Next
  <2>1. CASE \E b \in Block \ {Genesis}, anc \in BOOLEAN : PastProposal(b, anc)
    BY <2>1, PastProposalStep
  <2>2. CASE \E b \in Block \ {Genesis}, anc, acc \in BOOLEAN : CurrentProposal(b, anc, acc)
    BY <2>2, CurrentProposalStep
  <2>3. CASE \E v \in 1..MaxView : AdvanceViewTo(v)
    BY <2>3, AdvanceViewToStep
  <2>4. CASE \E b \in Block \ {Genesis} : ApplyCommit(b)
    BY <2>4, ApplyCommitStep
  <2>5. CASE LogIntent \/ TryCommit \/ ExecuteLive \/ ProcessCommitResult
    BY <2>5, LogIntentStep, TryCommitStep, ExecuteLiveStep, ProcessCommitResultStep
  <2>10. CASE RefuseLive
    BY <2>10 DEF RefuseLive, Undisturbed, TypeInv
  <2>6. CASE PersistState \/ LogCommitDone \/ TruncateWal
    BY <2>6, PersistStateStep, LogCommitDoneStep, TruncateWalStep
  <2>7. CASE SyncRejected \/ RefuseSync \/ SyncExecute \/ StartEngine
    BY <2>7, SyncRejectedStep, RefuseSyncStep, SyncExecuteStep, StartEngineStep
  <2>8. CASE WatchStart \/ WatchLook \/ WatchWrite \/ WatchEnd
    BY <2>8, WatcherStep
  <2>11. CASE \E b \in Block \ {Genesis} : SyncStore(b)
    <3>1. PICK b \in Block \ {Genesis} : SyncStore(b)
      BY <2>11
    <3>2. b \in Branch
      BY <3>1 DEF SyncStore, Undisturbed
    <3> QED BY <3>1, <3>2, SyncStoreStep
  <2>12. CASE \E b \in Block \ {Genesis} : WatchStore(b)
    <3>1. PICK b \in Block \ {Genesis} : WatchStore(b)
      BY <2>12
    <3>2. b \in Branch
      BY <3>1 DEF WatchStore, Undisturbed
    <3> QED BY <3>1, <3>2, WatcherStep
  <2>9. CASE Crash \/ CrashInWal \/ CrashInPersist \/ Panic \/ Restart
    BY <2>9, CrashStep, CrashInWalStep, CrashInPersistStep, PanicStep, RestartStep
  <2> QED BY <1>1, <2>1, <2>2, <2>3, <2>4, <2>5, <2>6, <2>7, <2>8, <2>9, <2>10, <2>11, <2>12 DEF Next
<1>2. CASE UNCHANGED vars
  <2> USE <1>2 DEF NodeInv, vars
  <2>1. Types' /\ JobsFitPhase' /\ TipsAreCommitted' /\ CheckpointIsClose'
    BY DEF Types, JobsFitPhase, TipsAreCommitted, CheckpointIsClose, Commits, Up
  <2>2. LogIsOpen' /\ ExecutionsAreKnown' /\ StoreIsSafe' /\ ExecutedIsCommitted'
    BY DEF LogIsOpen, ExecutionsAreKnown, StoreIsSafe, Secure, ExecutedIsCommitted, Commits, Up
  <2> QED BY <2>1, <2>2
<1> QED BY <1>1, <1>2

LEMMA TypeInvariant == Spec => []TypeInv
<1>1. Init => TypeInv
  <2> SUFFICES ASSUME Init PROVE TypeInv
    OBVIOUS
  <2>1. Types
    BY InitialNode DEF NodeInv
  <2>2. refusals \in 0..MaxRefusals /\ strayed \in BOOLEAN
    <3>1. refusals = 0
      BY DEF Init
    <3>2. refusals \in 0..MaxRefusals
      BY <3>1, NodeAssumption
    <3>3. strayed \in BOOLEAN
      BY DEF Init
    <3> QED BY <3>2, <3>3
  <2>3. watch = WatchOff /\ saved = Blank
    BY DEF Init
  <2>4. 0..FinalHeight \subseteq Heights
    BY ChainFacts DEF Heights
  <2> QED BY <2>1, <2>2, <2>3, <2>4, AtRest DEF Types, TypeInv, Statuses, Watches
<1> QED BY <1>1, TypeStep, PTL DEF Spec

(* Every state of an undisturbed node satisfies the invariant.             *)
LEMMA NodeInvariant == Spec => [](Undisturbed => NodeInv)
<1>1. TypeInv /\ (Undisturbed => NodeInv) /\ [Next]_vars => (Undisturbed => NodeInv)'
  BY NodeStep, DisturbanceStays
<1> QED BY <1>1, InitialNode, TypeInvariant, PTL DEF Spec

-----------------------------------------------------------------------------
(***************************************************************************)
(* The type invariant: put_block and put_commit_qc never leave the index   *)
(* by height dangling, whatever tree of blocks is proposed.                *)
(***************************************************************************)
THEOREM NodeTypeCorrect == Spec => []TypeOK
<1>1. TypeInv => TypeOK
  <2> SUFFICES ASSUME TypeInv PROVE TypeOK
    OBVIOUS
  <2>1. GoodStore(store) /\ GoodStore(disk)
    BY DEF TypeInv
  <2>2. job.kind \in {"idle", "live", "view", "sync"} /\ job.tip \in Block
    BY DEF TypeInv, Jobs
  <2> QED BY <2>1, <2>2 DEF TypeInv, TypeOK, GoodStore
<1> QED BY <1>1, TypeInvariant, PTL

(***************************************************************************)
(* The application executes the committed branch in order and each block   *)
(* at most once, through live commits, replays, lost answers of            *)
(* execute_block, crashes at any moment and restarts, until a commit is    *)
(* refused after its execution or a peer serves a block off the branch.    *)
(***************************************************************************)
THEOREM ExecutedOnceInOrder == Spec => []AppFollowsChain
<1>1. (Undisturbed => NodeInv) => AppFollowsChain
  BY DEF NodeInv, AppFollowsChain
<1> QED BY <1>1, NodeInvariant, PTL

(***************************************************************************)
(* A node that is up and not inside a commit has checkpointed exactly what *)
(* its application has executed: the write-ahead log turns away every      *)
(* restart in which the two have drifted apart.  A live commit refused     *)
(* after its execution is the exception, and no restart repairs it.        *)
(***************************************************************************)
THEOREM CheckpointIsExact == Spec => []CheckpointMatchesApp
<1>1. (Undisturbed => NodeInv) => CheckpointMatchesApp
  BY DEF NodeInv, CheckpointMatchesApp, CheckpointIsClose, ExecutionsAreKnown, Commits, Up
<1> QED BY <1>1, NodeInvariant, PTL

(* Between two executions the index leads from the committed height to the *)
(* committed block.                                                        *)
LEMMA CommittedTip ==
    ASSUME NodeInv, Up, job.stage # "execute"
    PROVE  Pinned(store, committed)
<1>1. CASE Commits({"persist"})
  BY <1>1 DEF NodeInv, StoreIsSafe, Secure
<1>2. CASE ~Commits({"persist"})
  BY <1>2, JobFacts DEF Secure
<1> QED BY <1>1, <1>2

(***************************************************************************)
(* Whatever proposals, certificates of other branches inside them and      *)
(* writes of the watcher come between, get_block_by_height answers with    *)
(* the committed block where try_commit and replay_blocks look for it,     *)
(* until a peer serves a certified block that was not committed.           *)
(***************************************************************************)
THEOREM CommittedTipStays == Spec => []TipIsCommitted
<1>1. (Undisturbed => NodeInv) => TipIsCommitted
  BY CommittedTip DEF TipIsCommitted, Pinned, GetBlockByHeight, Up
<1> QED BY <1>1, NodeInvariant, PTL

(***************************************************************************)
(* Blocks and results up to the checkpoint are durable before the          *)
(* checkpoint is: vsdb_flush comes before the first of its writes on every *)
(* path on which no commit is refused and no peer strays.                  *)
(***************************************************************************)
THEOREM CheckpointIsCovered == Spec => []StoreCoversCheckpoint
<1>1. (Undisturbed => NodeInv) => StoreCoversCheckpoint
  BY DEF NodeInv, StoreIsSafe, Secure, Covered, StoreCoversCheckpoint
<1> QED BY <1>1, NodeInvariant, PTL

(***************************************************************************)
(* The sync responder and verify_header of a running node, asked about the *)
(* committed height and outside the execution of a batch, answer from the  *)
(* committed branch, although certificates of other branches are kept in   *)
(* the same store; no commit refused and no peer astray.                   *)
(***************************************************************************)
THEOREM HeadersAreSound == Spec => []HeadersExtendChain
<1>1. ASSUME NodeInv, phase = "running", job.stage # "execute"
      PROVE  /\ status.height = committed
             /\ committed > 0 =>
                   Served(committed) = [block |-> Chain[committed], qc |-> Chain[committed]]
             /\ \A b \in Block \ {Genesis} : VerifyHeader(b) =>
                   /\ HeightOf[b] = committed => b = Chain[committed]
                   /\ HeightOf[b] > committed => Parent[b] = Chain[committed]
  <2>1. Pinned(store, committed) /\ committed \in Nat /\ status.height = committed
    BY <1>1, CommittedTip, ChainFacts DEF Up, NodeInv, Types, ExecutionsAreKnown
  <2>2. /\ GetBlockByHeight(store, committed) = Chain[committed]
        /\ committed > 0 => store.qcs[committed] = Chain[committed]
    BY <2>1 DEF Pinned, GetBlockByHeight
  <2>3. ASSUME NEW b \in Block \ {Genesis}, VerifyHeader(b)
        PROVE  /\ HeightOf[b] = committed => b = Chain[committed]
               /\ HeightOf[b] > committed => Parent[b] = Chain[committed]
    <3>1. HeightOf[b] \in Nat /\ HeightOf[b] > 0
      BY BlockFacts
    <3>2. CASE HeightOf[b] <= committed
      BY <2>1, <2>2, <2>3, <3>1, <3>2 DEF VerifyHeader
    <3>3. CASE ~(HeightOf[b] <= committed)
      BY <2>1, <2>2, <2>3, <3>1, <3>3 DEF VerifyHeader, LightVerify
    <3> QED BY <3>2, <3>3
  <2> QED BY <2>1, <2>2, <2>3 DEF Served
<1>2. (Undisturbed => NodeInv) => HeadersExtendChain
  BY <1>1 DEF HeadersExtendChain
<1> QED BY <1>2, NodeInvariant, PTL

-----------------------------------------------------------------------------
(* What the chain determines.                                              *)

EpochsAt == ChainEpochs(FinalTip)

(* ChainEpochs follows its definition on the committed branch.             *)
LEMMA ChainEpochsDefinition ==
    /\ EpochsAt[0] = GenesisEpochs
    /\ \A h \in 1..FinalHeight :
           EpochsAt[h] = AfterExecution(ActivateAt(EpochsAt[h - 1], Chain[h]), Chain[h])
    /\ \A h \in 0..FinalHeight : EpochsAt[h] \in EpochTriples
<1> DEFINE ends(h) == h = 0 \/ h > FinalHeight
           next(v, h) == AfterExecution(ActivateAt(v, Chain[h]), Chain[h])
           level == [h \in Heights |-> h]
           pred == [h \in Heights |-> IF h = 0 THEN 0 ELSE h - 1]
           base == [h \in Heights |-> GenesisEpochs]
           step == [p \in Heights \X EpochTriples |->
                       IF ends(p[1]) THEN GenesisEpochs ELSE next(p[2], p[1])]
           iter(f) == [h \in Heights |-> IF h = 0 \/ h > FinalHeight THEN GenesisEpochs
                         ELSE AfterExecution(ActivateAt(f[h - 1], Chain[h]), Chain[h])]
<1>0. /\ MaxHeight \in Nat /\ Heights = 0..MaxHeight /\ FinalHeight \in Nat
      /\ FinalHeight <= MaxHeight /\ 0 \in Heights
  BY BlockFacts, ChainFacts DEF Heights
<1>1. ASSUME NEW v \in EpochTriples, NEW h \in Heights, ~ends(h) PROVE next(v, h) \in EpochTriples
  <2>1. Chain[h] \in Block
    BY <1>0, <1>1, ChainFacts
  <2> QED BY <2>1, EpochTypes
<1>2. IsRecursion(Heights, EpochTriples, MaxHeight, level, pred, base, step)
  <2>1. /\ MaxHeight \in Nat /\ level \in [Heights -> 0..MaxHeight]
        /\ pred \in [Heights -> Heights]
        /\ \A d \in Heights : level[d] # 0 => level[pred[d]] < level[d]
    BY <1>0
  <2>2. base \in [Heights -> EpochTriples]
    BY EpochTypes
  <2>3. step \in [Heights \X EpochTriples -> EpochTriples]
    <3>1. ASSUME NEW p \in Heights \X EpochTriples
          PROVE  (IF ends(p[1]) THEN GenesisEpochs ELSE next(p[2], p[1])) \in EpochTriples
      <4>1. p[1] \in Heights /\ p[2] \in EpochTriples
        OBVIOUS
      <4> HIDE DEF next, ends
      <4> QED BY <4>1, <1>1, EpochTypes
    <3> HIDE DEF next, ends
    <3> QED BY <3>1
  <2> HIDE DEF level, pred, base, step
  <2> QED BY <2>1, <2>2, <2>3 DEF IsRecursion
<1>3. PICK g : FollowsRecursion(g, Heights, EpochTriples, level, pred, base, step)
  <2> HIDE DEF level, pred, base, step
  <2> QED BY <1>2, LevelRecursion
<1>4. ASSUME NEW h \in Heights
      PROVE  /\ g[h] \in EpochTriples
             /\ g[h] = IF level[h] = 0 THEN base[h] ELSE step[<<h, g[pred[h]]>>]
  <2> HIDE DEF level, pred, base, step
  <2> QED BY <1>3 DEF FollowsRecursion
<1>5. ASSUME NEW h \in Heights PROVE g[h] = iter(g)[h]
  <2>1. level[h] = h /\ base[h] = GenesisEpochs /\ (h # 0 => pred[h] = h - 1 /\ h - 1 \in Heights)
    BY <1>0
  <2>2. CASE h = 0
    <3>1. g[h] = GenesisEpochs
      <4> HIDE DEF level, pred, base, step
      <4> QED BY <1>4, <2>1, <2>2
    <3> QED BY <2>2, <3>1
  <2>3. CASE h # 0
    <3> DEFINE v == g[h - 1]
    <3>1. v \in EpochTriples
      BY <1>4, <2>1, <2>3
    <3>2. g[h] = step[<<h, v>>]
      <4> HIDE DEF level, pred, base, step
      <4> QED BY <1>4, <2>1, <2>3
    <3>3. step[<<h, v>>] = IF ends(h) THEN GenesisEpochs ELSE next(v, h)
      <4> HIDE DEF next, ends, v
      <4> QED BY <3>1
    <3> QED BY <2>3, <3>2, <3>3
  <2> QED BY <2>2, <2>3
<1>6. g = iter(g)
  <2>1. g = [h \in Heights |-> g[h]]
    <3> HIDE DEF level, pred, base, step
    <3> QED BY <1>3 DEF FollowsRecursion
  <2> HIDE DEF level, pred, base, step
  <2> QED BY <2>1, <1>5
<1> DEFINE G == CHOOSE f : f = iter(f)
<1>7. G = iter(G)
  <2> HIDE DEF iter
  <2> QED BY <1>6
<1>8. EpochsAt = G
  BY DEF EpochsAt, ChainEpochs, FinalHeight, Chain
<1>9. \A h \in Heights : G[h] = IF ends(h) THEN GenesisEpochs ELSE next(G[h - 1], h)
  <2> HIDE DEF G
  <2> QED BY <1>7
<1> HIDE DEF G
<1> DEFINE P == {n \in Nat : n \in Heights => G[n] \in EpochTriples}
<1>10. 0 \in P
  BY <1>0, <1>9, EpochTypes
<1>11. ASSUME NEW n \in Nat, n \in P PROVE n + 1 \in P
  <2> SUFFICES ASSUME n + 1 \in Heights PROVE G[n + 1] \in EpochTriples
    OBVIOUS
  <2>1. n \in Heights /\ (n + 1) - 1 = n
    BY <1>0
  <2>2. G[n] \in EpochTriples
    BY <1>11, <2>1
  <2>3. G[n + 1] = IF ends(n + 1) THEN GenesisEpochs ELSE next(G[n], n + 1)
    BY <1>9, <2>1
  <2> HIDE DEF ends, next
  <2> QED BY <1>1, <2>2, <2>3, EpochTypes
<1>12. Nat \subseteq P
  <2> HIDE DEF P
  <2> QED BY <1>10, <1>11, NumberInduction
<1>13. \A h \in 0..FinalHeight : G[h] \in EpochTriples
  BY <1>0, <1>12
<1>14. G[0] = GenesisEpochs
  BY <1>0, <1>9
<1>15. \A h \in 1..FinalHeight : G[h] = next(G[h - 1], h)
  BY <1>0, <1>9
<1> QED BY <1>8, <1>13, <1>14, <1>15

(* The epoch in force at a height has started by then, and an epoch that   *)
(* the chain determines is one.                                            *)
LEMMA ChainEpochsFacts ==
    ASSUME NEW h \in 0..FinalHeight
    PROVE  /\ EpochsAt[h].cur.start <= ViewOf[Chain[h]]
           /\ EpochsAt[h].cur # NoEpoch
<1> DEFINE Good(n) == LET c == EpochsAt[n]
                      IN  /\ c.cur.start <= ViewOf[Chain[n]]
                          /\ Genesis \notin c.cur.applied
                          /\ c.pend # NoEpoch => Genesis \notin c.pend.applied
           P == {n \in Nat : n \in 0..FinalHeight => Good(n)}
<1>0. FinalHeight \in Nat
  BY ChainFacts
<1>1. 0 \in P
  <2>1. EpochsAt[0] = GenesisEpochs /\ Chain[0] = Genesis /\ ViewOf[Genesis] \in Nat
    BY ChainEpochsDefinition, ChainFacts, BlockAssumption
  <2> QED BY <2>1 DEF GenesisEpochs, GenesisEpoch
<1>2. ASSUME NEW n \in Nat, n \in P PROVE n + 1 \in P
  <2> SUFFICES ASSUME n + 1 \in 0..FinalHeight PROVE Good(n + 1)
    OBVIOUS
  <2> DEFINE b == Chain[n + 1]
             c == EpochsAt[n]
             a == ActivateAt(c, b)
             e == AfterExecution(a, b)
  <2>1. n \in 0..FinalHeight /\ n + 1 \in 1..FinalHeight /\ (n + 1) - 1 = n
    BY <1>0
  <2>2. /\ b \in Block /\ b # Genesis /\ ViewOf[b] \in Nat /\ ViewOf[Chain[n]] \in Nat
        /\ ViewOf[Chain[n]] < ViewOf[b]
    BY <2>1, ChainFacts, BranchAssumption, BlockAssumption
  <2>3. c \in EpochTriples /\ EpochsAt[n + 1] = e /\ Good(n)
    BY <1>2, <2>1, ChainEpochsDefinition
  <2> HIDE DEF b, c
  <2>4. /\ c.cur \in Epoch /\ c.pend \in Epoch /\ c.cur.start \in Nat /\ c.pend.start \in Nat
    BY <2>3 DEF EpochTriples, Epoch
  <2>5. /\ a \in EpochTriples /\ a.cur.start <= ViewOf[b] /\ Genesis \notin a.cur.applied
        /\ a.pend # NoEpoch => Genesis \notin a.pend.applied
    <3>1. a \in EpochTriples
      BY <2>2, <2>3, EpochTypes
    <3>2. CASE Activates(c.pend, ViewOf[b])
      <4>1. a.cur = c.pend /\ a.pend = NoEpoch
        BY <3>2 DEF ActivateAt
      <4>2. c.pend # NoEpoch /\ ViewOf[b] >= c.pend.start
        BY <3>2 DEF Activates
      <4> HIDE DEF a
      <4>3. Genesis \notin c.pend.applied
        BY <2>3, <4>2 DEF c
      <4> QED BY <2>2, <2>4, <3>1, <4>1, <4>2, <4>3
    <3>3. CASE ~Activates(c.pend, ViewOf[b])
      <4>1. a = c
        BY <3>3 DEF ActivateAt
      <4>2. c.cur.start <= ViewOf[Chain[n]] /\ Genesis \notin c.cur.applied
            /\ (c.pend # NoEpoch => Genesis \notin c.pend.applied)
        BY <2>3 DEF c
      <4> HIDE DEF a
      <4> QED BY <2>2, <2>4, <3>1, <4>1, <4>2
    <3> QED BY <3>2, <3>3
  <2> HIDE DEF a
  <2>6. e.cur = a.cur /\ (e.pend # NoEpoch => Genesis \notin e.pend.applied)
    <3>1. CASE b \in Updates
      <4> DEFINE p == ChainedPendingEpoch(a.cur, a.pend, b)
      <4>1. e.cur = a.cur /\ e.pend = p
        BY <2>5, <3>1 DEF AfterExecution, EpochTriples
      <4>2. Genesis \notin p.applied
        BY <2>2, <2>5 DEF ChainedPendingEpoch
      <4> QED BY <4>1, <4>2
    <3>2. CASE b \notin Updates
      BY <2>5, <3>2 DEF AfterExecution
    <3> QED BY <3>1, <3>2
  <2> HIDE DEF e
  <2> QED BY <2>3, <2>5, <2>6 DEF b
<1>3. Nat \subseteq P
  <2> HIDE DEF P
  <2> QED BY <1>1, <1>2, NumberInduction
<1>4. Good(h)
  BY <1>0, <1>3
<1>5. NoEpoch.applied = {Genesis}
  BY DEF NoEpoch
<1> QED BY <1>4, <1>5

(* The epochs that the chain determines after height h ...                 *)
AsChain(e, h) == e.cur = EpochsAt[h].cur /\ e.pend = EpochsAt[h].pend

(* ... or those after the activation of the pending one by a view, with no *)
(* updates left on the branch that would have replaced it.                 *)
Ahead(e, h) ==
    /\ EpochsAt[h].pend # NoEpoch
    /\ e.cur = EpochsAt[h].pend /\ e.prev = EpochsAt[h].cur /\ e.pend = NoEpoch
    /\ \A k \in (h + 1)..FinalHeight :
           Chain[k] \in Updates => ViewOf[Chain[k]] >= EpochsAt[h].pend.start

Follows(e, h) == AsChain(e, h) \/ Ahead(e, h)

(* What the execution of the next block starts from.                       *)
LEMMA NextBlock ==
    ASSUME NEW h \in 0..FinalHeight, h < FinalHeight
    PROVE  LET b == Chain[h + 1]
               a == ActivateAt(EpochsAt[h], b)
           IN  /\ b \in Block /\ ViewOf[b] \in Nat /\ h + 1 \in 1..FinalHeight
               /\ EpochsAt[h] \in EpochTriples /\ a \in EpochTriples
               /\ EpochsAt[h + 1] = AfterExecution(a, b)
               /\ a.cur.start <= ViewOf[b] /\ a.cur.start \in Nat
               /\ ContextEpoch(a, b) = a.cur
               /\ ChainContext(FinalTip)[h + 1] = a.cur
<1> DEFINE b == Chain[h + 1]
           c == EpochsAt[h]
           a == ActivateAt(c, b)
<1>1. FinalHeight \in Nat /\ h + 1 \in 1..FinalHeight /\ (h + 1) - 1 = h /\ h \in Nat
  BY ChainFacts
<1>2. /\ b \in Block /\ ViewOf[b] \in Nat /\ ViewOf[Chain[h]] \in Nat
      /\ ViewOf[Chain[h]] < ViewOf[b]
  BY <1>1, ChainFacts, BranchAssumption, BlockAssumption
<1>3. c \in EpochTriples /\ EpochsAt[h + 1] = AfterExecution(a, b)
  BY <1>1, ChainEpochsDefinition
<1>4. c.cur.start <= ViewOf[Chain[h]]
  BY ChainEpochsFacts
<1> HIDE DEF b, c
<1>5. a \in EpochTriples
  BY <1>2, <1>3, EpochTypes
<1>6. /\ c.cur.start \in Nat /\ a.cur.start \in Nat /\ c.pend.start \in Nat
  BY <1>3, <1>5 DEF EpochTriples, Epoch
<1>7. a.cur.start <= ViewOf[b]
  <2>1. CASE Activates(c.pend, ViewOf[b])
    <3>1. a.cur = c.pend
      BY <2>1 DEF ActivateAt
    <3> HIDE DEF a
    <3> QED BY <1>2, <1>6, <2>1, <3>1 DEF Activates
  <2>2. CASE ~Activates(c.pend, ViewOf[b])
    <3>1. a = c
      BY <2>2 DEF ActivateAt
    <3> HIDE DEF a
    <3> QED BY <1>2, <1>4, <1>6, <3>1 DEF c
  <2> QED BY <2>1, <2>2
<1>8. ContextEpoch(a, b) = a.cur
  <2> HIDE DEF a
  <2> QED BY <1>2, <1>6, <1>7 DEF ContextEpoch
<1>9. ChainContext(FinalTip)[h + 1] = ContextEpoch(a, b)
  BY <1>1 DEF ChainContext, a, b, c, EpochsAt, Chain, FinalHeight
<1> QED BY <1>1, <1>2, <1>3, <1>5, <1>6, <1>7, <1>8, <1>9 DEF b, c

(* Only the epoch before the current one can tell two nodes apart.         *)
LEMMA SameEpochs ==
    ASSUME NEW e \in EpochTriples, NEW c \in EpochTriples, e.cur = c.cur, e.pend = c.pend,
           NEW b \in Block
    PROVE  /\ ActivateAt(e, b).cur = ActivateAt(c, b).cur
           /\ ActivateAt(e, b).pend = ActivateAt(c, b).pend
           /\ AfterExecution(e, b).cur = AfterExecution(c, b).cur
           /\ AfterExecution(e, b).pend = AfterExecution(c, b).pend
<1>1. /\ ActivateAt(e, b).cur = ActivateAt(c, b).cur
      /\ ActivateAt(e, b).pend = ActivateAt(c, b).pend
  <2>1. CASE Activates(e.pend, ViewOf[b])
    BY <2>1 DEF ActivateAt
  <2>2. CASE ~Activates(e.pend, ViewOf[b])
    BY <2>2 DEF ActivateAt
  <2> QED BY <2>1, <2>2
<1>2. /\ AfterExecution(e, b).cur = AfterExecution(c, b).cur
      /\ AfterExecution(e, b).pend = AfterExecution(c, b).pend
  <2>1. CASE b \in Updates
    BY <2>1 DEF AfterExecution, EpochTriples
  <2>2. CASE b \notin Updates
    BY <2>2 DEF AfterExecution
  <2> QED BY <2>1, <2>2
<1> QED BY <1>1, <1>2

(* A node with the epochs of the chain executes the next block as the      *)
(* chain determines, and has the epochs of the chain afterwards.           *)
LEMMA ExecuteAsChain ==
    ASSUME NEW h \in 0..FinalHeight, h < FinalHeight, NEW e \in EpochTriples, AsChain(e, h)
    PROVE  LET b == Chain[h + 1]
               a == ActivateAt(e, b)
           IN  /\ a.cur = ChainContext(FinalTip)[h + 1]
               /\ ContextEpoch(a, b) = ChainContext(FinalTip)[h + 1]
               /\ AsChain(AfterExecution(a, b), h + 1)
<1> DEFINE b == Chain[h + 1]
           a == ActivateAt(e, b)
           c == ActivateAt(EpochsAt[h], b)
<1>1. /\ b \in Block /\ ViewOf[b] \in Nat /\ EpochsAt[h] \in EpochTriples /\ c \in EpochTriples
      /\ EpochsAt[h + 1] = AfterExecution(c, b) /\ c.cur.start <= ViewOf[b] /\ c.cur.start \in Nat
      /\ ChainContext(FinalTip)[h + 1] = c.cur
  BY NextBlock
<1> HIDE DEF b
<1>2. a.cur = c.cur /\ a.pend = c.pend
  BY <1>1, SameEpochs DEF AsChain
<1>3. a \in EpochTriples
  BY <1>1, EpochTypes
<1> HIDE DEF a, c
<1>4. ContextEpoch(a, b) = a.cur
  BY <1>1, <1>2 DEF ContextEpoch
<1>5. AsChain(AfterExecution(a, b), h + 1)
  BY <1>1, <1>2, <1>3, SameEpochs DEF AsChain
<1> QED BY <1>1, <1>2, <1>4, <1>5 DEF a, b

(* A node that is ahead executes blocks of earlier views under the epoch   *)
(* before the current one, and joins the chain with the first of a later   *)
(* view; a certificate that names its current epoch is of such a view.     *)
LEMMA ExecuteAhead ==
    ASSUME NEW h \in 0..FinalHeight, h < FinalHeight, NEW e \in EpochTriples, Ahead(e, h)
    PROVE  LET b == Chain[h + 1]
           IN  /\ ActivateAt(e, b) = e
               /\ ContextEpoch(e, b) = ChainContext(FinalTip)[h + 1]
               /\ \/ AsChain(AfterExecution(e, b), h + 1)
                  \/ AfterExecution(e, b) = e /\ Ahead(e, h + 1)
               /\ CertEpoch[b] = e.cur.number =>
                      /\ e.cur = ChainContext(FinalTip)[h + 1]
                      /\ AsChain(AfterExecution(e, b), h + 1)
<1> DEFINE b == Chain[h + 1]
           c == EpochsAt[h]
           a == ActivateAt(c, b)
<1>1. /\ b \in Block /\ ViewOf[b] \in Nat /\ c \in EpochTriples /\ a \in EpochTriples
      /\ EpochsAt[h + 1] = AfterExecution(a, b) /\ a.cur.start <= ViewOf[b] /\ a.cur.start \in Nat
      /\ ChainContext(FinalTip)[h + 1] = a.cur
  BY NextBlock
<1>2. /\ c.pend # NoEpoch /\ e.cur = c.pend /\ e.prev = c.cur /\ e.pend = NoEpoch
      /\ h + 1 \in (h + 1)..FinalHeight /\ h + 1 \in 1..FinalHeight /\ (h + 1) - 1 = h
      /\ b \in Updates => ViewOf[b] >= c.pend.start
      /\ c.pend.start \in Nat
  <2>1. h + 1 \in (h + 1)..FinalHeight /\ h + 1 \in 1..FinalHeight /\ (h + 1) - 1 = h
    BY ChainFacts
  <2>2. c.pend.start \in Nat
    BY <1>1 DEF EpochTriples, Epoch
  <2> QED BY <2>1, <2>2 DEF Ahead
<1>3. c.cur # NoEpoch
  BY ChainEpochsFacts
<1>4. ViewOf[b] < c.pend.start => CertEpoch[b] # c.pend.number
  BY <1>2, BranchAssumption DEF EpochsAt
<1>5. ActivateAt(e, b) = e
  BY <1>2 DEF ActivateAt, Activates
<1>6. CASE ViewOf[b] >= c.pend.start
  <2>1. a.cur = c.pend /\ a.pend = NoEpoch
    <3> HIDE DEF b, c
    <3> QED BY <1>2, <1>6 DEF ActivateAt, Activates
  <2> HIDE DEF a, b, c
  <2>2. ContextEpoch(e, b) = a.cur
    BY <1>1, <1>2, <1>6, <2>1 DEF ContextEpoch
  <2>3. AsChain(AfterExecution(e, b), h + 1)
    BY <1>1, <1>2, <2>1, SameEpochs DEF AsChain
  <2> QED BY <1>1, <1>2, <1>5, <2>1, <2>2, <2>3 DEF b
<1>7. CASE ViewOf[b] < c.pend.start
  <2>1. b \notin Updates
    <3> HIDE DEF b, c
    <3> QED BY <1>1, <1>2, <1>7
  <2>2. a = c
    <3> HIDE DEF b, c
    <3> QED BY <1>1, <1>2, <1>7 DEF ActivateAt, Activates
  <2>3. EpochsAt[h + 1] = c /\ AfterExecution(e, b) = e
    <3> HIDE DEF a, b, c
    <3> QED BY <1>1, <2>1, <2>2 DEF AfterExecution
  <2>4. ContextEpoch(e, b) = a.cur
    <3> HIDE DEF a, b, c
    <3> QED BY <1>2, <1>3, <1>7, <2>2 DEF ContextEpoch
  <2>5. Ahead(e, h + 1)
    <3>1. \A k \in ((h + 1) + 1)..FinalHeight : k \in (h + 1)..FinalHeight
      BY ChainFacts
    <3> QED BY <2>3, <3>1 DEF Ahead
  <2>6. CertEpoch[b] # e.cur.number
    <3> HIDE DEF a, b, c
    <3> QED BY <1>2, <1>4, <1>7
  <2> QED BY <1>1, <1>5, <2>3, <2>4, <2>5, <2>6
<1>8. ViewOf[b] >= c.pend.start \/ ViewOf[b] < c.pend.start
  <2> HIDE DEF b, c
  <2> QED BY <1>1, <1>2
<1> QED BY <1>6, <1>7, <1>8

-----------------------------------------------------------------------------
(* The epochs of a node.                                                   *)

Executing == job.kind = "live" /\ job.stage = "execute"

(* The batch in hand; the epoch before the current one is restored from    *)
(* the memory if no block of the batch activated another.                  *)
BatchFollows ==
    \/ AsChain(job.e, committed)
    \/ Ahead(job.e, committed) /\ ~job.act /\ job.e.prev = epochs.prev

(* The checkpoint, the memory and the batch in hand follow the chain.      *)
EpochsKept ==
    /\ Follows(saved.e, saved.height)
    /\ Up /\ ~Executing => Follows(epochs, committed)
    /\ Executing => BatchFollows
    /\ job.kind = "live" /\ job.stage \in {"intent", "walk"} => ~job.act
    /\ job.kind = "sync" /\ job.stage \in {"intent", "execute"} =>
           VerifyVoteQC(job.tip, ReplayEpochs(job.tip).cur.number)
    /\ EpochsAgree

EpochsInv == ~early /\ ~torn => EpochsKept

LEMMA InitialEpochs == Init => EpochsInv
<1> SUFFICES ASSUME Init PROVE EpochsInv
  OBVIOUS
<1>1. saved.e = GenesisEpochs /\ saved.height = 0 /\ epochs = GenesisEpochs /\ committed = 0
      /\ job = Idle /\ app = <<>>
  BY DEF Init, Blank
<1>2. Follows(GenesisEpochs, 0)
  BY ChainEpochsDefinition DEF Follows, AsChain
<1>3. EpochsAgree
  BY <1>1 DEF EpochsAgree
<1> QED BY <1>1, <1>2, <1>3, AtRest DEF EpochsInv, EpochsKept, Executing

(* What the node keeps of its epochs does not change with the rest.        *)
LEMMA EpochsFrame ==
    ASSUME EpochsInv, UNCHANGED <<committed, epochs, saved, app, early, torn>>,
           Up' => Up /\ ~Executing,
           ~Executing',
           job'.kind = "live" /\ job'.stage \in {"intent", "walk"} => ~job'.act,
           job'.kind = "sync" /\ job'.stage \in {"intent", "execute"} =>
               \/ VerifyVoteQC(job'.tip, ReplayEpochs(job'.tip).cur.number)
               \/ job.kind = "sync" /\ job.stage \in {"intent", "execute"} /\ job'.tip = job.tip
    PROVE  EpochsInv'
<1> SUFFICES ASSUME ~early, ~torn PROVE EpochsKept'
  BY DEF EpochsInv
<1>1. EpochsKept
  BY DEF EpochsInv
<1>2. Follows(saved.e, saved.height)' /\ (Up /\ ~Executing => Follows(epochs, committed))'
  BY <1>1 DEF EpochsKept
<1>3. EpochsAgree'
  BY <1>1 DEF EpochsKept, EpochsAgree
<1>4. (job.kind = "sync" /\ job.stage \in {"intent", "execute"} =>
           VerifyVoteQC(job.tip, ReplayEpochs(job.tip).cur.number))'
  BY <1>1 DEF EpochsKept, ReplayEpochs, VerifyVoteQC
<1> QED BY <1>2, <1>3, <1>4 DEF EpochsKept

(* Proposals and the watcher change nothing of it.                         *)
LEMMA EpochsUntouched ==
    ASSUME EpochsInv, UNCHANGED <<phase, job, committed, epochs, saved, app, early, torn>>
    PROVE  EpochsInv'
<1> SUFFICES ASSUME ~early, ~torn PROVE EpochsKept'
  BY DEF EpochsInv
<1>1. EpochsKept
  BY DEF EpochsInv
<1>2. EpochsAgree' /\ (Up' <=> Up) /\ (Executing' <=> Executing)
  BY <1>1 DEF EpochsKept, EpochsAgree, Up, Executing
<1>3. Executing => BatchFollows'
  BY <1>1 DEF EpochsKept, BatchFollows
<1>4. (job.kind = "sync" /\ job.stage \in {"intent", "execute"} =>
           VerifyVoteQC(job.tip, ReplayEpochs(job.tip).cur.number))'
  BY <1>1 DEF EpochsKept, ReplayEpochs, VerifyVoteQC
<1> QED BY <1>1, <1>2, <1>3, <1>4 DEF EpochsKept

(* The stages of a commit before and after the execution.                  *)
LEMMA EpochsInStages ==
    ASSUME NodeInv, EpochsInv,
           \/ \E b \in Block \ {Genesis} : ApplyCommit(b)
           \/ LogIntent \/ LogCommitDone \/ TruncateWal
           \/ \E b \in Block \ {Genesis} : SyncStore(b)
           \/ SyncRejected
    PROVE  EpochsInv'
<1>1. CASE \E b \in Block \ {Genesis} : ApplyCommit(b)
  <2>1. PICK b : ApplyCommit(b)
    BY <1>1
  <2>2. /\ UNCHANGED <<phase, committed, epochs, saved, app, early, torn>> /\ job = Idle
        /\ job'.kind = "live" /\ job'.stage = "intent" /\ ~job'.act
    BY <2>1 DEF ApplyCommit, Free, Idle, memory, history
  <2> QED BY <2>2, AtRest, EpochsFrame DEF Up, Executing
<1>2. CASE LogIntent
  <2>1. /\ UNCHANGED <<phase, committed, epochs, saved, app, early, torn>> /\ job.stage = "intent"
        /\ job' = [job EXCEPT !.stage = IF job.kind = "live" THEN "walk" ELSE "execute"]
    BY <1>2 DEF LogIntent, memory, history
  <2>2. /\ job'.kind = job.kind /\ job'.tip = job.tip /\ job'.act = job.act
        /\ job'.stage = IF job.kind = "live" THEN "walk" ELSE "execute"
    BY <2>1 DEF NodeInv, Types, Jobs
  <2>3. job.kind = "live" /\ ~early /\ ~torn => ~job.act
    BY <2>1 DEF EpochsInv, EpochsKept
  <2>4. CASE ~early /\ ~torn
    BY <2>1, <2>2, <2>3, <2>4, EpochsFrame DEF Up, Executing
  <2>5. CASE ~(~early /\ ~torn)
    BY <2>1, <2>5 DEF EpochsInv
  <2> QED BY <2>4, <2>5
<1>3. CASE LogCommitDone
  <2>1. /\ UNCHANGED <<phase, committed, epochs, saved, app, early, torn>> /\ job.stage = "done"
        /\ job' = [job EXCEPT !.stage = "truncate"]
    BY <1>3 DEF LogCommitDone, memory, history
  <2>2. job'.stage = "truncate"
    BY <2>1 DEF NodeInv, Types, Jobs
  <2> QED BY <2>1, <2>2, EpochsFrame DEF Up, Executing
<1>4. CASE TruncateWal
  <2>1. /\ UNCHANGED <<phase, committed, epochs, saved, app, early, torn>>
        /\ job.stage = "truncate" /\ job' = Idle
    BY <1>4 DEF TruncateWal, memory, history
  <2> QED BY <2>1, AtRest, EpochsFrame DEF Up, Executing
<1>5. CASE \E b \in Block \ {Genesis} : SyncStore(b)
  <2>0. PICK b \in Block \ {Genesis} : SyncStore(b)
    BY <1>5
  <2>1. /\ UNCHANGED <<phase, committed, epochs, saved, app, early, torn>> /\ job = Idle
        /\ VerifyVoteQC(b, ReplayEpochs(b).cur.number)
        /\ job' = [Idle EXCEPT !.kind = "sync", !.stage = "intent", !.tip = b]
    BY <2>0 DEF SyncStore, Offered, memory
  <2>2. job'.kind = "sync" /\ job'.stage = "intent" /\ job'.tip = b
    BY <2>1 DEF Idle
  <2> QED BY <2>1, <2>2, AtRest, EpochsFrame DEF Up, Executing
<1>6. CASE SyncRejected
  <2>1. /\ UNCHANGED <<committed, epochs, saved, app, early, torn>>
        /\ job.kind = "sync" /\ job.stage = "execute" /\ job' = Idle
    BY <1>6 DEF SyncRejected, SyncFails, history
  <2>2. Up
    BY <2>1, JobFacts
  <2> QED BY <2>1, <2>2, AtRest, EpochsFrame DEF Up, Executing
<1> QED BY <1>1, <1>2, <1>3, <1>4, <1>5, <1>6

(* The epoch of the application's last execution is the chain's.           *)
LEMMA ExecutionAgrees ==
    ASSUME NodeInv, EpochsAgree, NEW e \in Epoch, NEW n \in {0, 1}, Len(app) < FinalHeight,
           NEW b \in Block, e = ChainContext(FinalTip)[Len(app) + 1],
           app' = Execution(b, e, n)
    PROVE  EpochsAgree'
<1> DEFINE l == Len(app)
<1>1. app \in Seq(Executions) /\ l \in Nat
  BY DEF NodeInv, Types
<1>2. /\ app' \in Seq(Executions) /\ Len(app') = l + n
      /\ \A i \in 1..l : app'[i] = app[i]
      /\ n = 1 => app'[l + 1].epoch = e.number
  BY <1>1, ExecutionAppends
<1> HIDE DEF l
<1>3. \A i \in 1..l : app[i].epoch = ChainContext(FinalTip)[i].number
  BY DEF EpochsAgree, l
<1>4. ASSUME NEW i \in 1..Len(app') PROVE app'[i].epoch = ChainContext(FinalTip)[i].number
  <2>1. CASE i <= l
    BY <1>1, <1>2, <1>3, <2>1
  <2>2. CASE i > l
    <3>1. n = 1 /\ i = l + 1
      BY <1>1, <1>2, <2>2
    <3> QED BY <1>2, <3>1 DEF l
  <2> QED BY <1>1, <1>2, <2>1, <2>2
<1> QED BY <1>4 DEF EpochsAgree

(* A batch starts from the epochs of the memory.                           *)
LEMMA EpochsTryCommit == ASSUME NodeInv, EpochsInv, TryCommit PROVE EpochsInv'
<1>1. /\ UNCHANGED <<phase, committed, epochs, saved, app, early, torn>>
      /\ job.kind = "live" /\ job.stage = "walk"
      /\ job' = IF BranchIsWhole(job.tip) THEN [job EXCEPT !.stage = "execute", !.from = committed, !.e = epochs]
                ELSE [job EXCEPT !.stage = "done"]
  BY DEF TryCommit, memory, history
<1> SUFFICES ASSUME ~early, ~torn PROVE EpochsKept'
  BY <1>1 DEF EpochsInv
<1>2. EpochsKept
  BY DEF EpochsInv
<1>3. ~job.act /\ Follows(epochs, committed) /\ Follows(saved.e, saved.height)
  BY <1>1, <1>2, JobFacts DEF EpochsKept, Executing
<1>4. EpochsAgree'
  BY <1>1, <1>2 DEF EpochsKept, EpochsAgree
<1>5. CASE BranchIsWhole(job.tip)
  <2>1. job'.kind = "live" /\ job'.stage = "execute" /\ job'.e = epochs /\ job'.act = job.act
    BY <1>1, <1>5 DEF NodeInv, Types, Jobs
  <2>2. BatchFollows'
    BY <1>1, <1>3, <2>1 DEF BatchFollows, Follows, Ahead, AsChain
  <2> QED BY <1>1, <1>3, <1>4, <2>1, <2>2 DEF EpochsKept, Executing
<1>6. CASE ~BranchIsWhole(job.tip)
  <2>1. job'.kind = "live" /\ job'.stage = "done"
    BY <1>1, <1>6 DEF NodeInv, Types, Jobs
  <2> QED BY <1>1, <1>3, <1>4, <2>1 DEF EpochsKept, Executing
<1> QED BY <1>5, <1>6

(* The next block of a batch.                                              *)
LEMMA LiveBlock ==
    ASSUME NodeInv, Executing, committed < HeightOf[job.tip]
    PROVE  /\ committed \in 0..FinalHeight /\ committed < FinalHeight
           /\ AncestorAt[job.tip][committed + 1] = Chain[committed + 1]
           /\ Chain[committed + 1] \in Block
           /\ Len(app) = committed /\ job.e \in EpochTriples
<1>1. HeightOf[job.tip] \in 1..FinalHeight /\ job.tip = Chain[HeightOf[job.tip]] /\ Up
  BY JobFacts DEF Executing, NodeInv, TipsAreCommitted
<1>2. committed \in 0..FinalHeight /\ Len(app) = committed /\ job.e \in EpochTriples
  BY <1>1 DEF NodeInv, Types, ExecutionsAreKnown, Jobs
<1> QED BY <1>1, <1>2, ChainFacts, SMTT(30)

(* Under which epoch it is executed, and what the batch is left with.      *)
LEMMA LiveExecution ==
    ASSUME NodeInv, EpochsKept, Executing, committed < HeightOf[job.tip]
    PROVE  LET b == Chain[committed + 1]
               e == ActivateAt(job.e, b)
               n == AfterExecution(e, b)
           IN  /\ ContextEpoch(e, b) = ChainContext(FinalTip)[committed + 1]
               /\ \/ AsChain(n, committed + 1)
                  \/ /\ Ahead(n, committed + 1) /\ n = job.e /\ e = job.e
                     /\ ~job.act /\ job.e.prev = epochs.prev
<1>1. /\ committed \in 0..FinalHeight /\ committed < FinalHeight /\ job.e \in EpochTriples
  BY LiveBlock
<1>2. BatchFollows
  BY DEF EpochsKept
<1>3. CASE AsChain(job.e, committed)
  BY <1>1, <1>3, ExecuteAsChain
<1>4. CASE Ahead(job.e, committed) /\ ~job.act /\ job.e.prev = epochs.prev
  BY <1>1, <1>4, ExecuteAhead
<1> QED BY <1>2, <1>3, <1>4 DEF BatchFollows

LEMMA EpochsExecuteLive == ASSUME NodeInv, EpochsInv, ExecuteLive PROVE EpochsInv'
<1> DEFINE b == AncestorAt[job.tip][committed + 1]
           e == ActivateAt(job.e, b)
           n == AfterExecution(e, b)
<1>1. /\ Executing /\ committed < HeightOf[job.tip] /\ committed' = committed + 1
      /\ UNCHANGED <<phase, epochs, saved, early, torn>>
  BY DEF ExecuteLive, ExecuteNext, Executing, history
<1> SUFFICES ASSUME ~early, ~torn PROVE EpochsKept'
  BY <1>1 DEF EpochsInv
<1>2. EpochsKept
  BY DEF EpochsInv
<1>3. /\ committed \in 0..FinalHeight /\ committed < FinalHeight /\ b = Chain[committed + 1]
      /\ b \in Block /\ Len(app) = committed /\ job.e \in EpochTriples
  BY <1>1, LiveBlock
<1>4. /\ ContextEpoch(e, b) = ChainContext(FinalTip)[committed + 1]
      /\ \/ AsChain(n, committed + 1)
         \/ /\ Ahead(n, committed + 1) /\ n = job.e /\ e = job.e
            /\ ~job.act /\ job.e.prev = epochs.prev
  BY <1>1, <1>2, <1>3, LiveExecution
<1>5. PICK o \in CallOutcomes("execute_block") :
          /\ o.answer = "given" /\ app' = Execution(b, ContextEpoch(e, b), o.applied)
          /\ job' = [job EXCEPT !.e = n, !.act = @ \/ e # job.e]
  BY DEF ExecuteLive, ExecuteNext
<1>6. ContextEpoch(e, b) \in Epoch /\ o.applied \in {0, 1}
  BY <1>3, EpochTypes, ExecutionOutcomes
<1> HIDE DEF b, e, n
<1>7. /\ job'.kind = "live" /\ job'.stage = "execute" /\ job'.e = n
      /\ job'.act = (job.act \/ e # job.e)
  BY <1>1, <1>5 DEF NodeInv, Types, Jobs, Executing
<1>8. EpochsAgree'
  <2> DEFINE k == o.applied
             x == ContextEpoch(e, b)
  <2>1. app' = Execution(b, x, k) /\ k \in {0, 1} /\ x \in Epoch
    BY <1>5, <1>6
  <2> HIDE DEF k, x
  <2>2. Len(app) < FinalHeight /\ x = ChainContext(FinalTip)[Len(app) + 1]
    BY <1>3, <1>4 DEF x
  <2> QED BY <1>2, <1>3, <2>1, <2>2, ExecutionAgrees DEF EpochsKept
<1>9. BatchFollows'
  <2>1. CASE AsChain(n, committed + 1)
    BY <1>1, <1>7, <2>1 DEF BatchFollows, AsChain
  <2>2. CASE /\ Ahead(n, committed + 1) /\ n = job.e /\ e = job.e
             /\ ~job.act /\ job.e.prev = epochs.prev
    BY <1>1, <1>7, <2>2 DEF BatchFollows, Ahead
  <2> QED BY <1>4, <2>1, <2>2
<1>10. Follows(saved.e, saved.height)'
  BY <1>1, <1>2 DEF EpochsKept
<1> QED BY <1>7, <1>8, <1>9, <1>10 DEF EpochsKept, Executing

(* adopt_commit_epoch.                                                     *)
LEMMA EpochsProcessCommitResult ==
    ASSUME NodeInv, EpochsInv, ProcessCommitResult PROVE EpochsInv'
<1>1. /\ Executing /\ UNCHANGED <<phase, committed, saved, app, early, torn>>
      /\ epochs' = [cur  |-> job.e.cur,
                    prev |-> IF job.act THEN epochs.cur ELSE epochs.prev,
                    pend |-> job.e.pend]
      /\ job' = [job EXCEPT !.stage = "persist"]
  BY DEF ProcessCommitResult, Executing, history
<1> SUFFICES ASSUME ~early, ~torn PROVE EpochsKept'
  BY <1>1 DEF EpochsInv
<1>2. EpochsKept
  BY DEF EpochsInv
<1>3. job'.stage = "persist"
  BY <1>1 DEF NodeInv, Types, Jobs
<1>4. EpochsAgree'
  BY <1>1, <1>2 DEF EpochsKept, EpochsAgree
<1>5. Follows(epochs', committed)
  <2>1. epochs'.cur = job.e.cur /\ epochs'.pend = job.e.pend
        /\ (~job.act => epochs'.prev = epochs.prev)
    BY <1>1
  <2> QED BY <1>1, <1>2, <2>1 DEF EpochsKept, BatchFollows, Follows, AsChain, Ahead
<1> QED BY <1>1, <1>2, <1>3, <1>4, <1>5 DEF EpochsKept, Executing

(* A view activates the pending epoch.                                     *)
LEMMA EpochsAdvanceView ==
    ASSUME NodeInv, EpochsInv, NEW v \in 1..MaxView, AdvanceViewTo(v) PROVE EpochsInv'
<1>1. /\ phase = "running" /\ job = Idle /\ epochs' = EnterView(epochs, v)
      /\ early' = (early \/ (Activates(epochs.pend, v) /\ Premature(epochs.pend)))
      /\ job' = [Idle EXCEPT !.kind = "view", !.stage = "persist"]
      /\ UNCHANGED <<phase, committed, saved, app, torn>>
  BY DEF AdvanceViewTo, Free
<1> SUFFICES ASSUME ~early', ~torn PROVE EpochsKept'
  BY <1>1 DEF EpochsInv
<1>2. ~early /\ (Activates(epochs.pend, v) => ~Premature(epochs.pend))
  BY <1>1
<1>3. EpochsKept
  BY <1>2 DEF EpochsInv
<1>4. job'.kind = "view" /\ job'.stage = "persist"
  BY <1>1 DEF Idle
<1>5. Follows(epochs, committed) /\ committed \in 0..FinalHeight /\ epochs \in EpochTriples
  BY <1>1, <1>3, AtRest DEF EpochsKept, Up, Executing, NodeInv, Types
<1>6. Follows(epochs', committed)
  <2>1. CASE ~Activates(epochs.pend, v)
    BY <1>1, <1>5, <2>1 DEF EnterView
  <2>2. CASE Activates(epochs.pend, v)
    <3>1. AsChain(epochs, committed)
      BY <1>5, <2>2 DEF Follows, Ahead, Activates
    <3>2. epochs' = [cur |-> epochs.pend, prev |-> epochs.cur, pend |-> NoEpoch]
      BY <1>1, <2>2 DEF EnterView
    <3>3. epochs.pend # NoEpoch
      BY <2>2 DEF Activates
    <3>4. ASSUME NEW k \in (committed + 1)..FinalHeight, Chain[k] \in Updates
          PROVE  ViewOf[Chain[k]] >= epochs.pend.start
      <4>1. ~(ViewOf[Chain[k]] < epochs.pend.start)
        BY <1>2, <2>2, <3>4 DEF Premature
      <4>2. k \in 0..FinalHeight
        BY <1>5, ChainFacts
      <4>3. ViewOf[Chain[k]] \in Nat
        BY <4>2, ChainFacts, BlockAssumption
      <4>4. epochs.pend.start \in Nat
        BY <1>5 DEF EpochTriples, Epoch
      <4> QED BY <4>1, <4>3, <4>4
    <3> QED BY <3>1, <3>2, <3>3, <3>4 DEF Follows, Ahead, AsChain
  <2> QED BY <2>1, <2>2
<1>7. EpochsAgree'
  BY <1>1, <1>3 DEF EpochsKept, EpochsAgree
<1> QED BY <1>1, <1>3, <1>4, <1>6, <1>7 DEF EpochsKept, Executing

(* Replay executes a block under the epoch its certificate names.          *)
LEMMA ReplayBlock ==
    ASSUME NodeInv, EpochsKept, job.kind = "sync", job.stage = "execute"
    PROVE  /\ committed \in 0..FinalHeight /\ committed < FinalHeight /\ Len(app) = committed
           /\ job.tip = Chain[committed + 1] /\ job.tip \in Block
           /\ HeightOf[job.tip] = committed + 1 /\ epochs \in EpochTriples
           /\ ReplayEpochs(job.tip).cur = ChainContext(FinalTip)[committed + 1]
           /\ AsChain(AfterExecution(ReplayEpochs(job.tip), job.tip), committed + 1)
<1>1. /\ HeightOf[job.tip] \in 1..FinalHeight /\ job.tip = Chain[HeightOf[job.tip]]
      /\ HeightOf[job.tip] = committed + 1 /\ Up
  BY JobFacts DEF NodeInv, TipsAreCommitted
<1>2. /\ committed \in 0..FinalHeight /\ Len(app) = committed /\ epochs \in EpochTriples
      /\ job.tip \in Block
  BY <1>1 DEF NodeInv, Types, ExecutionsAreKnown, Jobs
<1>3. committed < FinalHeight
  BY <1>1, <1>2, ChainFacts
<1>4. Follows(epochs, committed) /\ CertEpoch[job.tip] = ReplayEpochs(job.tip).cur.number
  BY <1>1 DEF EpochsKept, Executing, VerifyVoteQC
<1>5. CASE AsChain(epochs, committed)
  BY <1>1, <1>2, <1>3, <1>5, ExecuteAsChain DEF ReplayEpochs
<1>6. CASE Ahead(epochs, committed)
  BY <1>1, <1>2, <1>3, <1>4, <1>6, ExecuteAhead DEF ReplayEpochs
<1> QED BY <1>1, <1>2, <1>3, <1>4, <1>5, <1>6 DEF Follows

LEMMA EpochsSyncExecute == ASSUME NodeInv, EpochsInv, SyncExecute PROVE EpochsInv'
<1> DEFINE b == job.tip
           e == ReplayEpochs(b)
           n == AfterExecution(e, b)
<1>1. /\ job.kind = "sync" /\ job.stage = "execute" /\ UNCHANGED <<phase, saved, early, torn>>
      /\ epochs' = n /\ committed' = HeightOf[b]
      /\ job' = [job EXCEPT !.stage = "persist"]
  BY DEF SyncExecute, history
<1> SUFFICES ASSUME ~early, ~torn PROVE EpochsKept'
  BY <1>1 DEF EpochsInv
<1>2. EpochsKept
  BY DEF EpochsInv
<1>3. /\ committed \in 0..FinalHeight /\ committed < FinalHeight /\ Len(app) = committed
      /\ b \in Block /\ HeightOf[b] = committed + 1 /\ epochs \in EpochTriples
      /\ e.cur = ChainContext(FinalTip)[committed + 1] /\ AsChain(n, committed + 1)
  BY <1>1, <1>2, ReplayBlock
<1>4. PICK o \in CallOutcomes("execute_block") : app' = Execution(b, e.cur, o.applied)
  BY DEF SyncExecute
<1>5. e.cur \in Epoch
  <2>1. e \in EpochTriples
    BY <1>3, EpochTypes DEF ReplayEpochs
  <2> QED BY <2>1 DEF EpochTriples
<1>6. job'.kind = "sync" /\ job'.stage = "persist"
  BY <1>1 DEF NodeInv, Types, Jobs
<1> HIDE DEF b, e, n
<1>7. EpochsAgree'
  <2> DEFINE k == o.applied
             x == e.cur
  <2>1. app' = Execution(b, x, k) /\ k \in {0, 1} /\ x \in Epoch
    BY <1>4, <1>5, ExecutionOutcomes
  <2> HIDE DEF k, x
  <2>2. Len(app) < FinalHeight /\ x = ChainContext(FinalTip)[Len(app) + 1]
    BY <1>3 DEF x
  <2> QED BY <1>2, <1>3, <2>1, <2>2, ExecutionAgrees DEF EpochsKept
<1>8. Follows(epochs', committed')
  BY <1>1, <1>3 DEF Follows
<1> QED BY <1>1, <1>2, <1>6, <1>7, <1>8 DEF EpochsKept, Executing

(* The checkpoint.                                                         *)
LEMMA EpochsCheckpoint ==
    ASSUME NodeInv, EpochsInv, PersistState \/ StartEngine PROVE EpochsInv'
<1>1. /\ UNCHANGED <<committed, epochs, app, early, torn>> /\ Up /\ Up'
      /\ saved'.height = committed /\ saved'.e = epochs /\ ~Executing
      /\ ~Executing' /\ job'.stage \in {"none", "done"}
  <2>1. CASE PersistState
    <3>1. job.stage = "persist" /\ Up /\ UNCHANGED <<phase, committed, epochs, app, early, torn>>
      BY <2>1, JobFacts DEF PersistState, memory, history
    <3>2. saved'.height = committed /\ saved'.e = [cur |-> epochs.cur, prev |-> epochs.prev,
                                                   pend |-> epochs.pend]
      BY <2>1 DEF PersistState, SavedUpTo, Fields
    <3>3. epochs \in EpochTriples
      BY DEF NodeInv, Types
    <3>4. saved'.e = epochs
      <4> HIDE DEF Epoch
      <4> QED BY <3>2, <3>3 DEF EpochTriples
    <3>5. job'.stage \in {"none", "done"}
      BY <2>1, AtRest DEF PersistState, NodeInv, Types, Jobs
    <3> QED BY <3>1, <3>2, <3>4, <3>5 DEF Up, Executing
  <2>2. CASE StartEngine
    BY <2>2, AtRest DEF StartEngine, Up, Executing, memory, history
  <2> QED BY <2>1, <2>2
<1> SUFFICES ASSUME ~early, ~torn PROVE EpochsKept'
  BY <1>1 DEF EpochsInv
<1>2. EpochsKept
  BY DEF EpochsInv
<1>3. EpochsAgree' /\ Follows(epochs, committed)
  BY <1>1, <1>2 DEF EpochsKept, EpochsAgree
<1> QED BY <1>1, <1>3 DEF EpochsKept

(* A crash leaves the checkpoint and what the application has executed.    *)
LEMMA EpochsGone ==
    ASSUME Gone, EpochsAgree', Follows(saved'.e, saved'.height) PROVE EpochsKept'
<1>1. job' = Idle /\ ~Up'
  BY DEF Gone, Up
<1> QED BY <1>1, AtRest DEF EpochsKept, Executing

LEMMA EpochsCrash ==
    ASSUME NodeInv, EpochsInv, Crash \/ CrashInWal \/ CrashInPersist PROVE EpochsInv'
<1> SUFFICES ASSUME ~early', ~torn' PROVE EpochsKept'
  BY DEF EpochsInv
<1>1. Gone /\ UNCHANGED <<app, early>> /\ ~early
  BY DEF Crash, CrashInWal, CrashInPersist
<1>2. ASSUME EpochsKept PROVE EpochsAgree'
  BY <1>1, <1>2 DEF EpochsKept, EpochsAgree
<1>3. CASE Crash \/ CrashInWal
  <2>1. UNCHANGED <<saved, torn>>
    BY <1>3 DEF Crash, CrashInWal
  <2>2. EpochsKept
    BY <1>1, <2>1 DEF EpochsInv
  <2> QED BY <1>1, <1>2, <2>1, <2>2, EpochsGone DEF EpochsKept
<1>4. CASE CrashInPersist
  <2>1. PICK k \in 1..(Fields - 1) :
            /\ saved' = SavedUpTo(k)
            /\ torn' = (torn \/ ~(\/ SameCheckpoint(SavedUpTo(k), saved)
                                  \/ SameCheckpoint(SavedUpTo(k), SavedUpTo(Fields))))
    BY <1>4 DEF CrashInPersist
  <2>2. ~torn
    BY <2>1
  <2>3. SameCheckpoint(saved', saved) \/ SameCheckpoint(saved', SavedUpTo(Fields))
    BY <2>1
  <2>4. EpochsKept
    BY <1>1, <2>2 DEF EpochsInv
  <2>5. job.stage = "persist" /\ Up /\ epochs \in EpochTriples
    BY <1>4, JobFacts DEF CrashInPersist, NodeInv, Types
  <2>6. Follows(epochs, committed) /\ Follows(saved.e, saved.height)
    BY <2>4, <2>5 DEF EpochsKept, Executing
  <2>7. SavedUpTo(Fields).height = committed /\ SavedUpTo(Fields).e = epochs
    <3>1. SavedUpTo(Fields).height = committed
      BY DEF SavedUpTo, Fields
    <3>2. SavedUpTo(Fields).e =
              [cur |-> epochs.cur, prev |-> epochs.prev, pend |-> epochs.pend]
      BY DEF SavedUpTo, Fields
    <3> QED BY <2>5, <3>1, <3>2 DEF EpochTriples
  <2>8. Follows(saved'.e, saved'.height)
    BY <2>3, <2>6, <2>7 DEF SameCheckpoint
  <2> QED BY <1>1, <1>2, <2>4, <2>8, EpochsGone
<1> QED BY <1>3, <1>4

LEMMA EpochsPanic == ASSUME NodeInv, EpochsInv, Panic PROVE EpochsInv'
<1> DEFINE b == AncestorAt[job.tip][committed + 1]
           e == IF job.kind = "live" THEN ContextEpoch(ActivateAt(job.e, b), b)
                ELSE ReplayEpochs(b).cur
<1>1. /\ Gone /\ UNCHANGED <<saved, early, torn>> /\ job.stage = "execute"
      /\ job.kind = "live" => committed < HeightOf[job.tip]
  BY DEF Panic
<1> SUFFICES ASSUME ~early, ~torn PROVE EpochsKept'
  BY <1>1 DEF EpochsInv
<1>2. EpochsKept
  BY DEF EpochsInv
<1>3. PICK o \in CallOutcomes("execute_block") : app' = Execution(b, e, o.applied)
  BY DEF Panic
<1>4. job.kind \in {"live", "sync"}
  BY <1>1, JobFacts
<1>5. /\ Len(app) < FinalHeight /\ b \in Block /\ e \in Epoch
      /\ e = ChainContext(FinalTip)[Len(app) + 1]
  <2>1. CASE job.kind = "live"
    <3>1. Executing /\ committed < HeightOf[job.tip]
      BY <1>1, <2>1 DEF Executing
    <3>2. /\ committed < FinalHeight /\ b = Chain[committed + 1]
          /\ b \in Block /\ Len(app) = committed /\ job.e \in EpochTriples
      BY <3>1, LiveBlock
    <3>3. e = ContextEpoch(ActivateAt(job.e, b), b)
      BY <2>1
    <3>4. e = ChainContext(FinalTip)[committed + 1]
      BY <1>2, <3>1, <3>2, <3>3, LiveExecution
    <3>5. e \in Epoch
      BY <3>2, <3>3, EpochTypes
    <3> QED BY <3>2, <3>4, <3>5
  <2>2. CASE job.kind = "sync"
    <3>1. /\ committed \in 0..FinalHeight /\ committed < FinalHeight /\ Len(app) = committed
          /\ job.tip = Chain[committed + 1] /\ job.tip \in Block
          /\ HeightOf[job.tip] = committed + 1 /\ epochs \in EpochTriples
          /\ ReplayEpochs(job.tip).cur = ChainContext(FinalTip)[committed + 1]
      BY <1>1, <1>2, <2>2, ReplayBlock
    <3>2. b = job.tip
      BY <3>1, AncestorDefinition
    <3> HIDE DEF b
    <3>3. e = ReplayEpochs(job.tip).cur
      BY <2>2, <3>2
    <3>4. ReplayEpochs(job.tip) \in EpochTriples
      BY <3>1, EpochTypes DEF ReplayEpochs
    <3> HIDE DEF e
    <3> QED BY <3>1, <3>2, <3>3, <3>4 DEF EpochTriples
  <2> QED BY <1>4, <2>1, <2>2
<1> HIDE DEF b, e
<1>6. EpochsAgree'
  <2> DEFINE k == o.applied
  <2>1. app' = Execution(b, e, k) /\ k \in {0, 1}
    BY <1>3, ExecutionOutcomes
  <2> HIDE DEF k
  <2> QED BY <1>2, <1>5, <2>1, ExecutionAgrees DEF EpochsKept
<1> QED BY <1>1, <1>2, <1>6, EpochsGone DEF EpochsKept

(* A replay refused after its execution leaves a node that does not run.   *)
LEMMA EpochsRefuseSync == ASSUME NodeInv, EpochsInv, RefuseSync PROVE EpochsInv'
<1> DEFINE b == job.tip
           e == ReplayEpochs(b).cur
<1>1. /\ job.kind = "sync" /\ job.stage = "execute" /\ job' = Idle
      /\ UNCHANGED <<saved, early, torn>> /\ SyncFails
  BY DEF RefuseSync, SyncFails, history
<1> SUFFICES ASSUME ~early, ~torn PROVE EpochsKept'
  BY <1>1 DEF EpochsInv
<1>2. EpochsKept
  BY DEF EpochsInv
<1>3. /\ committed \in 0..FinalHeight /\ committed < FinalHeight /\ Len(app) = committed
      /\ b \in Block /\ epochs \in EpochTriples /\ e = ChainContext(FinalTip)[committed + 1]
  BY <1>1, <1>2, ReplayBlock
<1>4. PICK o \in CallOutcomes("execute_block") : app' = Execution(b, e, o.applied)
  BY DEF RefuseSync
<1>5. e \in Epoch
  <2>1. ReplayEpochs(b) \in EpochTriples
    BY <1>3, EpochTypes DEF ReplayEpochs
  <2> QED BY <2>1 DEF EpochTriples
<1> HIDE DEF b, e
<1>6. EpochsAgree'
  <2> DEFINE k == o.applied
  <2>1. app' = Execution(b, e, k) /\ k \in {0, 1}
    BY <1>4, ExecutionOutcomes
  <2> HIDE DEF k
  <2> QED BY <1>2, <1>3, <1>5, <2>1, ExecutionAgrees DEF EpochsKept
<1>7. ~Up'
  BY <1>1, SyncFailsHalts DEF Up
<1>8. Follows(saved.e, saved.height)'
  BY <1>1, <1>2 DEF EpochsKept
<1> QED BY <1>1, <1>6, <1>7, <1>8, AtRest DEF EpochsKept, Executing

(* A restart continues from the checkpoint.                                *)
LEMMA EpochsRestart == ASSUME NodeInv, EpochsInv, Restart PROVE EpochsInv'
<1>1. /\ phase = "down" /\ committed' = saved.height /\ epochs' = saved.e
      /\ UNCHANGED <<job, saved, app, early, torn>>
  BY DEF Restart, history
<1> SUFFICES ASSUME ~early, ~torn PROVE EpochsKept'
  BY <1>1 DEF EpochsInv
<1>2. EpochsKept
  BY DEF EpochsInv
<1>3. job' = Idle
  BY <1>1 DEF NodeInv, JobsFitPhase, Up
<1>4. EpochsAgree' /\ Follows(saved.e, saved.height)
  BY <1>1, <1>2 DEF EpochsKept, EpochsAgree
<1> QED BY <1>1, <1>3, <1>4, AtRest DEF EpochsKept, Executing

LEMMA EpochsStep ==
    ASSUME NodeInv, TypeInv, EpochsInv, [Next]_vars, Undisturbed' PROVE EpochsInv'
<1>1. CASE Next
  <2>1. CASE \/ \E b \in Block \ {Genesis}, anc \in BOOLEAN : PastProposal(b, anc)
             \/ \E b \in Block \ {Genesis}, anc, acc \in BOOLEAN : CurrentProposal(b, anc, acc)
    BY <2>1, EpochsUntouched DEF PastProposal, CurrentProposal, memory, history
  <2>2. CASE \/ WatchStart \/ WatchLook \/ WatchWrite \/ WatchEnd
             \/ \E b \in Block \ {Genesis} : WatchStore(b)
    BY <2>2, EpochsUntouched
       DEF WatchStart, WatchStore, WatchLook, WatchWrite, WatchEnd, memory, history
  <2>3. CASE \E v \in 1..MaxView : AdvanceViewTo(v)
    BY <2>3, EpochsAdvanceView
  <2>4. CASE \/ \E b \in Block \ {Genesis} : ApplyCommit(b)
             \/ LogIntent \/ LogCommitDone \/ TruncateWal
             \/ \E b \in Block \ {Genesis} : SyncStore(b)
             \/ SyncRejected
    BY <2>4, EpochsInStages
  <2>5. CASE TryCommit \/ ExecuteLive \/ ProcessCommitResult \/ SyncExecute \/ RefuseSync
    BY <2>5, EpochsTryCommit, EpochsExecuteLive, EpochsProcessCommitResult, EpochsSyncExecute,
       EpochsRefuseSync
  <2>8. CASE RefuseLive
    BY <2>8 DEF RefuseLive, Undisturbed, TypeInv
  <2>6. CASE PersistState \/ StartEngine
    BY <2>6, EpochsCheckpoint
  <2>7. CASE Crash \/ CrashInWal \/ CrashInPersist \/ Panic \/ Restart
    BY <2>7, EpochsCrash, EpochsPanic, EpochsRestart
  <2> QED BY <1>1, <2>1, <2>2, <2>3, <2>4, <2>5, <2>6, <2>7, <2>8 DEF Next
<1>2. CASE UNCHANGED vars
  BY <1>2, EpochsUntouched DEF vars
<1> QED BY <1>1, <1>2

(***************************************************************************)
(* However a node got its blocks - in batches, by replay, after entering   *)
(* views by timeout, after crashes - try_commit and replay_blocks execute  *)
(* each under the epoch the chain determines, and leave the node with the  *)
(* epochs the chain determines, for every tree of blocks, every placement  *)
(* of updates and any number of crashes.  The four exceptions are named in *)
(* the property: an epoch activated too early by a view, a checkpoint cut  *)
(* in two, a commit refused after its execution, a peer that strayed.      *)
(***************************************************************************)
THEOREM EpochsAreTheChains == Spec => []EpochsFollowChain
<1> DEFINE I == Undisturbed => NodeInv /\ EpochsInv
<1>1. Init => I
  BY InitialNode, InitialEpochs
<1>2. TypeInv /\ I /\ [Next]_vars => I'
  BY NodeStep, EpochsStep, DisturbanceStays
<1>3. I => EpochsFollowChain
  <2> SUFFICES ASSUME NodeInv, EpochsInv, ~early, ~torn
               PROVE  EpochsAgree /\ (Up /\ job = Idle => EpochsOfChain)
    BY DEF EpochsFollowChain, Up
  <2>1. EpochsAgree /\ (Up /\ ~Executing => Follows(epochs, committed))
    BY DEF EpochsInv, EpochsKept
  <2>2. job = Idle => ~Executing
    BY AtRest DEF Executing
  <2>3. Follows(epochs, committed) => EpochsOfChain
    BY DEF Follows, AsChain, Ahead, EpochsOfChain, EpochsAt
  <2> QED BY <2>1, <2>2, <2>3
<1> QED BY <1>1, <1>2, <1>3, TypeInvariant, PTL DEF Spec

=============================================================================
