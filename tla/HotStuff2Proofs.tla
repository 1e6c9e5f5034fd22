--------------------------- MODULE HotStuff2Proofs ---------------------------
(***************************************************************************)
(* Safety of the hotmint consensus engine for every set of validators,     *)
(* quorum system, block tree, leader schedule and bound.                   *)
(***************************************************************************)
EXTENDS HotStuff2Inv, TLAPS

-----------------------------------------------------------------------------
(* The block tree.                                                         *)

(* A block is its own ancestor. *)
LEMMA AncestorSelf == \A b \in Block : b \in Ancestors[b]
BY DEF Ancestors

(* A block's ancestors include those of its parent. *)
LEMMA AncestorStep ==
    \A b \in Block : Ancestors[Parent[b]] \subseteq Ancestors[b]
<1>1. SUFFICES ASSUME NEW b \in Block, NEW a \in Ancestors[Parent[b]],
                      NEW S \in ParentClosed, b \in S
               PROVE  a \in S
  BY BlockAssumption DEF Ancestors
<1>2. Parent[b] \in S
  BY <1>1 DEF ParentClosed
<1>3. QED
  BY <1>2, BlockAssumption DEF Ancestors

(* A block is an ancestor of its children. *)
LEMMA ParentIsAncestor == \A b \in Block : Parent[b] \in Ancestors[b]
BY AncestorSelf, AncestorStep, BlockAssumption

(* An ancestor is no higher than its descendant. *)
LEMMA AncestorHeight ==
    \A b \in Block : \A a \in Ancestors[b] : Height[a] <= Height[b]
<1> SUFFICES ASSUME NEW b \in Block, NEW a \in Ancestors[b]
             PROVE  Height[a] <= Height[b]
  OBVIOUS
<1> DEFINE low == {c \in Block : Height[c] <= Height[b]}
<1>1. ASSUME NEW c \in low
      PROVE  Parent[c] \in low
  <2>1. CASE c = Genesis
    BY <2>1, BlockAssumption
  <2>2. CASE c # Genesis
    BY <2>2, BlockAssumption
  <2>3. QED
    BY <2>1, <2>2
<1>2. low \in ParentClosed
  BY <1>1 DEF ParentClosed
<1>3. b \in low
  BY BlockAssumption
<1>4. QED
  BY <1>2, <1>3 DEF Ancestors

-----------------------------------------------------------------------------
(* Quorums and certificates.                                               *)

(* Two quorums of votes have an honest voter in common. *)
LEMMA HonestIntersection ==
    ASSUME NEW A \in SUBSET Honest, NEW B \in SUBSET Honest,
           A \cup Byzantine \in Quorum, B \cup Byzantine \in Quorum
    PROVE  \E r \in Honest : r \in A /\ r \in B
<1>1. PICK r \in (A \cup Byzantine) \cap (B \cup Byzantine) \cap Honest : TRUE
  BY QuorumAssumption
<1>2. r \notin Byzantine
  BY QuorumAssumption
<1>3. QED
  BY <1>1, <1>2

(* More votes do not destroy a quorum. *)
LEMMA QuorumGrows ==
    ASSUME NEW A \in SUBSET Honest, NEW B \in SUBSET Honest,
           A \subseteq B, A \cup Byzantine \in Quorum
    PROVE  B \cup Byzantine \in Quorum
BY QuorumAssumption DEF Replica

(* A certificate, once it can be assembled, can be assembled ever after. *)
LEMMA CertificatesLast ==
    ASSUME votes1 \subseteq votes1', votes2 \subseteq votes2', NEW b \in Block
    PROVE  /\ Certified(b) => Certified(b)'
           /\ DoubleCertified(b) => DoubleCertified(b)'
<1> DEFINE A == {s \in Honest : <<s, b>> \in votes1}
           B == {s \in Honest : <<s, b>> \in votes1'}
           C == {s \in Honest : <<s, b>> \in votes2}
           D == {s \in Honest : <<s, b>> \in votes2'}
<1>1. A \subseteq B /\ C \subseteq D
  OBVIOUS
<1>2. A \cup Byzantine \in Quorum => B \cup Byzantine \in Quorum
  BY <1>1, QuorumGrows
<1>3. C \cup Byzantine \in Quorum => D \cup Byzantine \in Quorum
  BY <1>1, QuorumGrows
<1>4. QED
  BY <1>2, <1>3 DEF Certified, DoubleCertified

-----------------------------------------------------------------------------
(* Type correctness.                                                       *)

(* Deliverable messages are well formed. *)
LEMMA DeliverableType ==
    ASSUME TypeOK
    PROVE  /\ DeliverableProposal \subseteq ProposalMsg
           /\ DeliverablePrepare \subseteq Block
<1>1. ASSUME NEW m \in ByzantineProposals
      PROVE  m \in ProposalMsg
  <2>1. PICK b \in Block : m \in [block : {b},
                                  dc : {d \in Block : DoubleCertified(d)},
                                  anc : {{}, Ancestors[b] \ {b}}]
    BY <1>1 DEF ByzantineProposals, ByzantineBlocks
  <2>2. Ancestors[b] \subseteq Block
    BY DEF Ancestors
  <2>3. QED
    BY <2>1, <2>2 DEF ProposalMsg
<1>2. QED
  BY <1>1 DEF TypeOK, DeliverableProposal, DeliverablePrepare

(* The certificate and commit helpers return blocks. *)
LEMMA HelperType ==
    /\ \A p, q \in Block : MaxQC(p, q) \in {p, q}
    /\ \A t, d, st : CommitTip(t, d, st) \in {t, d}
    /\ \A q, t, st : q \in Block => AncestorBlocks(q, t, st) \subseteq Block
BY DEF MaxQC, CommitTip, AncestorBlocks, Ancestors

(* What proposing does to the types. *)
LEMMA TryProposeType ==
    ASSUME TypeOK, NEW r \in Honest, NEW w, NEW q \in Block, NEW d \in Block,
           NEW t \in Block, NEW st \in SUBSET Block,
           TryPropose(r, w, q, d, t, st)
    PROVE  /\ step' \in [Honest -> ViewStep]
           /\ store' \in [Honest -> SUBSET Block]
           /\ proposals' \subseteq ProposalMsg
           /\ votes1' \subseteq Honest \X Block
           /\ lastVote1' \in [Honest -> Block]
<1>1. CASE /\ step' = [step EXCEPT ![r] = "WaitingForStatus"]
           /\ store' = [store EXCEPT ![r] = st]
           /\ UNCHANGED <<proposals, votes1, lastVote1>>
  BY <1>1 DEF TypeOK, ViewStep
<1>2. CASE \E b \in Block :
            /\ store' = [store EXCEPT ![r] = st \cup {b}]
            /\ proposals' = proposals \cup
                  {[block |-> b, dc |-> d, anc |-> AncestorBlocks(q, t, st)]}
            /\ SelfVote(r, b)
            /\ step' = [step EXCEPT ![r] = "CollectingVotes"]
  <2>1. PICK b \in Block :
            /\ store' = [store EXCEPT ![r] = st \cup {b}]
            /\ proposals' = proposals \cup
                  {[block |-> b, dc |-> d, anc |-> AncestorBlocks(q, t, st)]}
            /\ SelfVote(r, b)
            /\ step' = [step EXCEPT ![r] = "CollectingVotes"]
    BY <1>2
  <2>2. [block |-> b, dc |-> d, anc |-> AncestorBlocks(q, t, st)] \in ProposalMsg
    BY HelperType DEF ProposalMsg
  <2>3. proposals' \subseteq ProposalMsg
    BY <2>1, <2>2 DEF TypeOK
  <2>4. /\ step' \in [Honest -> ViewStep]
        /\ store' \in [Honest -> SUBSET Block]
    BY <2>1 DEF TypeOK, ViewStep
  <2>5. votes1' \subseteq Honest \X Block /\ lastVote1' \in [Honest -> Block]
    BY <2>1 DEF TypeOK, SelfVote
  <2>6. QED
    BY <2>3, <2>4, <2>5
<1>3. QED
  BY <1>1, <1>2 DEF TryPropose, Propose

(* What entering a view does to the types. *)
LEMMA AdvanceViewToType ==
    ASSUME TypeOK, NEW r \in Honest, NEW w \in Nat, NEW q \in Block,
           NEW d \in Block, NEW t \in Block, AdvanceViewTo(r, w, q, d, t)
    PROVE  /\ view' \in [Honest -> 0..MaxView]
           /\ step' \in [Honest -> ViewStep]
           /\ highest' \in [Honest -> Block]
           /\ saved' \in [Honest -> Block]
           /\ doubleCert' \in [Honest -> Block]
           /\ store' \in [Honest -> SUBSET Block]
           /\ lastVote1' \in [Honest -> Block]
           /\ proposals' \subseteq ProposalMsg
           /\ votes1' \subseteq Honest \X Block
           /\ statuses' \subseteq Honest \X (1..MaxView) \X Block
<1>1. /\ view' \in [Honest -> 0..MaxView]
      /\ highest' \in [Honest -> Block]
      /\ saved' \in [Honest -> Block]
      /\ doubleCert' \in [Honest -> Block]
  BY BoundAssumption DEF TypeOK, AdvanceViewTo, EnterView
<1>2. CASE TryPropose(r, w, q, d, t, store[r]) /\ UNCHANGED statuses
  <2>1. store[r] \in SUBSET Block
    BY DEF TypeOK
  <2>2. statuses' \subseteq Honest \X (1..MaxView) \X Block
    BY <1>2 DEF TypeOK
  <2>3. QED
    BY <1>1, <1>2, <2>1, <2>2, TryProposeType
<1>3. CASE /\ step' = [step EXCEPT ![r] = "WaitingForProposal"]
           /\ statuses' = statuses \cup {<<r, w, locked[r]>>}
           /\ UNCHANGED <<store, proposals, votes1, lastVote1>>
  <2>1. w \in 1..MaxView
    BY BoundAssumption DEF AdvanceViewTo, EnterView, TypeOK
  <2>2. QED
    BY <1>1, <1>3, <2>1 DEF TypeOK, ViewStep
<1>4. QED
  BY <1>2, <1>3 DEF AdvanceViewTo, EnterView

(* What a crash does to the types. *)
LEMMA StopType ==
    ASSUME TypeOK, NEW r \in Honest, Stop(r)
    PROVE  /\ crashes' \in Nat
           /\ step' \in [Honest -> ViewStep]
           /\ highest' \in [Honest -> Block]
           /\ doubleCert' \in [Honest -> Block]
<1>1. Genesis \in Block
  BY BlockAssumption
<1>2. QED
  BY <1>1 DEF TypeOK, Stop, ViewStep

(* What is known of a proposal before on_proposal runs is well typed. *)
LEMMA ArrivalType ==
    ASSUME TypeOK, NEW r \in Honest, NEW m \in ProposalMsg
    PROVE  /\ Arrival(r, m).future = (ViewOf[m.block] > view[r])
           /\ Arrival(r, m).store \in SUBSET Block
           /\ Arrival(r, m).tip \in Block
           /\ Arrival(r, m).highest \in Block
<1>1. m.dc \in Block /\ m.anc \subseteq Block
  BY DEF ProposalMsg
<1>2. tip[r] \in Block /\ highest[r] \in Block /\ store[r] \subseteq Block
  BY DEF TypeOK
<1>3. QED
  BY <1>1, <1>2, HelperType DEF Arrival

(* The shared part of a proposal's handling keeps the types. *)
LEMMA PrologueType ==
    ASSUME TypeOK, NEW r \in Honest, NEW m \in ProposalMsg,
           ProposalPrologue(r, m, Arrival(r, m))
    PROVE  /\ view' \in [Honest -> 0..MaxView]
           /\ doubleCert' \in [Honest -> Block]
           /\ statuses' \subseteq Honest \X (1..MaxView) \X Block
           /\ UNCHANGED <<locked, lastVote2, crashes, proposals, prepares,
                          votes2, wishes>>
<1>1. m.block \in Block /\ m.dc \in Block
  BY DEF ProposalMsg
<1>2. view' \in [Honest -> 0..MaxView] /\ doubleCert' \in [Honest -> Block]
  BY <1>1, BlockAssumption DEF TypeOK, ProposalPrologue
<1>3. statuses' \subseteq Honest \X (1..MaxView) \X Block
  <2>1. CASE Arrival(r, m).future
    <3>1. ViewOf[m.block] \in 1..MaxView
      <4>1. /\ ViewOf[m.block] \in 0..MaxView
            /\ MaxView \in Nat
        BY <1>1, BlockAssumption, BoundAssumption
      <4>2. ViewOf[m.block] > view[r]
        BY <2>1, ArrivalType, Zenon
      <4>3. view[r] \in Nat
        BY BoundAssumption DEF TypeOK
      <4>4. QED
        BY <4>1, <4>2, <4>3
    <3>2. statuses' = statuses \cup {<<r, ViewOf[m.block], locked[r]>>}
      BY <2>1 DEF ProposalPrologue
    <3>3. QED
      BY <3>1, <3>2 DEF TypeOK
  <2>2. CASE ~ Arrival(r, m).future
    BY <2>2 DEF TypeOK, ProposalPrologue
  <2>3. QED
    BY <2>1, <2>2
<1>4. QED
  BY <1>2, <1>3 DEF ProposalPrologue

(* Every action keeps the types: Next taken apart, one step per action. *)
LEMMA TypeStep ==
    ASSUME TypeOK, [Next]_vars
    PROVE  TypeOK'
<1>1. CASE UNCHANGED vars
  BY <1>1 DEF TypeOK, vars
<1>2. ASSUME NEW r \in Honest, BootGenesis(r)
      PROVE  TypeOK'
  <2>1. doubleCert[r] \in Block /\ tip[r] \in Block /\ store[r] \in SUBSET Block
    BY DEF TypeOK
  <2>2. /\ step' \in [Honest -> ViewStep]
        /\ store' \in [Honest -> SUBSET Block]
        /\ proposals' \subseteq ProposalMsg
        /\ votes1' \subseteq Honest \X Block
        /\ lastVote1' \in [Honest -> Block]
    <3>1. CASE TryPropose(r, 1, Genesis, doubleCert[r], tip[r], store[r])
      BY <2>1, <3>1, TryProposeType, BlockAssumption
    <3>2. CASE /\ step' = [step EXCEPT ![r] = "WaitingForProposal"]
               /\ UNCHANGED <<store, proposals, votes1, lastVote1>>
      BY <3>2 DEF TypeOK, ViewStep
    <3>3. QED
      BY <1>2, <3>1, <3>2 DEF BootGenesis
  <2>3. view' \in [Honest -> 0..MaxView] /\ highest' \in [Honest -> Block]
    BY <1>2, BlockAssumption, BoundAssumption, SMTT(30) DEF TypeOK, BootGenesis
  <2>4. QED
    BY <1>2, <2>2, <2>3 DEF TypeOK, BootGenesis
<1>3. ASSUME NEW r \in Honest, BootResume(r)
      PROVE  TypeOK'
  BY <1>3, BoundAssumption, SMTT(30) DEF TypeOK, BootResume, ViewStep, messages
<1>4. ASSUME NEW r \in Honest, Crash(r)
      PROVE  TypeOK'
  BY <1>4, StopType DEF TypeOK, Crash, messages
<1>5. ASSUME NEW r \in Honest, NEW m \in DeliverableProposal,
             OnUnusableProposal(r, m)
      PROVE  TypeOK'
  <2>1. m.block \in Block /\ m.anc \subseteq Block
    BY <1>5, DeliverableType DEF ProposalMsg
  <2>2. store' \in [Honest -> SUBSET Block]
    BY <1>5, <2>1 DEF TypeOK, OnUnusableProposal
  <2>3. QED
    BY <1>5, <2>2 DEF TypeOK, OnUnusableProposal, messages
<1>6. ASSUME NEW r \in Honest, NEW m \in DeliverableProposal,
             RejectProposal(r, m)
      PROVE  TypeOK'
  <2>1. m \in ProposalMsg
    BY <1>6, DeliverableType
  <2>2. QED
    BY <1>6, <2>1, ArrivalType, PrologueType
       DEF TypeOK, RejectProposal, ProposalPrologue, ViewStep
<1>7. ASSUME NEW r \in Honest, NEW m \in DeliverableProposal,
             AcceptProposal(r, m)
      PROVE  TypeOK'
  <2> DEFINE a == Arrival(r, m)
             b == m.block
             st == a.store \cup {b}
             q == MaxQC(a.highest, Parent[b])
             t == CommitTip(a.tip, m.dc, st)
  <2>1. m \in ProposalMsg
    BY <1>7, DeliverableType
  <2>2. b \in Block /\ m.dc \in Block
    BY <2>1 DEF ProposalMsg
  <2>3. st \in SUBSET Block /\ q \in Block /\ t \in Block
    BY <2>1, <2>2, ArrivalType, HelperType, BlockAssumption
  <2>4. /\ store' = [store EXCEPT ![r] = st]
        /\ tip' = [tip EXCEPT ![r] = t]
        /\ highest' = [highest EXCEPT ![r] = q]
        /\ \E x \in {q, a.highest, saved[r]} : saved' = [saved EXCEPT ![r] = x]
        /\ \E x \in {"Voted", "WaitingForProposal"} : step' = [step EXCEPT ![r] = x]
        /\ \/ UNCHANGED <<lastVote1, votes1>>
           \/ /\ lastVote1' = [lastVote1 EXCEPT ![r] = b]
              /\ votes1' = votes1 \cup {<<r, b>>}
    BY <1>7 DEF AcceptProposal, TypeOK
  <2>5. /\ view' \in [Honest -> 0..MaxView]
        /\ doubleCert' \in [Honest -> Block]
        /\ statuses' \subseteq Honest \X (1..MaxView) \X Block
        /\ UNCHANGED <<locked, lastVote2, crashes, proposals, prepares, votes2,
                       wishes>>
    BY <1>7, <2>1, PrologueType DEF AcceptProposal
  <2>6. a.highest \in Block
    BY <2>1, ArrivalType
  <2>7. /\ store' \in [Honest -> SUBSET Block]
        /\ tip' \in [Honest -> Block]
        /\ highest' \in [Honest -> Block]
        /\ saved' \in [Honest -> Block]
        /\ step' \in [Honest -> ViewStep]
        /\ lastVote1' \in [Honest -> Block]
        /\ votes1' \subseteq Honest \X Block
    BY <2>2, <2>3, <2>4, <2>6 DEF TypeOK, ViewStep
  <2>8. QED
    BY <2>5, <2>7 DEF TypeOK
<1>8. ASSUME NEW r \in Honest, NEW b \in Block, OnQCFormed(r, b)
      PROVE  TypeOK'
  <2>1. \A p \in Block : MaxQC(p, b) \in Block
    BY HelperType
  <2>2. /\ prepares' \subseteq Block
        /\ highest' \in [Honest -> Block]
        /\ step' \in [Honest -> ViewStep]
    BY <1>8, <2>1 DEF TypeOK, OnQCFormed, ViewStep
  <2>3. /\ lastVote2' \in [Honest -> Block]
        /\ votes2' \subseteq Honest \X Block
        /\ locked' \in [Honest -> Block]
        /\ saved' \in [Honest -> Block]
    BY <1>8, <2>1 DEF TypeOK, OnQCFormed, SignVote2
  <2>4. QED
    BY <1>8, <2>2, <2>3 DEF TypeOK, OnQCFormed
<1>9. ASSUME NEW r \in Honest, NEW b \in Block, CrashInQCFormed(r, b)
      PROVE  TypeOK'
  <2>1. prepares' \subseteq Block /\ lastVote2' \in [Honest -> Block]
    BY <1>9 DEF TypeOK, CrashInQCFormed
  <2>2. Stop(r)
    BY <1>9 DEF CrashInQCFormed
  <2>3. QED
    BY <1>9, <2>1, <2>2, StopType DEF TypeOK, CrashInQCFormed
<1>10. ASSUME NEW r \in Honest, NEW b \in DeliverablePrepare, OnPrepare(r, b)
       PROVE  TypeOK'
  <2>1. b \in Block /\ \A p \in Block : MaxQC(p, b) \in Block
    BY HelperType, DeliverableType
  <2>2. /\ locked' \in [Honest -> Block]
        /\ highest' \in [Honest -> Block]
        /\ saved' \in [Honest -> Block]
        /\ step' \in [Honest -> ViewStep]
    BY <1>10, <2>1 DEF TypeOK, OnPrepare, ViewStep
  <2>3. /\ lastVote2' \in [Honest -> Block]
        /\ votes2' \subseteq Honest \X Block
    BY <1>10, <2>1 DEF TypeOK, OnPrepare, SignVote2
  <2>4. QED
    BY <1>10, <2>2, <2>3 DEF TypeOK, OnPrepare
<1>11. ASSUME NEW r \in Honest, NEW b \in DeliverablePrepare, IgnorePrepare(r, b)
       PROVE  TypeOK'
  BY <1>11 DEF TypeOK, IgnorePrepare, messages
<1>12. ASSUME NEW r \in Honest, NEW b \in DeliverablePrepare, CrashInPrepare(r, b)
       PROVE  TypeOK'
  <2>1. lastVote2' \in [Honest -> Block]
    BY <1>12, DeliverableType DEF TypeOK, CrashInPrepare
  <2>2. Stop(r)
    BY <1>12 DEF CrashInPrepare
  <2>3. QED
    BY <1>12, <2>1, <2>2, StopType DEF TypeOK, CrashInPrepare, messages
<1>13. ASSUME NEW r \in Honest, NEW b \in Block, OnDoubleCertFormed(r, b)
       PROVE  TypeOK'
  <2> DEFINE t == CommitTip(tip[r], b, store[r])
             q == MaxQC(highest[r], b)
  <2>1. t \in Block /\ q \in Block /\ view[r] + 1 \in Nat
    BY HelperType, SMTT(30) DEF TypeOK
  <2>2. AdvanceViewTo(r, view[r] + 1, q, b, t) /\ tip' = [tip EXCEPT ![r] = t]
    BY <1>13 DEF OnDoubleCertFormed
  <2> HIDE DEF t, q
  <2>3. /\ view' \in [Honest -> 0..MaxView]
        /\ step' \in [Honest -> ViewStep]
        /\ highest' \in [Honest -> Block]
        /\ saved' \in [Honest -> Block]
        /\ doubleCert' \in [Honest -> Block]
        /\ store' \in [Honest -> SUBSET Block]
        /\ lastVote1' \in [Honest -> Block]
        /\ proposals' \subseteq ProposalMsg
        /\ votes1' \subseteq Honest \X Block
        /\ statuses' \subseteq Honest \X (1..MaxView) \X Block
    BY <2>1, <2>2, AdvanceViewToType
  <2>4. tip' \in [Honest -> Block]
    BY <2>1, <2>2 DEF TypeOK
  <2>5. QED
    BY <1>13, <2>3, <2>4 DEF TypeOK, OnDoubleCertFormed
<1>14. ASSUME NEW r \in Honest, Timeout(r)
       PROVE  TypeOK'
  BY <1>14, BoundAssumption, SMTT(30) DEF TypeOK, Timeout, replicaVars
<1>15. ASSUME NEW r \in Honest, NEW w \in 1..MaxWishView, NEW q \in Block,
              OnTimeoutCert(r, w, q)
       PROVE  TypeOK'
  <2>1. MaxQC(highest[r], q) \in Block /\ doubleCert[r] \in Block /\ tip[r] \in Block
    BY HelperType DEF TypeOK
  <2>2. w \in Nat
    BY BoundAssumption
  <2>3. AdvanceViewTo(r, w, MaxQC(highest[r], q), doubleCert[r], tip[r])
    BY <1>15 DEF OnTimeoutCert
  <2>4. QED
    BY <1>15, <2>1, <2>2, <2>3, AdvanceViewToType DEF TypeOK, OnTimeoutCert
<1>16. ASSUME NEW r \in Honest, NEW q \in Block, OnStatusCert(r, q)
       PROVE  TypeOK'
  <2> DEFINE high == MaxQC(highest[r], q)
  <2>1. high \in Block /\ doubleCert[r] \in Block /\ tip[r] \in Block
          /\ store[r] \in SUBSET Block
    BY HelperType, SMTT(30) DEF TypeOK
  <2>2. /\ step' \in [Honest -> ViewStep]
        /\ store' \in [Honest -> SUBSET Block]
        /\ proposals' \subseteq ProposalMsg
        /\ votes1' \subseteq Honest \X Block
        /\ lastVote1' \in [Honest -> Block]
    <3>1. CASE UNCHANGED <<step, store, proposals, votes1, lastVote1>>
      BY <3>1 DEF TypeOK
    <3>2. CASE TryPropose(r, view[r], high, doubleCert[r], tip[r], store[r])
      BY <2>1, <3>2, TryProposeType
    <3>3. QED
      BY <1>16, <3>1, <3>2 DEF OnStatusCert
  <2>3. QED
    BY <1>16, <2>1, <2>2 DEF TypeOK, OnStatusCert
<1>17. ASSUME NEW r \in Honest, NEW w \in 1..MaxView, NEW b \in Block,
              FastForward(r, w, b)
       PROVE  TypeOK'
  <2> DEFINE t == CommitTip(tip[r], b, store[r])
             q == MaxQC(highest[r], b)
  <2>1. t \in Block /\ q \in Block /\ w \in Nat
    BY HelperType, SMTT(30) DEF TypeOK
  <2>2. AdvanceViewTo(r, w, q, b, t) /\ tip' = [tip EXCEPT ![r] = t]
    BY <1>17 DEF FastForward
  <2> HIDE DEF t, q
  <2>3. /\ view' \in [Honest -> 0..MaxView]
        /\ step' \in [Honest -> ViewStep]
        /\ highest' \in [Honest -> Block]
        /\ saved' \in [Honest -> Block]
        /\ doubleCert' \in [Honest -> Block]
        /\ store' \in [Honest -> SUBSET Block]
        /\ lastVote1' \in [Honest -> Block]
        /\ proposals' \subseteq ProposalMsg
        /\ votes1' \subseteq Honest \X Block
        /\ statuses' \subseteq Honest \X (1..MaxView) \X Block
    BY <2>1, <2>2, AdvanceViewToType
  <2>4. tip' \in [Honest -> Block]
    BY <2>1, <2>2 DEF TypeOK
  <2>5. QED
    BY <1>17, <2>3, <2>4 DEF TypeOK, FastForward
<1>18. QED
  BY <1>1, <1>2, <1>3, <1>4, <1>5, <1>6, <1>7, <1>8, <1>9, <1>10, <1>11,
     <1>12, <1>13, <1>14, <1>15, <1>16, <1>17 DEF Next

(* THEOREM: every variable keeps its type, for all constants (the state of *)
(* ConsensusState and the messages of the event loop).                     *)
THEOREM TypeCorrect == Spec => []TypeOK
<1>1. Init => TypeOK
  BY BlockAssumption, BoundAssumption DEF Init, TypeOK, ViewStep, ProposalMsg
<1>2. TypeOK /\ [Next]_vars => TypeOK'
  BY TypeStep
<1>3. QED
  BY <1>1, <1>2, PTL DEF Spec

-----------------------------------------------------------------------------
(* What one step does to the votes and locks.                              *)

(* Views never fall. *)
ViewsRise == \A s \in Honest : view[s] <= view'[s]

(* Nothing is signed and no lock moves. *)
QuietStep == UNCHANGED <<votes1, votes2, lastVote1, lastVote2, locked>>

(* r votes for b: its parent passed the lock check, or is the highest_qc   *)
(* the leader proposes on.                                                 *)
Vote1Step(r, b) ==
    /\ MaySign(lastVote1[r], b)
    /\ b # Genesis
    /\ ViewOf[b] = view'[r]
    /\ Parent[b] \in QCs
    /\ ViewOf[locked[r]] <= ViewOf[Parent[b]] \/ Parent[b] = highest'[r]
    /\ votes1' = votes1 \cup {<<r, b>>}
    /\ lastVote1' = [lastVote1 EXCEPT ![r] = b]
    /\ UNCHANGED <<votes2, lastVote2, locked>>

(* r locks b, and sends and records its Vote2 if the guard agrees. *)
LockStep(r, b) ==
    /\ b # Genesis
    /\ ViewOf[b] = view[r]
    /\ b \in QCs
    /\ locked' = [locked EXCEPT ![r] = MaxQC(@, b)]
    /\ \/ UNCHANGED <<votes2, lastVote2>>
       \/ /\ MaySign(lastVote2[r], b)
          /\ votes2' = votes2 \cup {<<r, b>>}
          /\ lastVote2' = [lastVote2 EXCEPT ![r] = b]
    /\ UNCHANGED <<votes1, lastVote1>>

(* r records a Vote2 for b and crashes before it leaves. *)
RecordStep(r, b) ==
    /\ MaySign(lastVote2[r], b)
    /\ ViewOf[b] = view[r]
    /\ lastVote2' = [lastVote2 EXCEPT ![r] = b]
    /\ UNCHANGED <<votes1, votes2, lastVote1, locked>>

Effect ==
    /\ ViewsRise
    /\ \/ QuietStep
       \/ \E r \in Honest, b \in Block :
             Vote1Step(r, b) \/ LockStep(r, b) \/ RecordStep(r, b)

(* All that is held or sent after the step was certified before it. *)
HeldAfter ==
    \A r \in Honest :
        /\ {locked'[r], highest'[r], saved'[r]} \subseteq QCs
        /\ {doubleCert'[r], tip'[r]} \subseteq DCs

SentAfter ==
    /\ \A m \in proposals' : /\ m.block # Genesis
                             /\ Parent[m.block] \in QCs
                             /\ m.dc \in DCs
    /\ prepares' \subseteq QCs
    /\ \A w \in wishes' : w[3] \in QCs
    /\ \A s \in statuses' : s[3] \in QCs
    /\ \A v \in votes1' : Parent[v[2]] \in QCs
    /\ \A v \in votes2' : v[2] \in QCs

(* Genesis is certified, and a double certificate contains a certificate. *)
LEMMA CertificateSets ==
    /\ Genesis \in DCs
    /\ DCs \subseteq QCs
    /\ QCs \subseteq Block
BY BlockAssumption DEF QCs, DCs, Certified, DoubleCertified

(* Deliverable messages carry certificates that exist. *)
LEMMA DeliverableEvidence ==
    ASSUME TypeOK, SentEvidence
    PROVE  /\ \A m \in DeliverableProposal : /\ m.block # Genesis
                                             /\ Parent[m.block] \in QCs
                                             /\ m.dc \in DCs
           /\ DeliverablePrepare \subseteq QCs
           /\ \A w : \A q \in Block : TimeoutCert(w, q) \/ ReportedLock(w, q)
                                        => q \in QCs
<1>1. ASSUME NEW m \in ByzantineProposals
      PROVE  m.block # Genesis /\ Parent[m.block] \in QCs /\ m.dc \in DCs
  <2>1. PICK b \in {c \in Block \ {Genesis} : Certified(Parent[c])} :
              m \in [block : {b},
                     dc : {d \in Block : DoubleCertified(d)},
                     anc : {{}, Ancestors[b] \ {b}}]
    BY <1>1 DEF ByzantineProposals, ByzantineBlocks
  <2>2. m.block = b /\ m.dc \in DCs
    BY <2>1 DEF DCs
  <2>3. QED
    BY <2>1, <2>2, BlockAssumption DEF QCs
<1>2. ASSUME NEW m \in DeliverableProposal
      PROVE  m.block # Genesis /\ Parent[m.block] \in QCs /\ m.dc \in DCs
  BY <1>1, <1>2 DEF DeliverableProposal, SentEvidence
<1>3. DeliverablePrepare \subseteq QCs
  BY DEF DeliverablePrepare, SentEvidence, QCs
<1>4. ASSUME NEW w, NEW q \in Block, TimeoutCert(w, q) \/ ReportedLock(w, q)
      PROVE  q \in QCs
  <2>1. CASE \E s \in Honest : <<s, w, q>> \in wishes
    BY <2>1 DEF SentEvidence
  <2>2. CASE \E s \in Honest : <<s, w, q>> \in statuses
    BY <2>2 DEF SentEvidence
  <2>3. CASE Certified(q)
    BY <2>3 DEF QCs
  <2>4. QED
    BY <1>4, <2>1, <2>2, <2>3 DEF TimeoutCert, ReportedLock
<1>5. QED
  BY <1>2, <1>3, <1>4

(* Proposing on highest_qc: the leader's own vote. *)
LEMMA TryProposeEffect ==
    ASSUME TypeOK, SentEvidence, NEW r \in Honest, NEW w \in Nat \ {0},
           NEW q \in QCs, NEW d \in DCs, NEW t \in Block, NEW st,
           TryPropose(r, w, q, d, t, st),
           view'[r] = w, highest'[r] = q, UNCHANGED <<votes2, lastVote2, locked>>
    PROVE  /\ QuietStep \/ \E b \in Block : Vote1Step(r, b)
           /\ \A m \in proposals' : /\ m.block # Genesis
                                    /\ Parent[m.block] \in QCs
                                    /\ m.dc \in DCs
           /\ \A v \in votes1' : Parent[v[2]] \in QCs
<1>1. CASE UNCHANGED <<proposals, votes1, lastVote1>>
  BY <1>1 DEF QuietStep, SentEvidence
<1>2. ASSUME NEW b \in Block, ViewOf[b] = w, Parent[b] = q,
             proposals' = proposals \cup
                {[block |-> b, dc |-> d, anc |-> AncestorBlocks(q, t, st)]},
             SelfVote(r, b)
      PROVE  /\ QuietStep \/ Vote1Step(r, b)
             /\ \A m \in proposals' : /\ m.block # Genesis
                                      /\ Parent[m.block] \in QCs
                                      /\ m.dc \in DCs
             /\ \A v \in votes1' : Parent[v[2]] \in QCs
  <2>1. b # Genesis
    BY <1>2, BlockAssumption
  <2>2. QuietStep \/ Vote1Step(r, b)
    BY <1>2, <2>1 DEF SelfVote, QuietStep, Vote1Step
  <2>3. \A m \in proposals' : /\ m.block # Genesis
                              /\ Parent[m.block] \in QCs
                              /\ m.dc \in DCs
    BY <1>2, <2>1 DEF SentEvidence
  <2>4. \A v \in votes1' : Parent[v[2]] \in QCs
    BY <1>2 DEF SentEvidence, SelfVote
  <2>5. QED
    BY <2>2, <2>3, <2>4
<1>3. QED
  <2>1. CASE q \notin st \/ w > MaxProposeView
    BY <1>1, <2>1, BoundAssumption DEF TryPropose, Propose
  <2>2. CASE \E b \in Block :
               /\ ViewOf[b] = w
               /\ Parent[b] = q
               /\ proposals' = proposals \cup
                    {[block |-> b, dc |-> d, anc |-> AncestorBlocks(q, t, st)]}
               /\ SelfVote(r, b)
    BY <1>2, <2>2
  <2>3. QED
    BY <1>1, <2>2 DEF TryPropose, Propose

(* Entering a view with a certified highest_qc and double certificate. *)
LEMMA AdvanceViewToEffect ==
    ASSUME TypeOK, Started, HeldEvidence, SentEvidence,
           NEW r \in Honest, NEW w \in Nat, NEW q \in QCs, NEW d \in DCs,
           NEW t \in Block, AdvanceViewTo(r, w, q, d, t),
           UNCHANGED <<locked, lastVote2, votes2>>
    PROVE  /\ Effect
           /\ Started'
           /\ \A s \in Honest : /\ {highest'[s], saved'[s]} \subseteq QCs
                                /\ doubleCert'[s] \in DCs
           /\ \A m \in proposals' : /\ m.block # Genesis
                                    /\ Parent[m.block] \in QCs
                                    /\ m.dc \in DCs
           /\ \A s \in statuses' : s[3] \in QCs
           /\ \A v \in votes1' : Parent[v[2]] \in QCs
<1>1. /\ w > view[r]
      /\ view' = [view EXCEPT ![r] = w]
      /\ highest' = [highest EXCEPT ![r] = q]
      /\ saved' = [saved EXCEPT ![r] = q]
      /\ doubleCert' = [doubleCert EXCEPT ![r] = d]
  BY DEF AdvanceViewTo, EnterView
<1>2. \A s \in Honest : view[s] \in Nat
  BY BoundAssumption DEF TypeOK
<1>3. ViewsRise /\ w \in Nat \ {0} /\ view'[r] = w /\ highest'[r] = q
  BY <1>1, <1>2 DEF TypeOK, ViewsRise
<1>4. Started'
  <2>1. \A s \in Honest \ {r} : step'[s] = step[s]
    BY DEF AdvanceViewTo, EnterView, TryPropose, Propose, TypeOK
  <2>2. QED
    BY <1>1, <1>2, <1>3, <2>1 DEF TypeOK, Started
<1>5. \A s \in Honest : {highest'[s], saved'[s]} \subseteq QCs /\ doubleCert'[s] \in DCs
  BY <1>1 DEF TypeOK, HeldEvidence
<1>6. CASE TryPropose(r, w, q, d, t, store[r]) /\ UNCHANGED statuses
  <2>1. /\ QuietStep \/ \E b \in Block : Vote1Step(r, b)
        /\ \A m \in proposals' : /\ m.block # Genesis
                                 /\ Parent[m.block] \in QCs
                                 /\ m.dc \in DCs
        /\ \A v \in votes1' : Parent[v[2]] \in QCs
    BY <1>3, <1>6, TryProposeEffect
  <2>2. \A s \in statuses' : s[3] \in QCs
    BY <1>6 DEF SentEvidence
  <2>3. QED
    BY <1>3, <1>4, <1>5, <2>1, <2>2 DEF Effect
<1>7. CASE /\ statuses' = statuses \cup {<<r, w, locked[r]>>}
           /\ UNCHANGED <<store, proposals, votes1, lastVote1>>
  <2>1. QuietStep
    BY <1>7 DEF QuietStep
  <2>2. \A s \in statuses' : s[3] \in QCs
    BY <1>7 DEF SentEvidence, HeldEvidence
  <2>3. QED
    BY <1>3, <1>4, <1>5, <1>7, <2>1, <2>2 DEF Effect, SentEvidence
<1>8. QED
  BY <1>6, <1>7 DEF AdvanceViewTo, EnterView

(* A proposal that is handled in the current view or a later one. *)
LEMMA ProposalFacts ==
    ASSUME TypeOK, Started, HeldEvidence, SentEvidence,
           NEW r \in Honest, NEW m \in DeliverableProposal,
           ProposalPrologue(r, m, Arrival(r, m))
    PROVE  /\ m.block \in Block \ {Genesis}
           /\ Parent[m.block] \in QCs
           /\ m.dc \in DCs
           /\ view'[r] = ViewOf[m.block]
           /\ ViewsRise
           /\ \A s \in Honest : view'[s] >= view[s] /\ (s # r => view'[s] = view[s])
           /\ view[r] >= 1
           /\ Arrival(r, m).highest \in {highest[r], m.dc}
           /\ Arrival(r, m).tip \in {tip[r], m.dc}
           /\ \A s \in Honest : doubleCert'[s] \in DCs
           /\ \A s \in statuses' : s[3] \in QCs
           /\ UNCHANGED <<locked, lastVote2, proposals, prepares, votes2, wishes>>
<1>1. m \in ProposalMsg
  BY DeliverableType
<1>2. m.block \in Block /\ m.dc \in Block
  BY <1>1 DEF ProposalMsg
<1>3. m.block # Genesis /\ Parent[m.block] \in QCs /\ m.dc \in DCs
  BY DeliverableEvidence
<1>4. ViewOf[m.block] \in Nat /\ \A s \in Honest : view[s] \in Nat
  <2>1. ViewOf[m.block] \in Nat
    BY <1>2, BlockAssumption, BoundAssumption
  <2>2. \A s \in Honest : view[s] \in Nat
    BY BoundAssumption DEF TypeOK
  <2>3. QED
    BY <2>1, <2>2
<1>5. /\ view' = [view EXCEPT ![r] = ViewOf[m.block]]
      /\ ViewOf[m.block] >= view[r]
      /\ step[r] # "Stopped"
      /\ UNCHANGED <<locked, lastVote2, proposals, prepares, votes2, wishes>>
  BY DEF ProposalPrologue
<1>6. /\ view'[r] = ViewOf[m.block]
      /\ \A s \in Honest : view'[s] >= view[s] /\ (s # r => view'[s] = view[s])
      /\ view[r] >= 1
  BY <1>4, <1>5 DEF TypeOK, Started
<1>7. ViewsRise
  BY <1>4, <1>5 DEF TypeOK, ViewsRise
<1>8. /\ Arrival(r, m).highest \in {highest[r], m.dc}
      /\ Arrival(r, m).tip \in {tip[r], m.dc}
  <2>1. highest[r] \in Block
    BY DEF TypeOK
  <2>2. QED
    BY <1>2, <2>1, HelperType DEF Arrival
<1>9. \A s \in Honest : doubleCert'[s] \in DCs
  <2>1. CASE doubleCert' = [doubleCert EXCEPT ![r] = m.dc]
    BY <1>3, <2>1 DEF TypeOK, HeldEvidence
  <2>2. CASE doubleCert' = doubleCert
    BY <2>2 DEF HeldEvidence
  <2>3. QED
    BY <2>1, <2>2 DEF ProposalPrologue
<1>10. \A s \in statuses' : s[3] \in QCs
  <2>1. CASE statuses' = statuses \cup {<<r, ViewOf[m.block], locked[r]>>}
    BY <2>1 DEF HeldEvidence, SentEvidence
  <2>2. CASE statuses' = statuses
    BY <2>2 DEF SentEvidence
  <2>3. QED
    BY <2>1, <2>2 DEF ProposalPrologue
<1>11. QED
  BY <1>2, <1>3, <1>5, <1>6, <1>7, <1>8, <1>9, <1>10

(* Every action has the effect described above, and uses only certificates *)
(* that exist.                                                             *)
LEMMA StepFacts ==
    ASSUME TypeOK, Started, HeldEvidence, SentEvidence, [Next]_vars
    PROVE  Effect /\ Started' /\ HeldAfter /\ SentAfter
<1> USE CertificateSets
<1>0. /\ \A s \in Honest : view[s] \in Nat
      /\ \A s \in Honest : highest[s] \in Block /\ locked[s] \in Block
  BY BoundAssumption DEF TypeOK
<1>1. CASE UNCHANGED vars
  <2>1. Effect
    BY <1>0, <1>1 DEF Effect, QuietStep, ViewsRise, vars
  <2>2. QED
    BY <1>1, <2>1 DEF vars, Started, HeldEvidence, SentEvidence, HeldAfter,
                      SentAfter
<1>2. ASSUME NEW r \in Honest, BootGenesis(r)
      PROVE  Effect /\ Started' /\ HeldAfter /\ SentAfter
  <2>1. /\ view' = [view EXCEPT ![r] = 1]
        /\ highest' = [highest EXCEPT ![r] = Genesis]
        /\ UNCHANGED <<locked, saved, doubleCert, lastVote2, tip, prepares,
                       votes2, wishes, statuses>>
    BY <1>2 DEF BootGenesis
  <2>2. view[r] <= 1
    BY <1>0, <1>2, BlockAssumption DEF BootGenesis, RestoredView, TypeOK
  <2>3. ViewsRise /\ view'[r] = 1 /\ highest'[r] = Genesis
    BY <1>0, <2>1, <2>2 DEF TypeOK, ViewsRise
  <2>4. Started'
    <3>1. \A s \in Honest \ {r} : step'[s] = step[s]
      BY <1>2 DEF BootGenesis, TryPropose, Propose, TypeOK
    <3>2. QED
      BY <2>1, <3>1 DEF TypeOK, Started
  <2>5. HeldAfter
    BY <2>1 DEF TypeOK, HeldEvidence, HeldAfter
  <2>6. CASE TryPropose(r, 1, Genesis, doubleCert[r], tip[r], store[r])
    <3>1. doubleCert[r] \in DCs /\ tip[r] \in Block /\ Genesis \in QCs
      BY DEF HeldEvidence
    <3>2. /\ QuietStep \/ \E b \in Block : Vote1Step(r, b)
          /\ \A m \in proposals' : /\ m.block # Genesis
                                   /\ Parent[m.block] \in QCs
                                   /\ m.dc \in DCs
          /\ \A v \in votes1' : Parent[v[2]] \in QCs
      BY <2>1, <2>3, <2>6, <3>1, TryProposeEffect
    <3>3. QED
      BY <2>1, <2>3, <2>4, <2>5, <3>2 DEF Effect, SentEvidence, SentAfter
  <2>7. CASE UNCHANGED <<store, proposals, votes1, lastVote1>>
    BY <2>1, <2>3, <2>4, <2>5, <2>7 DEF Effect, QuietStep, SentEvidence, SentAfter
  <2>8. QED
    BY <1>2, <2>6, <2>7 DEF BootGenesis
<1>3. ASSUME NEW r \in Honest, BootResume(r)
      PROVE  Effect /\ Started' /\ HeldAfter /\ SentAfter
  <2>1. view[r] <= RestoredView(r) /\ RestoredView(r) >= 1 /\ RestoredView(r) \in Nat
    <3>1. ViewOf[tip[r]] \in Nat
      BY BlockAssumption, BoundAssumption DEF TypeOK
    <3>2. QED
      BY <1>0, <1>3, <3>1 DEF BootResume, RestoredView
  <2>2. Effect
    BY <1>0, <1>3, <2>1 DEF BootResume, Effect, QuietStep, ViewsRise, TypeOK, messages
  <2>3. Started'
    BY <1>3, <2>1 DEF BootResume, Started, TypeOK
  <2>4. QED
    BY <1>3, <2>2, <2>3 DEF BootResume, HeldEvidence, SentEvidence, HeldAfter,
                            SentAfter, messages
<1>4. ASSUME NEW r \in Honest, Crash(r)
      PROVE  Effect /\ Started' /\ HeldAfter /\ SentAfter
  <2>1. Effect
    BY <1>0, <1>4 DEF Crash, Effect, QuietStep, ViewsRise, messages
  <2>2. Started'
    BY <1>4 DEF Crash, Stop, Started, TypeOK
  <2>3. HeldAfter
    BY <1>4 DEF Crash, Stop, TypeOK, HeldEvidence, HeldAfter
  <2>4. QED
    BY <1>4, <2>1, <2>2, <2>3 DEF Crash, SentEvidence, SentAfter, messages
<1>5. ASSUME NEW r \in Honest, NEW m \in DeliverableProposal,
             OnUnusableProposal(r, m)
      PROVE  Effect /\ Started' /\ HeldAfter /\ SentAfter
  <2>1. Effect
    BY <1>0, <1>5 DEF OnUnusableProposal, Effect, QuietStep, ViewsRise, messages
  <2>2. QED
    BY <1>5, <2>1 DEF OnUnusableProposal, Started, HeldEvidence, SentEvidence,
                      HeldAfter, SentAfter, messages
<1>6. ASSUME NEW r \in Honest, NEW m \in DeliverableProposal,
             RejectProposal(r, m)
      PROVE  Effect /\ Started' /\ HeldAfter /\ SentAfter
  <2> DEFINE a == Arrival(r, m)
  <2>0. ProposalPrologue(r, m, a)
    BY <1>6 DEF RejectProposal
  <2>1. /\ m.dc \in DCs
        /\ ViewsRise
        /\ \A s \in Honest : view'[s] >= view[s] /\ (s # r => view'[s] = view[s])
        /\ view[r] >= 1
        /\ a.highest \in {highest[r], m.dc}
        /\ a.tip \in {tip[r], m.dc}
        /\ \A s \in Honest : doubleCert'[s] \in DCs
        /\ \A s \in statuses' : s[3] \in QCs
        /\ UNCHANGED <<locked, lastVote2, proposals, prepares, votes2, wishes>>
    BY <2>0, ProposalFacts
  <2>2. /\ tip' = [tip EXCEPT ![r] = a.tip]
        /\ highest' = [highest EXCEPT ![r] = a.highest]
        /\ saved' = [saved EXCEPT ![r] = a.highest] \/ saved' = saved
        /\ step' = [step EXCEPT ![r] = "WaitingForProposal"] \/ step' = step
        /\ UNCHANGED <<lastVote1, votes1>>
    BY <1>6 DEF RejectProposal
  <2> HIDE DEF a
  <2>3. Effect
    BY <2>1, <2>2 DEF Effect, QuietStep
  <2>4. Started'
    <3>1. \A s \in Honest \ {r} : step'[s] = step[s]
      BY <2>2 DEF TypeOK
    <3>2. view'[r] >= 1
      <4>1. view'[r] \in Nat
        BY TypeStep, BoundAssumption DEF TypeOK
      <4>2. QED
        BY <1>0, <2>1, <4>1
    <3>3. QED
      BY <2>1, <3>1, <3>2 DEF Started
  <2>5. HeldAfter
    <3>1. a.highest \in QCs /\ a.tip \in DCs
      BY <2>1 DEF HeldEvidence
    <3>2. QED
      BY <2>1, <2>2, <3>1 DEF TypeOK, HeldEvidence, HeldAfter
  <2>6. SentAfter
    BY <2>1, <2>2 DEF SentEvidence, SentAfter
  <2>7. QED
    BY <2>3, <2>4, <2>5, <2>6
<1>7. ASSUME NEW r \in Honest, NEW m \in DeliverableProposal,
             AcceptProposal(r, m)
      PROVE  Effect /\ Started' /\ HeldAfter /\ SentAfter
  <2> DEFINE a == Arrival(r, m)
             b == m.block
             q == MaxQC(a.highest, Parent[b])
             t == CommitTip(a.tip, m.dc, a.store \cup {b})
  <2>0. ProposalPrologue(r, m, a)
    BY <1>7 DEF AcceptProposal
  <2>1. /\ b \in Block \ {Genesis}
        /\ Parent[b] \in QCs
        /\ m.dc \in DCs
        /\ view'[r] = ViewOf[b]
        /\ ViewsRise
        /\ \A s \in Honest : view'[s] >= view[s] /\ (s # r => view'[s] = view[s])
        /\ view[r] >= 1
        /\ a.highest \in {highest[r], m.dc}
        /\ a.tip \in {tip[r], m.dc}
        /\ \A s \in Honest : doubleCert'[s] \in DCs
        /\ \A s \in statuses' : s[3] \in QCs
        /\ UNCHANGED <<locked, lastVote2, proposals, prepares, votes2, wishes>>
    BY <2>0, ProposalFacts
  <2>2. /\ tip' = [tip EXCEPT ![r] = t]
        /\ highest' = [highest EXCEPT ![r] = q]
        /\ \E x \in {q, a.highest, saved[r]} : saved' = [saved EXCEPT ![r] = x]
        /\ \E x \in {"Voted", "WaitingForProposal"} : step' = [step EXCEPT ![r] = x]
        /\ \/ UNCHANGED <<lastVote1, votes1>>
           \/ /\ lastVote1' = [lastVote1 EXCEPT ![r] = b]
              /\ votes1' = votes1 \cup {<<r, b>>}
              /\ MaySign(lastVote1[r], b)
        /\ DominatesLock(Parent[b], locked[r])
    BY <1>7 DEF AcceptProposal, Acceptable, TypeOK
  <2>3. a.highest \in QCs /\ a.tip \in DCs
    BY <2>1 DEF HeldEvidence
  <2>4. q \in QCs /\ t \in DCs
    BY <2>1, <2>3, HelperType
  <2> HIDE DEF a, q, t
  <2>5. ViewOf[locked[r]] <= ViewOf[Parent[b]]
    <3>1. ViewOf[locked[r]] \in Nat /\ ViewOf[Parent[b]] \in Nat
      BY <1>0, <2>1, BlockAssumption, BoundAssumption
    <3>2. QED
      BY <2>2, <3>1 DEF DominatesLock
  <2>6. Effect
    <3>1. CASE UNCHANGED <<lastVote1, votes1>>
      BY <2>1, <3>1 DEF Effect, QuietStep
    <3>2. CASE /\ lastVote1' = [lastVote1 EXCEPT ![r] = b]
               /\ votes1' = votes1 \cup {<<r, b>>}
               /\ MaySign(lastVote1[r], b)
      <4>1. Vote1Step(r, b)
        BY <2>1, <2>5, <3>2 DEF Vote1Step
      <4>2. QED
        BY <2>1, <4>1 DEF Effect
    <3>3. QED
      BY <2>2, <3>1, <3>2
  <2>7. Started'
    <3>1. \A s \in Honest \ {r} : step'[s] = step[s]
      BY <2>2 DEF TypeOK
    <3>2. view'[r] >= 1
      <4>1. view'[r] \in Nat
        BY TypeStep, BoundAssumption DEF TypeOK
      <4>2. QED
        BY <1>0, <2>1, <4>1
    <3>3. QED
      BY <2>1, <3>1, <3>2 DEF Started
  <2>8. HeldAfter
    BY <2>1, <2>2, <2>3, <2>4 DEF TypeOK, HeldEvidence, HeldAfter
  <2>9. SentAfter
    BY <2>1, <2>2 DEF SentEvidence, SentAfter
  <2>10. QED
    BY <2>6, <2>7, <2>8, <2>9
<1>8. ASSUME NEW r \in Honest, NEW b \in Block, OnQCFormed(r, b)
      PROVE  Effect /\ Started' /\ HeldAfter /\ SentAfter
  <2>1. b \in QCs /\ b # Genesis
    BY <1>0, <1>8, BlockAssumption DEF OnQCFormed, QCs, Started
  <2>2. MaxQC(highest[r], b) \in QCs /\ MaxQC(locked[r], b) \in QCs
    BY <1>0, <2>1, HelperType DEF HeldEvidence
  <2>3. Effect
    <3>1. ViewsRise
      BY <1>0, <1>8 DEF OnQCFormed, ViewsRise
    <3>2. CASE UNCHANGED <<lastVote2, votes2, locked>>
      BY <1>8, <3>1, <3>2 DEF OnQCFormed, Effect, QuietStep
    <3>3. CASE /\ MaySign(lastVote2[r], b)
               /\ SignVote2(r, b)
               /\ locked' = [locked EXCEPT ![r] = MaxQC(@, b)]
      <4>1. LockStep(r, b)
        BY <1>8, <2>1, <3>3 DEF OnQCFormed, LockStep, SignVote2
      <4>2. QED
        BY <3>1, <4>1 DEF Effect
    <3>4. QED
      BY <1>8, <3>2, <3>3 DEF OnQCFormed
  <2>4. Started'
    BY <1>8 DEF OnQCFormed, Started, TypeOK
  <2>5. HeldAfter
    BY <1>8, <2>2 DEF OnQCFormed, TypeOK, HeldEvidence, HeldAfter
  <2>6. SentAfter
    BY <1>8, <2>1 DEF OnQCFormed, SignVote2, SentEvidence, SentAfter
  <2>7. QED
    BY <2>3, <2>4, <2>5, <2>6
<1>9. ASSUME NEW r \in Honest, NEW b \in Block, CrashInQCFormed(r, b)
      PROVE  Effect /\ Started' /\ HeldAfter /\ SentAfter
  <2>1. b \in QCs
    BY <1>9 DEF CrashInQCFormed, QCs
  <2>2. Effect
    <3>1. RecordStep(r, b) /\ ViewsRise
      BY <1>0, <1>9 DEF CrashInQCFormed, RecordStep, ViewsRise
    <3>2. QED
      BY <3>1 DEF Effect
  <2>3. Started'
    BY <1>9 DEF CrashInQCFormed, Stop, Started, TypeOK
  <2>4. HeldAfter
    BY <1>9 DEF CrashInQCFormed, Stop, TypeOK, HeldEvidence, HeldAfter
  <2>5. SentAfter
    BY <1>9, <2>1 DEF CrashInQCFormed, SentEvidence, SentAfter
  <2>6. QED
    BY <2>2, <2>3, <2>4, <2>5
<1>10. ASSUME NEW r \in Honest, NEW b \in DeliverablePrepare, OnPrepare(r, b)
       PROVE  Effect /\ Started' /\ HeldAfter /\ SentAfter
  <2>1. b \in QCs
    BY <1>10, DeliverableEvidence
  <2>2. b # Genesis /\ b \in Block
    BY <1>0, <1>10, <2>1, BlockAssumption DEF OnPrepare, PrepareMatches, Started
  <2>3. MaxQC(highest[r], b) \in QCs /\ MaxQC(locked[r], b) \in QCs
    BY <1>0, <2>1, <2>2, HelperType DEF HeldEvidence
  <2>4. Effect
    <3>1. ViewsRise /\ LockStep(r, b)
      BY <1>0, <1>10, <2>1, <2>2
         DEF OnPrepare, PrepareMatches, ViewsRise, LockStep, SignVote2
    <3>2. QED
      BY <2>2, <3>1 DEF Effect
  <2>5. Started'
    BY <1>10 DEF OnPrepare, Started, TypeOK
  <2>6. HeldAfter
    BY <1>10, <2>3 DEF OnPrepare, TypeOK, HeldEvidence, HeldAfter
  <2>7. SentAfter
    BY <1>10, <2>1 DEF OnPrepare, SignVote2, SentEvidence, SentAfter
  <2>8. QED
    BY <2>4, <2>5, <2>6, <2>7
<1>11. ASSUME NEW r \in Honest, NEW b \in DeliverablePrepare, IgnorePrepare(r, b)
       PROVE  Effect /\ Started' /\ HeldAfter /\ SentAfter
  <2>1. Effect
    BY <1>0, <1>11 DEF IgnorePrepare, Effect, QuietStep, ViewsRise, messages
  <2>2. HeldAfter
    BY <1>11 DEF IgnorePrepare, TypeOK, HeldEvidence, HeldAfter
  <2>3. QED
    BY <1>11, <2>1, <2>2 DEF IgnorePrepare, Started, SentEvidence, SentAfter, messages
<1>12. ASSUME NEW r \in Honest, NEW b \in DeliverablePrepare, CrashInPrepare(r, b)
       PROVE  Effect /\ Started' /\ HeldAfter /\ SentAfter
  <2>1. b \in Block
    BY DeliverableType
  <2>2. Effect
    <3>1. RecordStep(r, b) /\ ViewsRise
      BY <1>0, <1>12 DEF CrashInPrepare, PrepareMatches, RecordStep, ViewsRise, messages
    <3>2. QED
      BY <2>1, <3>1 DEF Effect
  <2>3. Started'
    BY <1>12 DEF CrashInPrepare, Stop, Started, TypeOK
  <2>4. HeldAfter
    BY <1>12 DEF CrashInPrepare, Stop, TypeOK, HeldEvidence, HeldAfter
  <2>5. SentAfter
    BY <1>12 DEF CrashInPrepare, SentEvidence, SentAfter, messages
  <2>6. QED
    BY <2>2, <2>3, <2>4, <2>5
<1>13. ASSUME NEW r \in Honest, NEW b \in Block, OnDoubleCertFormed(r, b)
       PROVE  Effect /\ Started' /\ HeldAfter /\ SentAfter
  <2> DEFINE t == CommitTip(tip[r], b, store[r])
             q == MaxQC(highest[r], b)
  <2>1. b \in DCs /\ b \in QCs
    BY <1>13 DEF OnDoubleCertFormed, DCs
  <2>2. t \in DCs /\ q \in QCs /\ t \in Block
    BY <1>0, <2>1, HelperType DEF HeldEvidence
  <2>3. /\ tip' = [tip EXCEPT ![r] = t]
        /\ AdvanceViewTo(r, view[r] + 1, q, b, t)
        /\ UNCHANGED <<locked, lastVote2, crashes, prepares, votes2, wishes>>
    BY <1>13 DEF OnDoubleCertFormed
  <2>4. view[r] + 1 \in Nat
    BY <1>0
  <2> HIDE DEF t, q
  <2>5. /\ Effect
        /\ Started'
        /\ \A s \in Honest : /\ {highest'[s], saved'[s]} \subseteq QCs
                             /\ doubleCert'[s] \in DCs
        /\ \A m \in proposals' : /\ m.block # Genesis
                                 /\ Parent[m.block] \in QCs
                                 /\ m.dc \in DCs
        /\ \A s \in statuses' : s[3] \in QCs
        /\ \A v \in votes1' : Parent[v[2]] \in QCs
    BY <2>1, <2>2, <2>3, <2>4, AdvanceViewToEffect
  <2>6. HeldAfter
    BY <2>2, <2>3, <2>5 DEF TypeOK, HeldEvidence, HeldAfter
  <2>7. SentAfter
    BY <2>3, <2>5 DEF SentEvidence, SentAfter
  <2>8. QED
    BY <2>5, <2>6, <2>7
<1>14. ASSUME NEW r \in Honest, Timeout(r)
       PROVE  Effect /\ Started' /\ HeldAfter /\ SentAfter
  <2>1. Effect
    BY <1>0, <1>14 DEF Timeout, Effect, QuietStep, ViewsRise, replicaVars
  <2>2. \A w \in wishes' : w[3] \in QCs
    BY <1>14 DEF Timeout, HeldEvidence, SentEvidence
  <2>3. QED
    BY <1>14, <2>1, <2>2 DEF Timeout, Started, HeldEvidence, SentEvidence,
                             HeldAfter, SentAfter, replicaVars
<1>15. ASSUME NEW r \in Honest, NEW w \in 1..MaxWishView, NEW q \in Block,
              OnTimeoutCert(r, w, q)
       PROVE  Effect /\ Started' /\ HeldAfter /\ SentAfter
  <2> DEFINE high == MaxQC(highest[r], q)
  <2>1. q \in QCs
    BY <1>15, DeliverableEvidence DEF OnTimeoutCert
  <2>2. high \in QCs /\ doubleCert[r] \in DCs /\ tip[r] \in Block /\ w \in Nat
    <3>1. w \in Nat
      BY BoundAssumption
    <3>2. QED
      BY <1>0, <2>1, <3>1, HelperType DEF HeldEvidence, TypeOK
  <2>3. /\ AdvanceViewTo(r, w, high, doubleCert[r], tip[r])
        /\ UNCHANGED <<locked, lastVote2, tip, crashes, prepares, votes2, wishes>>
    BY <1>15 DEF OnTimeoutCert
  <2> HIDE DEF high
  <2>4. /\ Effect
        /\ Started'
        /\ \A s \in Honest : /\ {highest'[s], saved'[s]} \subseteq QCs
                             /\ doubleCert'[s] \in DCs
        /\ \A m \in proposals' : /\ m.block # Genesis
                                 /\ Parent[m.block] \in QCs
                                 /\ m.dc \in DCs
        /\ \A s \in statuses' : s[3] \in QCs
        /\ \A v \in votes1' : Parent[v[2]] \in QCs
    BY <2>2, <2>3, AdvanceViewToEffect
  <2>5. HeldAfter
    BY <2>3, <2>4 DEF HeldEvidence, HeldAfter
  <2>6. SentAfter
    BY <2>3, <2>4 DEF SentEvidence, SentAfter
  <2>7. QED
    BY <2>4, <2>5, <2>6
<1>16. ASSUME NEW r \in Honest, NEW q \in Block, OnStatusCert(r, q)
       PROVE  Effect /\ Started' /\ HeldAfter /\ SentAfter
  <2> DEFINE high == MaxQC(highest[r], q)
  <2>1. q \in QCs
    BY <1>16, DeliverableEvidence DEF OnStatusCert
  <2>2. high \in QCs /\ doubleCert[r] \in DCs /\ tip[r] \in Block
    BY <1>0, <2>1, HelperType DEF HeldEvidence, TypeOK
  <2>3. /\ step[r] # "Stopped"
        /\ highest' = [highest EXCEPT ![r] = high]
        /\ UNCHANGED <<view, locked, saved, doubleCert, lastVote2, tip,
                       crashes, prepares, votes2, wishes, statuses>>
    BY <1>16 DEF OnStatusCert
  <2> HIDE DEF high
  <2>4. ViewsRise /\ view'[r] = view[r] /\ view[r] \in Nat \ {0} /\ highest'[r] = high
    BY <1>0, <2>3 DEF ViewsRise, Started, TypeOK
  <2>5. HeldAfter
    BY <2>2, <2>3 DEF TypeOK, HeldEvidence, HeldAfter
  <2>6. Started'
    <3>1. \A s \in Honest \ {r} : step'[s] = step[s]
      BY <1>16 DEF OnStatusCert, TryPropose, Propose, TypeOK
    <3>2. QED
      BY <2>3, <2>4, <3>1 DEF Started
  <2>7. CASE UNCHANGED <<step, store, proposals, votes1, lastVote1>>
    BY <2>3, <2>4, <2>5, <2>6, <2>7 DEF Effect, QuietStep, SentEvidence, SentAfter
  <2>8. CASE TryPropose(r, view[r], high, doubleCert[r], tip[r], store[r])
    <3>1. /\ QuietStep \/ \E b \in Block : Vote1Step(r, b)
          /\ \A m \in proposals' : /\ m.block # Genesis
                                   /\ Parent[m.block] \in QCs
                                   /\ m.dc \in DCs
          /\ \A v \in votes1' : Parent[v[2]] \in QCs
      BY <2>2, <2>3, <2>4, <2>8, TryProposeEffect
    <3>2. QED
      BY <2>3, <2>4, <2>5, <2>6, <3>1 DEF Effect, SentEvidence, SentAfter
  <2>9. QED
    BY <1>16, <2>7, <2>8 DEF OnStatusCert, high
<1>17. ASSUME NEW r \in Honest, NEW w \in 1..MaxView, NEW b \in Block,
              FastForward(r, w, b)
       PROVE  Effect /\ Started' /\ HeldAfter /\ SentAfter
  <2> DEFINE t == CommitTip(tip[r], b, store[r])
             q == MaxQC(highest[r], b)
  <2>1. b \in DCs /\ b \in QCs
    BY <1>17 DEF FastForward, DCs
  <2>2. t \in DCs /\ q \in QCs /\ t \in Block
    BY <1>0, <2>1, HelperType DEF HeldEvidence
  <2>3. /\ tip' = [tip EXCEPT ![r] = t]
        /\ AdvanceViewTo(r, w, q, b, t)
        /\ UNCHANGED <<locked, lastVote2, crashes, prepares, votes2, wishes>>
    BY <1>17 DEF FastForward
  <2>4. w \in Nat
    BY <1>0
  <2> HIDE DEF t, q
  <2>5. /\ Effect
        /\ Started'
        /\ \A s \in Honest : /\ {highest'[s], saved'[s]} \subseteq QCs
                             /\ doubleCert'[s] \in DCs
        /\ \A m \in proposals' : /\ m.block # Genesis
                                 /\ Parent[m.block] \in QCs
                                 /\ m.dc \in DCs
        /\ \A s \in statuses' : s[3] \in QCs
        /\ \A v \in votes1' : Parent[v[2]] \in QCs
    BY <2>1, <2>2, <2>3, <2>4, AdvanceViewToEffect
  <2>6. HeldAfter
    BY <2>2, <2>3, <2>5 DEF TypeOK, HeldEvidence, HeldAfter
  <2>7. SentAfter
    BY <2>3, <2>5 DEF SentEvidence, SentAfter
  <2>8. QED
    BY <2>5, <2>6, <2>7
<1>18. QED
  BY <1>1, <1>2, <1>3, <1>4, <1>5, <1>6, <1>7, <1>8, <1>9, <1>10, <1>11,
     <1>12, <1>13, <1>14, <1>15, <1>16, <1>17 DEF Next

(* Certificates never disappear. *)
LEMMA CertificatesGrow ==
    ASSUME Effect
    PROVE  QCs \subseteq QCs' /\ DCs \subseteq DCs'
<1>1. votes1 \subseteq votes1' /\ votes2 \subseteq votes2'
  BY DEF Effect, QuietStep, Vote1Step, LockStep, RecordStep
<1>2. QED
  BY <1>1, CertificatesLast DEF QCs, DCs

(* A certified block other than Genesis has an honest voter. *)
LEMMA CertificateVoter ==
    ASSUME NEW b \in QCs, b # Genesis
    PROVE  \E r \in Honest : <<r, b>> \in votes1
<1> DEFINE A == {s \in Honest : <<s, b>> \in votes1}
<1>1. A \cup Byzantine \in Quorum
  BY DEF QCs, Certified
<1>2. A \in SUBSET Honest
  OBVIOUS
<1>3. \E r \in Honest : r \in A
  <2> HIDE DEF A
  <2>1. QED
    BY <1>1, <1>2, HonestIntersection
<1>4. QED
  BY <1>3

(* The evidence of the step carries over to the next state. *)
LEMMA EvidenceStep ==
    ASSUME Effect, HeldAfter, SentAfter
    PROVE  HeldEvidence' /\ SentEvidence'
<1>1. QCs \subseteq QCs' /\ DCs \subseteq DCs'
  BY CertificatesGrow
<1>2. HeldEvidence'
  BY <1>1 DEF HeldAfter, HeldEvidence
<1>3. SentEvidence'
  BY <1>1 DEF SentAfter, SentEvidence
<1>4. QED
  BY <1>2, <1>3

(* Signing within the guard keeps the vote records ahead of the votes. *)
LEMMA RecordsStep ==
    ASSUME TypeOK, TypeOK', VoteRecords, Effect
    PROVE  VoteRecords'
<1>1. /\ \A s \in Honest : view[s] \in Nat /\ view'[s] \in Nat
      /\ \A b \in Block : ViewOf[b] \in Nat
  BY BlockAssumption, BoundAssumption DEF TypeOK
<1>2. CASE QuietStep
  BY <1>1, <1>2 DEF Effect, QuietStep, ViewsRise, VoteRecords, Records, TypeOK
<1>3. ASSUME NEW r \in Honest, NEW b \in Block, Vote1Step(r, b)
      PROVE  VoteRecords'
  <2>1. Records(votes1, lastVote1)'
    BY <1>1, <1>3 DEF Effect, ViewsRise, Vote1Step, VoteRecords, Records,
                      MaySign, TypeOK
  <2>2. Records(votes2, lastVote2)'
    BY <1>1, <1>3 DEF Effect, ViewsRise, Vote1Step, VoteRecords, Records, TypeOK
  <2>3. QED
    BY <2>1, <2>2 DEF VoteRecords
<1>4. ASSUME NEW r \in Honest, NEW b \in Block, LockStep(r, b)
      PROVE  VoteRecords'
  <2>1. Records(votes1, lastVote1)'
    BY <1>1, <1>4 DEF Effect, ViewsRise, LockStep, VoteRecords, Records, TypeOK
  <2>2. Records(votes2, lastVote2)'
    <3>1. CASE UNCHANGED <<votes2, lastVote2>>
      BY <1>1, <3>1 DEF Effect, ViewsRise, VoteRecords, Records, TypeOK
    <3>2. CASE /\ MaySign(lastVote2[r], b)
               /\ votes2' = votes2 \cup {<<r, b>>}
               /\ lastVote2' = [lastVote2 EXCEPT ![r] = b]
      BY <1>1, <1>4, <3>2 DEF Effect, ViewsRise, LockStep, VoteRecords, Records,
                              MaySign, TypeOK
    <3>3. QED
      BY <1>4, <3>1, <3>2 DEF LockStep
  <2>3. QED
    BY <2>1, <2>2 DEF VoteRecords
<1>5. ASSUME NEW r \in Honest, NEW b \in Block, RecordStep(r, b)
      PROVE  VoteRecords'
  <2>1. Records(votes1, lastVote1)'
    BY <1>1, <1>5 DEF Effect, ViewsRise, RecordStep, VoteRecords, Records, TypeOK
  <2>2. Records(votes2, lastVote2)'
    BY <1>1, <1>5 DEF Effect, ViewsRise, RecordStep, VoteRecords, Records,
                      MaySign, TypeOK
  <2>3. QED
    BY <2>1, <2>2 DEF VoteRecords
<1>6. QED
  BY <1>2, <1>3, <1>4, <1>5 DEF Effect

(* A vote within the guard is the only one of its view.  *)
LEMMA SignsOnceStep ==
    ASSUME NEW votes \in SUBSET (Honest \X Block), NEW last \in [Honest -> Block],
           Records(votes, last), SignsOnce(votes),
           NEW r \in Honest, NEW b \in Block, MaySign(last[r], b)
    PROVE  SignsOnce(votes \cup {<<r, b>>})
<1>1. \A c \in Block : ViewOf[c] \in Nat
  BY BlockAssumption, BoundAssumption
<1>2. ASSUME NEW v \in votes, v[1] = r, ViewOf[v[2]] = ViewOf[b]
      PROVE  v[2] = b
  <2>1. /\ v[2] \in Block
        /\ ViewOf[v[2]] <= ViewOf[last[r]]
        /\ ViewOf[v[2]] = ViewOf[last[r]] => v[2] = last[r]
    BY <1>2 DEF Records
  <2>2. QED
    BY <1>1, <1>2, <2>1 DEF MaySign
<1>3. ASSUME NEW v \in votes \cup {<<r, b>>}, NEW w \in votes \cup {<<r, b>>},
             v[1] = w[1], ViewOf[v[2]] = ViewOf[w[2]]
      PROVE  v[2] = w[2]
  <2>1. CASE v \in votes /\ w \in votes
    BY <1>3, <2>1 DEF SignsOnce
  <2>2. CASE v = <<r, b>> /\ w \in votes
    BY <1>2, <1>3, <2>2
  <2>3. CASE w = <<r, b>> /\ v \in votes
    BY <1>2, <1>3, <2>3
  <2>4. CASE v = <<r, b>> /\ w = <<r, b>>
    BY <2>4
  <2>5. QED
    BY <2>1, <2>2, <2>3, <2>4
<1>4. QED
  BY <1>3 DEF SignsOnce

(* No replica signs twice in a view. *)
LEMMA NoDoubleSignStep ==
    ASSUME TypeOK, VoteRecords, NoDoubleSign, Effect
    PROVE  NoDoubleSign'
<1> USE DEF NoDoubleSign
<1>0. /\ votes1 \in SUBSET (Honest \X Block) /\ lastVote1 \in [Honest -> Block]
      /\ votes2 \in SUBSET (Honest \X Block) /\ lastVote2 \in [Honest -> Block]
      /\ Records(votes1, lastVote1) /\ Records(votes2, lastVote2)
  BY DEF TypeOK, VoteRecords
<1>1. CASE UNCHANGED <<votes1, votes2>>
  BY <1>1 DEF SignsOnce
<1>2. ASSUME NEW r \in Honest, NEW b \in Block, Vote1Step(r, b)
      PROVE  NoDoubleSign'
  <2>1. SignsOnce(votes1 \cup {<<r, b>>})
    BY <1>0, <1>2, SignsOnceStep DEF Vote1Step
  <2>2. QED
    BY <1>2, <2>1 DEF Vote1Step, SignsOnce
<1>3. ASSUME NEW r \in Honest, NEW b \in Block, MaySign(lastVote2[r], b),
             votes1' = votes1, votes2' = votes2 \cup {<<r, b>>}
      PROVE  NoDoubleSign'
  <2>1. SignsOnce(votes2 \cup {<<r, b>>})
    BY <1>0, <1>3, SignsOnceStep
  <2>2. QED
    BY <1>3, <2>1 DEF SignsOnce
<1>4. QED
  BY <1>1, <1>2, <1>3 DEF Effect, QuietStep, LockStep, RecordStep

(* A Vote2 leaves only with its lock; locks rise. *)
LEMMA LockCoversStep ==
    ASSUME TypeOK, LockCoversVote2, Effect
    PROVE  LockCoversVote2'
<1>1. \A b \in Block : ViewOf[b] \in Nat
  BY BlockAssumption, BoundAssumption
<1>2. CASE UNCHANGED <<votes2, locked>>
  BY <1>2 DEF LockCoversVote2
<1>3. ASSUME NEW r \in Honest, NEW b \in Block, LockStep(r, b)
      PROVE  LockCoversVote2'
  <2>1. \A s \in Honest : ViewOf[locked[s]] <= ViewOf[locked'[s]]
    BY <1>1, <1>3 DEF LockStep, MaxQC, TypeOK
  <2>2. ViewOf[b] <= ViewOf[locked'[r]] /\ \A s \in Honest : locked'[s] \in Block
    BY <1>1, <1>3 DEF LockStep, MaxQC, TypeOK
  <2>3. ASSUME NEW v \in votes2'
        PROVE  ViewOf[v[2]] <= ViewOf[locked'[v[1]]]
    <3>1. CASE v = <<r, b>>
      BY <2>2, <3>1
    <3>2. CASE v \in votes2
      <4>1. v[1] \in Honest /\ v[2] \in Block
        BY <3>2 DEF TypeOK
      <4>2. locked[v[1]] \in Block
        BY <4>1 DEF TypeOK
      <4>3. ViewOf[v[2]] <= ViewOf[locked[v[1]]]
        BY <3>2 DEF LockCoversVote2
      <4>4. QED
        BY <1>1, <2>1, <2>2, <4>1, <4>2, <4>3
    <3>3. QED
      BY <1>3, <2>3, <3>1, <3>2 DEF LockStep
  <2>4. QED
    BY <2>3 DEF LockCoversVote2
<1>4. QED
  BY <1>2, <1>3 DEF Effect, QuietStep, Vote1Step, RecordStep

(* A vote goes to a child of a certified block, which grows from Genesis. *)
LEMMA GrowFromGenesisStep ==
    ASSUME TypeOK, VotesGrowFromGenesis, Effect
    PROVE  VotesGrowFromGenesis'
<1>1. CASE UNCHANGED votes1
  BY <1>1 DEF VotesGrowFromGenesis
<1>2. ASSUME NEW r \in Honest, NEW b \in Block, Vote1Step(r, b)
      PROVE  VotesGrowFromGenesis'
  <2>1. Genesis \in Ancestors[Parent[b]]
    <3>1. CASE Parent[b] = Genesis
      BY <3>1, AncestorSelf, BlockAssumption
    <3>2. CASE Parent[b] # Genesis
      <4>1. PICK s \in Honest : <<s, Parent[b]>> \in votes1
        BY <1>2, <3>2, CertificateVoter DEF Vote1Step
      <4>2. QED
        BY <4>1 DEF VotesGrowFromGenesis
    <3>3. QED
      BY <3>1, <3>2
  <2>2. Genesis \in Ancestors[b]
    BY <2>1, AncestorStep
  <2>3. QED
    BY <1>2, <2>2 DEF Vote1Step, VotesGrowFromGenesis
<1>3. QED
  BY <1>1, <1>2 DEF Effect, QuietStep, LockStep, RecordStep

(* BaseInv is inductive, however replicas restart. *)
LEMMA BaseStep ==
    ASSUME BaseInv, [Next]_vars
    PROVE  BaseInv' /\ Effect
<1> USE DEF BaseInv
<1>1. TypeOK'
  BY TypeStep
<1>2. Effect /\ Started' /\ HeldAfter /\ SentAfter
  BY StepFacts
<1>3. HeldEvidence' /\ SentEvidence'
  BY <1>2, EvidenceStep
<1>4. VoteRecords' /\ NoDoubleSign' /\ LockCoversVote2' /\ VotesGrowFromGenesis'
  BY <1>1, <1>2, RecordsStep, NoDoubleSignStep, LockCoversStep,
     GrowFromGenesisStep
<1>5. QED
  BY <1>1, <1>2, <1>3, <1>4

(* BaseInv holds initially. *)
LEMMA BaseInit == Init => BaseInv
<1> SUFFICES ASSUME Init PROVE BaseInv
  OBVIOUS
<1>1. TypeOK
  BY BlockAssumption, BoundAssumption DEF Init, TypeOK, ViewStep, ProposalMsg
<1>2. Started /\ LockCoversVote2 /\ VotesGrowFromGenesis
  BY DEF Init, Started, LockCoversVote2, VotesGrowFromGenesis
<1>3. HeldEvidence
  <2>1. Genesis \in DCs /\ Genesis \in QCs
    BY CertificateSets
  <2>2. QED
    BY <2>1 DEF Init, HeldEvidence
<1>4. SentEvidence
  BY DEF Init, SentEvidence
<1>5. VoteRecords /\ NoDoubleSign
  BY BlockAssumption DEF Init, VoteRecords, Records, NoDoubleSign, SignsOnce
<1>6. QED
  BY <1>1, <1>2, <1>3, <1>4, <1>5 DEF BaseInv

(* THEOREM: the part of the invariant that no restart can break. *)
THEOREM BaseInvariant == Spec => []BaseInv
<1>1. BaseInv /\ [Next]_vars => BaseInv'
  BY BaseStep
<1>2. QED
  BY <1>1, BaseInit, PTL DEF Spec

-----------------------------------------------------------------------------
(* One certificate per view.                                               *)

(* Two quorums of votes for blocks of one view share an honest voter. *)
LEMMA UniqueCertificate ==
    ASSUME TypeOK, NoDoubleSign, NEW a \in QCs, NEW b \in QCs,
           ViewOf[a] = ViewOf[b]
    PROVE  a = b
<1> DEFINE A == {s \in Honest : <<s, a>> \in votes1}
           B == {s \in Honest : <<s, b>> \in votes1}
<1>0. a \in Block /\ b \in Block
  BY CertificateSets
<1>1. CASE a = Genesis \/ b = Genesis
  BY <1>0, <1>1, BlockAssumption
<1>2. CASE a # Genesis /\ b # Genesis
  <2>1. A \cup Byzantine \in Quorum /\ B \cup Byzantine \in Quorum
    BY <1>2 DEF QCs, Certified
  <2>2. A \in SUBSET Honest /\ B \in SUBSET Honest
    OBVIOUS
  <2>3. \E r \in Honest : r \in A /\ r \in B
    <3> HIDE DEF A, B
    <3>1. QED
      BY <2>1, <2>2, HonestIntersection
  <2>4. PICK r \in Honest : <<r, a>> \in votes1 /\ <<r, b>> \in votes1
    BY <2>3
  <2>5. QED
    BY <2>4 DEF NoDoubleSign, SignsOnce
<1>3. QED
  BY <1>1, <1>2

(* THEOREM: no honest replica ever signs two blocks of a view, over all    *)
(* its restarts (check_and_record_vote).                                   *)
THEOREM NoEquivocation == Spec => []NoDoubleSign
<1>1. BaseInv => NoDoubleSign
  BY DEF BaseInv
<1>2. QED
  BY <1>1, BaseInvariant, PTL

(* THEOREM: no view has two certified blocks, for every quorum system and  *)
(* however replicas crash (check_and_record_vote, vote_collector.rs).      *)
THEOREM OneBlockPerView == Spec => []OneCertificatePerView
<1>1. BaseInv => OneCertificatePerView
  <2>1. SUFFICES ASSUME BaseInv PROVE OneCertificatePerView
    OBVIOUS
  <2>2. SUFFICES ASSUME NEW a \in Block, NEW b \in Block, Certified(a),
                        Certified(b), ViewOf[a] = ViewOf[b]
                 PROVE  a = b
    BY DEF OneCertificatePerView
  <2>3. a \in QCs /\ b \in QCs
    BY <2>2 DEF QCs
  <2>4. QED
    BY <2>1, <2>2, <2>3, UniqueCertificate DEF BaseInv
<1>2. QED
  BY <1>1, BaseInvariant, PTL

(* THEOREM: a Vote2 that has left is covered by its sender's lock          *)
(* (on_prepare, on_qc_formed and persist_state).                           *)
THEOREM LockCovers == Spec => []LockCoversVote2
<1>1. BaseInv => LockCoversVote2
  BY DEF BaseInv
<1>2. QED
  BY <1>1, BaseInvariant, PTL

-----------------------------------------------------------------------------
(* The lock and highest_qc.                                                *)

(* The certificate that is kept is of the greater view. *)
LEMMA MaxQCView ==
    \A p, q \in Block : /\ MaxQC(p, q) \in Block
                        /\ ViewOf[p] <= ViewOf[MaxQC(p, q)]
                        /\ ViewOf[q] <= ViewOf[MaxQC(p, q)]
                        /\ ViewOf[MaxQC(p, q)] \in Nat
BY BlockAssumption, BoundAssumption DEF MaxQC

(* A step that changes only r, keeps r's lock or raises it together with   *)
(* both copies of highest_qc, and does not stop r.                         *)
LEMMA CoversLocally ==
    ASSUME TypeOK, HighestCoversLock, NEW r \in Honest,
           \A s \in Honest \ {r} : /\ locked'[s] = locked[s]
                                   /\ highest'[s] = highest[s]
                                   /\ saved'[s] = saved[s]
                                   /\ step'[s] = step[s]
                                   /\ view'[s] = view[s],
           ViewOf[locked'[r]] <= ViewOf[highest'[r]],
           ViewOf[locked'[r]] <= ViewOf[saved'[r]],
           step'[r] = "Stopped" /\ view'[r] <= 1 => locked'[r] = Genesis
    PROVE  HighestCoversLock'
BY DEF HighestCoversLock

(* TryPropose touches the step of r alone, and leaves it running. *)
LEMMA TryProposeStep ==
    ASSUME TypeOK, NEW r \in Honest, NEW w, NEW q, NEW d, NEW t, NEW st,
           TryPropose(r, w, q, d, t, st)
    PROVE  /\ \A s \in Honest \ {r} : step'[s] = step[s]
           /\ step'[r] # "Stopped"
BY DEF TryPropose, Propose, TypeOK

(* Entering a view with a highest_qc that is not below the old one. *)
LEMMA CoversAdvanceViewTo ==
    ASSUME TypeOK, HighestCoversLock, NEW r \in Honest, NEW w, NEW p \in Block,
           NEW d, NEW t, AdvanceViewTo(r, w, MaxQC(highest[r], p), d, t),
           UNCHANGED locked
    PROVE  HighestCoversLock'
<1>1. \A s \in Honest \ {r} : step'[s] = step[s]
  BY TryProposeStep DEF AdvanceViewTo, EnterView, TypeOK
<1>2. step'[r] # "Stopped"
  BY TryProposeStep DEF AdvanceViewTo, EnterView, TypeOK
<1>3. /\ ViewOf[locked[r]] \in Nat
      /\ ViewOf[highest[r]] \in Nat
      /\ ViewOf[highest[r]] <= ViewOf[MaxQC(highest[r], p)]
      /\ ViewOf[MaxQC(highest[r], p)] \in Nat
      /\ ViewOf[locked[r]] <= ViewOf[highest[r]]
  BY MaxQCView, BlockAssumption, BoundAssumption DEF TypeOK, HighestCoversLock
<1>4. /\ highest'[r] = MaxQC(highest[r], p)
      /\ saved'[r] = MaxQC(highest[r], p)
      /\ \A s \in Honest \ {r} : /\ highest'[s] = highest[s]
                                 /\ saved'[s] = saved[s]
                                 /\ view'[s] = view[s]
  BY DEF AdvanceViewTo, EnterView, TypeOK
<1>5. QED
  BY <1>1, <1>2, <1>3, <1>4, CoversLocally

(* A stopping replica keeps its lock, and holds none in view 1. *)
LEMMA CoversStop ==
    ASSUME TypeOK, Started, HighestCoversLock, ~ LockedGenesisRestart,
           NEW r \in Honest, Stop(r), UNCHANGED <<view, locked, saved>>
    PROVE  HighestCoversLock'
<1>1. view[r] <= 1 => locked[r] = Genesis
  BY BoundAssumption DEF Stop, TypeOK
<1>2. /\ highest'[r] = saved[r]
      /\ \A s \in Honest \ {r} : highest'[s] = highest[s] /\ step'[s] = step[s]
  BY DEF Stop, TypeOK
<1>3. QED
  BY <1>1, <1>2, CoversLocally DEF HighestCoversLock

(* highest_qc stays at or above the lock.  The one action that lowers it,  *)
(* enter_genesis_view, runs only at a replica without a lock.              *)
LEMMA HighestCoversStep ==
    ASSUME BaseInv, HighestCoversLock, ~ LockedGenesisRestart, [Next]_vars
    PROVE  HighestCoversLock'
<1> USE DEF BaseInv
<1>0. /\ \A b \in Block : ViewOf[b] \in Nat
      /\ \A s \in Honest : view[s] \in Nat
      /\ \A s \in Honest : {highest[s], locked[s], saved[s]} \subseteq Block
  BY BlockAssumption, BoundAssumption DEF TypeOK
<1>1. CASE UNCHANGED vars
  BY <1>1 DEF vars, HighestCoversLock
<1>2. ASSUME NEW r \in Honest, BootGenesis(r)
      PROVE  HighestCoversLock'
  <2>1. view[r] <= 1
    <3>1. ViewOf[tip[r]] \in Nat
      BY <1>0 DEF TypeOK
    <3>2. QED
      BY <1>0, <1>2, <3>1 DEF BootGenesis, RestoredView
  <2>2. locked[r] = Genesis
    BY <1>2, <2>1 DEF BootGenesis, HighestCoversLock
  <2>3. /\ \A s \in Honest \ {r} : step'[s] = step[s]
        /\ step'[r] # "Stopped"
    BY <1>2, TryProposeStep DEF BootGenesis, TypeOK
  <2>4. /\ highest'[r] = Genesis
        /\ \A s \in Honest \ {r} : highest'[s] = highest[s] /\ view'[s] = view[s]
        /\ UNCHANGED <<locked, saved>>
    BY <1>2 DEF BootGenesis, TypeOK
  <2>5. ViewOf[Genesis] = 0
    BY BlockAssumption
  <2>6. QED
    BY <1>0, <2>2, <2>3, <2>4, <2>5, CoversLocally
<1>3. ASSUME NEW r \in Honest, BootResume(r)
      PROVE  HighestCoversLock'
  BY <1>3, CoversLocally DEF BootResume, TypeOK, HighestCoversLock
<1>4. ASSUME NEW r \in Honest, Crash(r)
      PROVE  HighestCoversLock'
  BY <1>4, CoversStop DEF Crash
<1>5. ASSUME NEW r \in Honest, NEW m \in DeliverableProposal,
             OnUnusableProposal(r, m)
      PROVE  HighestCoversLock'
  BY <1>5 DEF OnUnusableProposal, HighestCoversLock
<1>6. ASSUME NEW r \in Honest, NEW m \in DeliverableProposal,
             ProposalPrologue(r, m, Arrival(r, m)), NEW q,
             q = Arrival(r, m).highest
               \/ q = MaxQC(Arrival(r, m).highest, Parent[m.block]),
             highest' = [highest EXCEPT ![r] = q],
             \E x \in {saved[r], Arrival(r, m).highest, q} :
                 saved' = [saved EXCEPT ![r] = x],
             \E x \in {step[r], "Voted", "WaitingForProposal"} :
                 step' = [step EXCEPT ![r] = x]
      PROVE  HighestCoversLock'
  <2> DEFINE h == Arrival(r, m).highest
  <2>1. m.block \in Block /\ m.dc \in Block /\ Parent[m.block] \in Block
    BY DeliverableType, BlockAssumption DEF ProposalMsg
  <2>2. h = highest[r] \/ h = MaxQC(highest[r], m.dc)
    BY DEF Arrival
  <2>3. h \in Block /\ ViewOf[highest[r]] <= ViewOf[h]
    BY <1>0, <2>1, <2>2, MaxQCView
  <2> HIDE DEF h
  <2>4. q \in Block /\ ViewOf[h] <= ViewOf[q]
    BY <1>0, <1>6, <2>1, <2>3, MaxQCView DEF h
  <2>5. ViewOf[locked[r]] <= ViewOf[highest[r]] /\ ViewOf[locked[r]] <= ViewOf[saved[r]]
    BY DEF HighestCoversLock
  <2>6. /\ highest'[r] = q
        /\ saved'[r] \in {saved[r], h, q}
        /\ \A s \in Honest \ {r} : /\ highest'[s] = highest[s]
                                   /\ saved'[s] = saved[s]
                                   /\ step'[s] = step[s]
    BY <1>6 DEF TypeOK, h
  <2>7. step[r] # "Stopped" /\ step'[r] # "Stopped"
    BY <1>6 DEF ProposalPrologue, TypeOK
  <2>8. UNCHANGED locked /\ \A s \in Honest \ {r} : view'[s] = view[s]
    BY <1>6 DEF ProposalPrologue, TypeOK
  <2>9. /\ ViewOf[locked'[r]] <= ViewOf[highest'[r]]
        /\ ViewOf[locked'[r]] <= ViewOf[saved'[r]]
    BY <1>0, <2>3, <2>4, <2>5, <2>6, <2>8
  <2>10. QED
    BY <2>6, <2>7, <2>8, <2>9, CoversLocally
<1>7. ASSUME NEW r \in Honest, NEW m \in DeliverableProposal,
             RejectProposal(r, m)
      PROVE  HighestCoversLock'
  <2>1. /\ ProposalPrologue(r, m, Arrival(r, m))
        /\ highest' = [highest EXCEPT ![r] = Arrival(r, m).highest]
        /\ saved' = [saved EXCEPT ![r] = Arrival(r, m).highest] \/ saved' = saved
        /\ step' = [step EXCEPT ![r] = "WaitingForProposal"] \/ step' = step
    BY <1>7 DEF RejectProposal
  <2>2. /\ saved = [saved EXCEPT ![r] = saved[r]]
        /\ step = [step EXCEPT ![r] = step[r]]
    BY DEF TypeOK
  <2>3. QED
    BY <1>6, <1>7, <2>1, <2>2
<1>8. ASSUME NEW r \in Honest, NEW m \in DeliverableProposal,
             AcceptProposal(r, m)
      PROVE  HighestCoversLock'
  <2> DEFINE q == MaxQC(Arrival(r, m).highest, Parent[m.block])
  <2>1. /\ ProposalPrologue(r, m, Arrival(r, m))
        /\ highest' = [highest EXCEPT ![r] = q]
        /\ \E x \in {saved[r], Arrival(r, m).highest, q} :
                 saved' = [saved EXCEPT ![r] = x]
        /\ \E x \in {step[r], "Voted", "WaitingForProposal"} :
                 step' = [step EXCEPT ![r] = x]
    BY <1>8 DEF AcceptProposal
  <2>2. QED
    BY <1>6, <1>8, <2>1
<1>9. ASSUME NEW r \in Honest, NEW b \in Block,
             UNCHANGED view,
             highest' = [highest EXCEPT ![r] = MaxQC(highest[r], b)],
             \E x \in {"Prepared", "SentVote2"} : step' = [step EXCEPT ![r] = x],
             \/ UNCHANGED <<locked, saved>>
             \/ /\ locked' = [locked EXCEPT ![r] = MaxQC(locked[r], b)]
                /\ saved' = [saved EXCEPT ![r] = MaxQC(highest[r], b)]
      PROVE  HighestCoversLock'
  <2>1. /\ ViewOf[locked[r]] <= ViewOf[highest[r]]
        /\ ViewOf[locked[r]] <= ViewOf[saved[r]]
    BY DEF HighestCoversLock
  <2>2. ViewOf[MaxQC(locked[r], b)] <= ViewOf[MaxQC(highest[r], b)]
    BY <1>0, <2>1 DEF MaxQC
  <2>3. /\ ViewOf[highest[r]] <= ViewOf[MaxQC(highest[r], b)]
        /\ ViewOf[MaxQC(highest[r], b)] \in Nat
    BY <1>0, MaxQCView
  <2>4. /\ ViewOf[locked'[r]] <= ViewOf[highest'[r]]
        /\ ViewOf[locked'[r]] <= ViewOf[saved'[r]]
    <3>1. CASE UNCHANGED <<locked, saved>>
      BY <1>0, <1>9, <2>1, <2>3, <3>1 DEF TypeOK
    <3>2. CASE /\ locked' = [locked EXCEPT ![r] = MaxQC(locked[r], b)]
               /\ saved' = [saved EXCEPT ![r] = MaxQC(highest[r], b)]
      BY <1>9, <2>2, <3>2 DEF TypeOK
    <3>3. QED
      BY <1>9, <3>1, <3>2
  <2>5. /\ step'[r] # "Stopped"
        /\ \A s \in Honest \ {r} : /\ locked'[s] = locked[s]
                                   /\ highest'[s] = highest[s]
                                   /\ saved'[s] = saved[s]
                                   /\ step'[s] = step[s]
                                   /\ view'[s] = view[s]
    BY <1>9 DEF TypeOK
  <2>6. QED
    BY <2>4, <2>5, CoversLocally
<1>10. ASSUME NEW r \in Honest, NEW b \in Block, OnQCFormed(r, b)
       PROVE  HighestCoversLock'
  BY <1>9, <1>10 DEF OnQCFormed
<1>11. ASSUME NEW r \in Honest, NEW b \in Block, CrashInQCFormed(r, b)
       PROVE  HighestCoversLock'
  BY <1>11, CoversStop DEF CrashInQCFormed
<1>12. ASSUME NEW r \in Honest, NEW b \in DeliverablePrepare, OnPrepare(r, b)
       PROVE  HighestCoversLock'
  <2>1. b \in Block
    BY DeliverableType
  <2>2. QED
    BY <1>9, <1>12, <2>1 DEF OnPrepare
<1>13. ASSUME NEW r \in Honest, NEW b \in DeliverablePrepare, IgnorePrepare(r, b)
       PROVE  HighestCoversLock'
  <2>1. /\ step[r] # "Stopped"
        /\ saved'[r] = highest[r]
        /\ \A s \in Honest \ {r} : saved'[s] = saved[s]
        /\ UNCHANGED <<view, step, locked, highest>>
    BY <1>13 DEF IgnorePrepare, TypeOK
  <2>2. QED
    BY <2>1, CoversLocally DEF HighestCoversLock
<1>14. ASSUME NEW r \in Honest, NEW b \in DeliverablePrepare, CrashInPrepare(r, b)
       PROVE  HighestCoversLock'
  BY <1>14, CoversStop DEF CrashInPrepare
<1>15. ASSUME NEW r \in Honest, NEW b \in Block, OnDoubleCertFormed(r, b)
       PROVE  HighestCoversLock'
  BY <1>15, CoversAdvanceViewTo DEF OnDoubleCertFormed
<1>16. ASSUME NEW r \in Honest, Timeout(r)
       PROVE  HighestCoversLock'
  BY <1>16 DEF Timeout, replicaVars, HighestCoversLock
<1>17. ASSUME NEW r \in Honest, NEW w \in 1..MaxWishView, NEW q \in Block,
              OnTimeoutCert(r, w, q)
       PROVE  HighestCoversLock'
  BY <1>17, CoversAdvanceViewTo DEF OnTimeoutCert
<1>18. ASSUME NEW r \in Honest, NEW q \in Block, OnStatusCert(r, q)
       PROVE  HighestCoversLock'
  <2>1. /\ highest'[r] = MaxQC(highest[r], q)
        /\ \A s \in Honest \ {r} : highest'[s] = highest[s]
        /\ UNCHANGED <<view, locked, saved>>
    BY <1>18 DEF OnStatusCert, TypeOK
  <2>2. /\ \A s \in Honest \ {r} : step'[s] = step[s]
        /\ step'[r] # "Stopped"
    BY <1>18, TryProposeStep DEF OnStatusCert, TypeOK
  <2>3. /\ ViewOf[locked[r]] <= ViewOf[highest[r]]
        /\ ViewOf[locked[r]] <= ViewOf[saved[r]]
        /\ ViewOf[highest[r]] <= ViewOf[MaxQC(highest[r], q)]
        /\ ViewOf[MaxQC(highest[r], q)] \in Nat
    BY <1>0, MaxQCView DEF HighestCoversLock
  <2>4. QED
    BY <1>0, <2>1, <2>2, <2>3, CoversLocally
<1>19. ASSUME NEW r \in Honest, NEW w \in 1..MaxView, NEW b \in Block,
              FastForward(r, w, b)
       PROVE  HighestCoversLock'
  BY <1>19, CoversAdvanceViewTo DEF FastForward
<1>20. QED
  BY <1>1, <1>2, <1>3, <1>4, <1>5, <1>7, <1>8, <1>10, <1>11, <1>12, <1>13,
     <1>14, <1>15, <1>16, <1>17, <1>18, <1>19 DEF Next

-----------------------------------------------------------------------------
(* The voting rule and what it makes of choosable blocks.                  *)

(* A vote respects every earlier Vote2 of its sender. *)
LEMMA VotingSafetyStep ==
    ASSUME BaseInv, HighestCoversLock', VotingSafetyRule, Effect
    PROVE  VotingSafetyRule'
<1> USE DEF BaseInv
<1>0. /\ \A b \in Block : ViewOf[b] \in Nat
      /\ \A s \in Honest : view[s] \in Nat
  BY BlockAssumption, BoundAssumption DEF TypeOK
<1>1. CASE UNCHANGED <<votes1, votes2>>
  BY <1>1 DEF VotingSafetyRule
<1>2. ASSUME NEW r \in Honest, NEW b \in Block, Vote1Step(r, b)
      PROVE  VotingSafetyRule'
  <2>1. ViewOf[locked[r]] <= ViewOf[Parent[b]]
    BY <1>2 DEF Vote1Step, HighestCoversLock
  <2>2. ASSUME NEW w \in votes2, w[1] = r
        PROVE  DominatesLock(Parent[b], w[2])
    <3>1. w[2] \in QCs /\ Parent[b] \in QCs
      BY <1>2 DEF Vote1Step, SentEvidence
    <3>2. /\ ViewOf[w[2]] \in Nat
          /\ ViewOf[Parent[b]] \in Nat
          /\ ViewOf[locked[r]] \in Nat
      BY <1>0, <3>1, CertificateSets DEF TypeOK
    <3>3. ViewOf[w[2]] <= ViewOf[locked[r]]
      BY <2>2 DEF LockCoversVote2
    <3>4. CASE ViewOf[w[2]] = ViewOf[Parent[b]]
      BY <3>1, <3>4, UniqueCertificate DEF DominatesLock
    <3>5. CASE ViewOf[w[2]] # ViewOf[Parent[b]]
      BY <2>1, <3>2, <3>3, <3>5 DEF DominatesLock
    <3>6. QED
      BY <3>4, <3>5
  <2>3. votes1' = votes1 \cup {<<r, b>>} /\ votes2' = votes2
    BY <1>2 DEF Vote1Step
  <2>4. ASSUME NEW v \in votes1', NEW w \in votes2', v[1] = w[1],
               ViewOf[w[2]] < ViewOf[v[2]]
        PROVE  DominatesLock(Parent[v[2]], w[2])
    <3>1. CASE v = <<r, b>>
      BY <2>2, <2>3, <2>4, <3>1
    <3>2. CASE v \in votes1
      BY <2>3, <2>4, <3>2 DEF VotingSafetyRule
    <3>3. QED
      BY <2>3, <3>1, <3>2
  <2>5. QED
    BY <2>4 DEF VotingSafetyRule, DominatesLock
<1>3. ASSUME NEW r \in Honest, NEW b \in Block, ViewOf[b] = view[r],
             votes1' = votes1, votes2' = votes2 \cup {<<r, b>>}
      PROVE  VotingSafetyRule'
  <2>1. ASSUME NEW v \in votes1, v[1] = r
        PROVE  ~ (ViewOf[b] < ViewOf[v[2]])
    <3>1. /\ ViewOf[v[2]] <= ViewOf[lastVote1[r]]
          /\ ViewOf[lastVote1[r]] <= view[r]
      BY <2>1 DEF VoteRecords, Records
    <3>2. ViewOf[v[2]] \in Nat /\ ViewOf[lastVote1[r]] \in Nat
      BY <1>0, <2>1 DEF TypeOK
    <3>3. QED
      BY <1>0, <1>3, <3>1, <3>2
  <2>2. ASSUME NEW v \in votes1', NEW w \in votes2', v[1] = w[1],
               ViewOf[w[2]] < ViewOf[v[2]]
        PROVE  DominatesLock(Parent[v[2]], w[2])
    <3>1. CASE w = <<r, b>>
      BY <1>3, <2>1, <2>2, <3>1
    <3>2. CASE w \in votes2
      BY <1>3, <2>2, <3>2 DEF VotingSafetyRule
    <3>3. QED
      BY <1>3, <3>1, <3>2
  <2>3. QED
    BY <2>2 DEF VotingSafetyRule, DominatesLock
<1>4. QED
  BY <1>1, <1>2, <1>3 DEF Effect, QuietStep, LockStep, RecordStep

(* A block that cannot get a double certificate any more stays that way. *)
LEMMA ChoosableFalls ==
    ASSUME TypeOK, TypeOK', Effect, NEW b \in Block, Choosable(b)'
    PROVE  Choosable(b)
<1> DEFINE A == {r \in Honest : <<r, b>> \in votes2' \/ view'[r] <= ViewOf[b]}
           B == {r \in Honest : <<r, b>> \in votes2 \/ view[r] <= ViewOf[b]}
<1>1. /\ ViewOf[b] \in Nat
      /\ \A s \in Honest : view[s] \in Nat /\ view'[s] \in Nat
  BY BlockAssumption, BoundAssumption DEF TypeOK
<1>2. ASSUME NEW s \in Honest, <<s, b>> \in votes2', <<s, b>> \notin votes2
      PROVE  ViewOf[b] = view[s]
  BY <1>2 DEF Effect, QuietStep, Vote1Step, LockStep, RecordStep
<1>3. ASSUME NEW s \in A
      PROVE  s \in B
  BY <1>1, <1>2, <1>3 DEF Effect, ViewsRise
<1>4. A \in SUBSET Honest /\ B \in SUBSET Honest /\ A \subseteq B
  BY <1>3
<1>5. A \cup Byzantine \in Quorum
  BY DEF Choosable
<1>6. B \cup Byzantine \in Quorum
  <2> HIDE DEF A, B
  <2>1. QED
    BY <1>4, <1>5, QuorumGrows
<1>7. QED
  BY <1>6 DEF Choosable

(* A certified block of a later view shares with a choosable one a voter   *)
(* that sent it a Vote2 and then extended it.                              *)
LEMMA CertifiedExtendsChosen ==
    ASSUME TypeOK, VoteRecords, ChosenIsExtended, NEW b \in Block, Choosable(b),
           NEW c \in QCs, ViewOf[b] < ViewOf[c]
    PROVE  b \in Ancestors[c]
<1> DEFINE A == {s \in Honest : <<s, c>> \in votes1}
           B == {s \in Honest : <<s, b>> \in votes2 \/ view[s] <= ViewOf[b]}
<1>0. c \in Block
  BY CertificateSets
<1>1. /\ ViewOf[b] \in Nat
      /\ ViewOf[c] \in Nat
      /\ \A s \in Honest : view[s] \in Nat /\ ViewOf[lastVote1[s]] \in Nat
  BY <1>0, BlockAssumption, BoundAssumption DEF TypeOK
<1>2. c # Genesis
  BY <1>1, BlockAssumption
<1>3. A \cup Byzantine \in Quorum /\ B \cup Byzantine \in Quorum
  BY <1>2 DEF QCs, Certified, Choosable
<1>4. A \in SUBSET Honest /\ B \in SUBSET Honest
  OBVIOUS
<1>5. \E r \in Honest : r \in A /\ r \in B
  <2> HIDE DEF A, B
  <2>1. QED
    BY <1>3, <1>4, HonestIntersection
<1>6. PICK r \in Honest : /\ <<r, c>> \in votes1
                          /\ <<r, b>> \in votes2 \/ view[r] <= ViewOf[b]
  BY <1>5
<1>7. ViewOf[c] <= view[r]
  <2>1. /\ ViewOf[c] <= ViewOf[lastVote1[r]]
        /\ ViewOf[lastVote1[r]] <= view[r]
    BY <1>6 DEF VoteRecords, Records
  <2>2. QED
    BY <1>1, <2>1
<1>8. <<r, b>> \in votes2
  BY <1>1, <1>6, <1>7
<1>9. QED
  BY <1>6, <1>8 DEF ChosenIsExtended

(* Choosable blocks stay extended by later votes. *)
LEMMA ChosenStep ==
    ASSUME BaseInv, BaseInv', VotingSafetyRule', ChosenIsExtended, Effect
    PROVE  ChosenIsExtended'
<1> USE DEF BaseInv
<1>0. /\ \A b \in Block : ViewOf[b] \in Nat
      /\ \A s \in Honest : view[s] \in Nat
  BY BlockAssumption, BoundAssumption DEF TypeOK
<1>1. SUFFICES ASSUME NEW v \in votes1', NEW w \in votes2', v[1] = w[1],
                      ViewOf[w[2]] < ViewOf[v[2]], Choosable(w[2])'
               PROVE  w[2] \in Ancestors[v[2]]
  BY DEF ChosenIsExtended
<1>2. w[1] \in Honest /\ w[2] \in Block /\ v[2] \in Block
  BY <1>1 DEF TypeOK
<1>3. Choosable(w[2])
  <2>1. \A b \in Block : Choosable(b)' => Choosable(b)
    BY ChoosableFalls
  <2>2. PICK b \in Block : b = w[2]
    BY <1>2
  <2>3. QED
    BY <1>1, <2>1, <2>2 DEF Choosable
<1>4. CASE v \in votes1 /\ w \in votes2
  BY <1>1, <1>3, <1>4 DEF ChosenIsExtended
<1>5. CASE v \notin votes1
  <2>1. PICK r \in Honest, b \in Block : Vote1Step(r, b) /\ v = <<r, b>>
    BY <1>1, <1>5 DEF Effect, QuietStep, Vote1Step, LockStep, RecordStep
  <2>2. DominatesLock(Parent[b], w[2])
    BY <1>1, <2>1 DEF VotingSafetyRule, DominatesLock
  <2>3. w[2] \in Ancestors[Parent[b]]
    <3>1. CASE Parent[b] = w[2]
      BY <1>2, <3>1, AncestorSelf
    <3>2. CASE ViewOf[w[2]] < ViewOf[Parent[b]]
      BY <1>2, <1>3, <2>1, <3>2, CertifiedExtendsChosen DEF Vote1Step
    <3>3. QED
      <4>1. Parent[b] \in Block
        BY BlockAssumption
      <4>2. QED
        BY <1>0, <1>2, <2>2, <3>1, <3>2, <4>1 DEF DominatesLock
  <2>4. QED
    BY <2>1, <2>3, AncestorStep
<1>6. CASE v \in votes1 /\ w \notin votes2
  <2>1. ViewOf[w[2]] = view[w[1]]
    BY <1>1, <1>6 DEF Effect, QuietStep, Vote1Step, LockStep, RecordStep
  <2>2. /\ ViewOf[v[2]] <= ViewOf[lastVote1[w[1]]]
        /\ ViewOf[lastVote1[w[1]]] <= view[w[1]]
    BY <1>1, <1>2, <1>6 DEF VoteRecords, Records
  <2>3. lastVote1[w[1]] \in Block
    BY <1>2 DEF TypeOK
  <2>4. QED
    BY <1>0, <1>1, <1>2, <2>1, <2>2, <2>3
<1>7. QED
  BY <1>4, <1>5, <1>6

-----------------------------------------------------------------------------
(* The theorems.                                                           *)

(* The whole invariant, when no locked replica restarts in view 1. *)
LEMMA IndStep ==
    ASSUME IndInv, ~ LockedGenesisRestart, [Next]_vars
    PROVE  IndInv'
<1> USE DEF IndInv, LockInv
<1>1. BaseInv' /\ Effect
  BY BaseStep
<1>2. HighestCoversLock'
  BY HighestCoversStep
<1>3. VotingSafetyRule'
  BY <1>1, <1>2, VotingSafetyStep
<1>4. ChosenIsExtended'
  BY <1>1, <1>3, ChosenStep
<1>5. QED
  BY <1>1, <1>2, <1>3, <1>4

(* The whole invariant holds initially. *)
LEMMA IndInit == Init => IndInv
<1> SUFFICES ASSUME Init PROVE IndInv
  OBVIOUS
<1>1. BaseInv
  BY BaseInit
<1>2. HighestCoversLock
  BY BlockAssumption DEF Init, HighestCoversLock
<1>3. VotingSafetyRule /\ ChosenIsExtended
  BY DEF Init, VotingSafetyRule, ChosenIsExtended
<1>4. QED
  BY <1>1, <1>2, <1>3 DEF IndInv, LockInv

(* THEOREM: the inductive invariant, when no replica that holds a lock     *)
(* restarts in view 1.                                                     *)
THEOREM Invariant ==
    ASSUME ~ LockedGenesisRestart
    PROVE  Spec => []IndInv
<1>1. IndInv /\ [Next]_vars => IndInv'
  BY IndStep
<1>2. QED
  BY <1>1, IndInit, PTL DEF Spec

(* Two double certificates are for blocks of one chain. *)
LEMMA DoubleCertificatesComparable ==
    ASSUME IndInv, NEW a \in DCs, NEW b \in DCs
    PROVE  Comparable(a, b)
<1> USE DEF IndInv, BaseInv, LockInv
<1>0. /\ a \in QCs /\ b \in QCs /\ a \in Block /\ b \in Block
      /\ ViewOf[a] \in Nat /\ ViewOf[b] \in Nat
  BY CertificateSets, BlockAssumption, BoundAssumption
<1>1. ASSUME NEW c \in DCs, NEW d \in DCs, ViewOf[c] < ViewOf[d]
      PROVE  c \in Ancestors[d]
  <2>0. c \in Block /\ d \in QCs /\ d \in Block
    BY CertificateSets
  <2>1. CASE c = Genesis
    <3>1. d # Genesis
      BY <1>1, <2>1, BlockAssumption, BoundAssumption
    <3>2. PICK r \in Honest : <<r, d>> \in votes1
      BY <2>0, <3>1, CertificateVoter
    <3>3. QED
      BY <2>1, <3>2 DEF VotesGrowFromGenesis
  <2>2. CASE c # Genesis
    <3> DEFINE A == {s \in Honest : <<s, c>> \in votes2}
               B == {s \in Honest : <<s, c>> \in votes2 \/ view[s] <= ViewOf[c]}
    <3>1. A \cup Byzantine \in Quorum
      BY <2>2 DEF DCs, DoubleCertified
    <3>2. A \in SUBSET Honest /\ B \in SUBSET Honest /\ A \subseteq B
      OBVIOUS
    <3>3. B \cup Byzantine \in Quorum
      <4> HIDE DEF A, B
      <4>1. QED
        BY <3>1, <3>2, QuorumGrows
    <3>4. Choosable(c)
      BY <3>3 DEF Choosable
    <3>5. QED
      BY <1>1, <2>0, <3>4, CertifiedExtendsChosen
  <2>3. QED
    BY <2>1, <2>2
<1>2. CASE ViewOf[a] = ViewOf[b]
  BY <1>0, <1>2, UniqueCertificate, AncestorSelf DEF Comparable
<1>3. CASE ViewOf[a] < ViewOf[b]
  BY <1>1, <1>3 DEF Comparable
<1>4. CASE ViewOf[b] < ViewOf[a]
  BY <1>1, <1>4 DEF Comparable
<1>5. QED
  BY <1>0, <1>2, <1>3, <1>4

(* The properties follow from the invariant. *)
LEMMA InvariantSuffices ==
    ASSUME IndInv
    PROVE  Agreement /\ VotingSafetyRule /\ CommitsNeverConflict
<1> USE DEF IndInv, BaseInv, LockInv
<1>1. Agreement
  BY DoubleCertificatesComparable DEF Agreement, HeldEvidence
<1>2. CommitsNeverConflict
  <2>1. SUFFICES ASSUME NEW r \in Honest, NEW d \in Block, DoubleCertified(d),
                        Height[d] > Height[tip[r]]
                 PROVE  tip[r] \in Ancestors[d]
    BY DEF CommitsNeverConflict
  <2>2. d \in DCs /\ tip[r] \in DCs /\ tip[r] \in Block
    BY <2>1 DEF DCs, HeldEvidence
  <2>3. CASE d \in Ancestors[tip[r]]
    <3>1. Height[d] <= Height[tip[r]]
      BY <2>2, <2>3, AncestorHeight
    <3>2. Height[d] \in Nat /\ Height[tip[r]] \in Nat
      BY <2>2, BlockAssumption
    <3>3. QED
      BY <2>1, <3>1, <3>2
  <2>4. QED
    BY <2>2, <2>3, DoubleCertificatesComparable DEF Comparable
<1>3. QED
  BY <1>1, <1>2

(* THEOREM: the voting safety rule INV-CS1 over whole histories, the       *)
(* leader's unchecked self-vote (leader_self_vote) included.               *)
THEOREM VotingSafety ==
    ASSUME ~ LockedGenesisRestart
    PROVE  Spec => []VotingSafetyRule
<1>1. IndInv => VotingSafetyRule
  BY InvariantSuffices
<1>2. QED
  BY <1>1, Invariant, PTL

(* THEOREM: no two honest replicas commit conflicting blocks (try_commit). *)
THEOREM NoFork ==
    ASSUME ~ LockedGenesisRestart
    PROVE  Spec => []Agreement
<1>1. IndInv => Agreement
  BY InvariantSuffices
<1>2. QED
  BY <1>1, Invariant, PTL

(* THEOREM: try_commit never meets a chain that conflicts with or skips    *)
(* the last committed block.                                               *)
THEOREM CommitsExtend ==
    ASSUME ~ LockedGenesisRestart
    PROVE  Spec => []CommitsNeverConflict
<1>1. IndInv => CommitsNeverConflict
  BY InvariantSuffices
<1>2. QED
  BY <1>1, Invariant, PTL

-----------------------------------------------------------------------------
(* The engine implements the ledger.                                       *)

(* try_commit keeps the last committed block or moves it up to d. *)
LEMMA CommitTipCases ==
    \A t, d, st : \/ CommitTip(t, d, st) = t
                  \/ CommitTip(t, d, st) = d /\ Height[d] > Height[t]
BY DEF CommitTip

(* A step leaves every committed chain alone, or one replica moves up to a *)
(* block with a double certificate.                                        *)
LEMMA TipStep ==
    ASSUME BaseInv, [Next]_vars
    PROVE  \/ UNCHANGED tip
           \/ \E r \in Honest, d \in DCs : /\ Height[d] > Height[tip[r]]
                                           /\ tip' = [tip EXCEPT ![r] = d]
<1> USE DEF BaseInv
<1> DEFINE Moves(r) == \E d \in DCs : /\ Height[d] > Height[tip[r]]
                                      /\ tip' = [tip EXCEPT ![r] = d]
<1>0. \A r \in Honest : tip = [tip EXCEPT ![r] = tip[r]]
  BY DEF TypeOK
<1>1. ASSUME NEW r \in Honest, NEW m \in DeliverableProposal,
             \/ tip' = [tip EXCEPT ![r] = Arrival(r, m).tip]
             \/ \E st : tip' = [tip EXCEPT ![r] =
                                   CommitTip(Arrival(r, m).tip, m.dc, st)]
      PROVE  UNCHANGED tip \/ Moves(r)
  <2>1. m.dc \in DCs
    BY DeliverableEvidence
  <2>2. \/ Arrival(r, m).tip = tip[r]
        \/ Arrival(r, m).tip = m.dc /\ Height[m.dc] > Height[tip[r]]
    BY CommitTipCases DEF Arrival
  <2>3. PICK t : /\ tip' = [tip EXCEPT ![r] = t]
                 /\ t = tip[r] \/ (t = m.dc /\ Height[m.dc] > Height[tip[r]])
    BY <1>1, <2>2, CommitTipCases
  <2>4. QED
    BY <1>0, <2>1, <2>3
<1>2. ASSUME NEW r \in Honest, NEW b \in Block, OnDoubleCertFormed(r, b)
      PROVE  UNCHANGED tip \/ Moves(r)
  <2>1. b \in DCs
    BY <1>2 DEF OnDoubleCertFormed, DCs
  <2>2. tip' = [tip EXCEPT ![r] = CommitTip(tip[r], b, store[r])]
    BY <1>2 DEF OnDoubleCertFormed
  <2>3. QED
    BY <1>0, <2>1, <2>2, CommitTipCases, ZenonT(30)
<1>3. ASSUME NEW r \in Honest, NEW m \in DeliverableProposal,
             RejectProposal(r, m) \/ AcceptProposal(r, m)
      PROVE  UNCHANGED tip \/ Moves(r)
  BY <1>1, <1>3, SMTT(30) DEF RejectProposal, AcceptProposal
<1>4. CASE UNCHANGED vars
  BY <1>4 DEF vars
<1>5. ASSUME NEW r \in Honest,
             \/ BootGenesis(r) \/ BootResume(r) \/ Crash(r) \/ Timeout(r)
             \/ \E m \in DeliverableProposal : OnUnusableProposal(r, m)
             \/ \E b \in Block : OnQCFormed(r, b) \/ CrashInQCFormed(r, b)
             \/ \E b \in DeliverablePrepare :
                   OnPrepare(r, b) \/ IgnorePrepare(r, b) \/ CrashInPrepare(r, b)
             \/ \E w \in 1..MaxWishView, q \in Block : OnTimeoutCert(r, w, q)
             \/ \E q \in Block : OnStatusCert(r, q)
      PROVE  UNCHANGED tip
  BY <1>5 DEF BootGenesis, BootResume, Crash, Timeout, OnUnusableProposal,
              OnQCFormed, CrashInQCFormed, OnPrepare, IgnorePrepare,
              CrashInPrepare, OnTimeoutCert, OnStatusCert, replicaVars
<1>6. ASSUME NEW r \in Honest, NEW w \in 1..MaxView, NEW b \in Block,
              FastForward(r, w, b)
      PROVE  UNCHANGED tip \/ Moves(r)
  <2>1. b \in DCs
    BY <1>6 DEF FastForward, DCs
  <2>2. tip' = [tip EXCEPT ![r] = CommitTip(tip[r], b, store[r])]
    BY <1>6 DEF FastForward
  <2>3. QED
    BY <1>0, <2>1, <2>2, CommitTipCases, ZenonT(30)
<1>7. QED
  BY <1>2, <1>3, <1>4, <1>5, <1>6 DEF Next

(* THEOREM: the committed chains of the engine are a Ledger: they only     *)
(* grow and stay prefixes of one another (try_commit, apply_commit).       *)
THEOREM EngineIsLedger ==
    ASSUME ~ LockedGenesisRestart
    PROVE  Spec => ImplementsLedger
<1>1. Init => Chain!Init
  BY DEF Init, Chain!Init
<1>2. IndInv /\ [Next]_vars => [Chain!Next]_tip
  <2>1. SUFFICES ASSUME IndInv, [Next]_vars, NEW r \in Honest, NEW d \in DCs,
                        Height[d] > Height[tip[r]], tip' = [tip EXCEPT ![r] = d]
                 PROVE  Chain!Commit(r, d)
    BY TipStep, CertificateSets DEF IndInv, Chain!Next
  <2>2. d \in Block /\ DoubleCertified(d)
    BY DEF DCs
  <2>3. tip[r] \in Ancestors[d]
    BY <2>1, <2>2, InvariantSuffices DEF CommitsNeverConflict
  <2>4. \A s \in Honest : tip[s] \in DCs
    BY <2>1 DEF IndInv, BaseInv, HeldEvidence
  <2>5. \A s \in Honest : Chain!OnOneChain(tip[s], d)
    BY <2>1, <2>4, DoubleCertificatesComparable DEF Comparable, Chain!OnOneChain
  <2>6. QED
    BY <2>1, <2>3, <2>5 DEF Chain!Commit
<1>3. QED
  BY <1>1, <1>2, Invariant, PTL DEF Spec, ImplementsLedger, Chain!Spec

-----------------------------------------------------------------------------
(* Views along a certified branch.                                         *)

Voters(b) == {s \in Honest : <<s, b>> \in votes1}

(* A certified block is of a later view than the one it extends.           *)
ViewsGrow == \A b \in Block \ {Genesis} : Certified(b) => ViewOf[Parent[b]] < ViewOf[b]

(***************************************************************************)
(* on_proposal does not compare the view of a block with that of its       *)
(* justify certificate.  But whoever voted for the parent before the first *)
(* vote for the block refuses it for good if it is not of a later view,    *)
(* and these are a quorum.                                                 *)
(***************************************************************************)
ParentsBlock ==
    \A b \in Block \ {Genesis} :
        Voters(b) # {} /\ ViewOf[b] <= ViewOf[Parent[b]]
            => \E Q \in SUBSET Voters(Parent[b]) :
                   Q \cup Byzantine \in Quorum /\ Q \cap Voters(b) = {}

LEMMA ViewsFollow ==
    ASSUME BaseInv, ParentsBlock
    PROVE  ViewsGrow
<1> SUFFICES ASSUME NEW b \in Block, b # Genesis, Certified(b)
             PROVE  ViewOf[Parent[b]] < ViewOf[b]
  BY DEF ViewsGrow
<1>1. Parent[b] \in Block /\ ViewOf[b] \in Nat /\ ViewOf[Parent[b]] \in Nat
  BY BlockAssumption, BoundAssumption
<1>2. Voters(b) \in SUBSET Honest /\ Voters(b) \cup Byzantine \in Quorum
  BY DEF Voters, Certified
<1>3. \E r \in Honest : r \in Voters(b)
  BY <1>2, HonestIntersection
<1>4. ASSUME ViewOf[b] <= ViewOf[Parent[b]] PROVE FALSE
  <2>1. PICK Q \in SUBSET Voters(Parent[b]) :
            Q \cup Byzantine \in Quorum /\ Q \cap Voters(b) = {}
    BY <1>3, <1>4 DEF ParentsBlock
  <2>2. Q \in SUBSET Honest
    BY DEF Voters
  <2>3. \E r \in Honest : r \in Q /\ r \in Voters(b)
    BY <1>2, <2>1, <2>2, HonestIntersection
  <2> QED BY <2>1, <2>3
<1> QED BY <1>1, <1>4

(* A replica that voted for the parent refuses a block that is not later.  *)
LEMMA VoterRefuses ==
    ASSUME BaseInv, NEW r \in Honest, NEW b \in Block, b # Genesis,
           MaySign(lastVote1[r], b), ViewOf[b] <= ViewOf[Parent[b]]
    PROVE  r \notin Voters(Parent[b])
<1> SUFFICES ASSUME <<r, Parent[b]>> \in votes1 PROVE FALSE
  BY DEF Voters
<1>1. /\ Parent[b] \in Block /\ Parent[b] # b
      /\ \A c \in Block : ViewOf[c] \in Nat
  <2>1. Height[b] = Height[Parent[b]] + 1 /\ Height[Parent[b]] \in Nat
    BY BlockAssumption
  <2> QED BY <2>1, BlockAssumption, BoundAssumption
<1>2. lastVote1[r] \in Block
  BY DEF BaseInv, TypeOK
<1>3. /\ ViewOf[Parent[b]] <= ViewOf[lastVote1[r]]
      /\ ViewOf[Parent[b]] = ViewOf[lastVote1[r]] => Parent[b] = lastVote1[r]
  BY DEF BaseInv, VoteRecords, Records
<1> QED BY <1>1, <1>2, <1>3 DEF MaySign

LEMMA ParentsBlockStep ==
    ASSUME BaseInv, ParentsBlock, [Next]_vars
    PROVE  ParentsBlock'
<1>1. Effect
  BY StepFacts DEF BaseInv
<1>2. CASE votes1' = votes1
  BY <1>2 DEF ParentsBlock, Voters
<1>3. ASSUME NEW r \in Honest, NEW c \in Block, Vote1Step(r, c) PROVE ParentsBlock'
  <2>1. /\ MaySign(lastVote1[r], c) /\ c # Genesis /\ Parent[c] \in QCs
        /\ votes1' = votes1 \cup {<<r, c>>}
    BY <1>3 DEF Vote1Step
  <2>2. \A d : d # c => Voters(d)' = Voters(d)
    BY <2>1 DEF Voters
  <2>3. Voters(c)' = Voters(c) \cup {r}
    BY <2>1 DEF Voters
  <2>4. \A d : Voters(d) \subseteq Voters(d)'
    BY <2>1 DEF Voters
  <2>5. ASSUME NEW b \in Block, b # Genesis, Voters(b)' # {}, ViewOf[b] <= ViewOf[Parent[b]]
        PROVE  \E Q \in SUBSET Voters(Parent[b])' :
                   Q \cup Byzantine \in Quorum /\ Q \cap Voters(b)' = {}
    <3>1. CASE b # c
      <4>1. Voters(b)' = Voters(b)
        BY <2>2, <3>1
      <4>2. PICK Q \in SUBSET Voters(Parent[b]) :
                Q \cup Byzantine \in Quorum /\ Q \cap Voters(b) = {}
        BY <2>5, <4>1 DEF ParentsBlock
      <4>3. Q \in SUBSET Voters(Parent[b])'
        BY <2>4
      <4> QED BY <4>1, <4>2, <4>3
    <3>2. CASE b = c /\ Voters(b) # {}
      <4>1. PICK Q \in SUBSET Voters(Parent[b]) :
                Q \cup Byzantine \in Quorum /\ Q \cap Voters(b) = {}
        BY <2>5, <3>2 DEF ParentsBlock
      <4>2. r \notin Q
        BY <2>1, <2>5, <3>2, VoterRefuses
      <4>3. Q \in SUBSET Voters(Parent[b])'
        BY <2>4
      <4> QED BY <2>3, <3>2, <4>1, <4>2, <4>3
    <3>3. CASE b = c /\ Voters(b) = {}
      <4>1. Parent[b] # Genesis
        <5>1. ViewOf[b] \in Nat /\ ViewOf[b] # 0 /\ ViewOf[Genesis] = 0
          BY <2>5, BlockAssumption, BoundAssumption
        <5> QED BY <2>5, <5>1
      <4>2. Voters(Parent[b]) \cup Byzantine \in Quorum
        BY <2>1, <3>3, <4>1 DEF QCs, Certified, Voters
      <4>3. r \notin Voters(Parent[b])
        BY <2>1, <2>5, <3>3, VoterRefuses
      <4>4. Voters(Parent[b]) \in SUBSET Voters(Parent[b])'
        BY <2>4
      <4> QED BY <2>3, <3>3, <4>2, <4>3, <4>4
    <3> QED BY <3>1, <3>2, <3>3
  <2> QED BY <2>5 DEF ParentsBlock
<1>4. ASSUME NEW r \in Honest, NEW c \in Block, LockStep(r, c) \/ RecordStep(r, c)
      PROVE  votes1' = votes1
  BY <1>4 DEF LockStep, RecordStep
<1>5. QuietStep => votes1' = votes1
  BY DEF QuietStep
<1> QED BY <1>1, <1>2, <1>3, <1>4, <1>5 DEF Effect

(* THEOREM: views increase along a certified branch, though no handler     *)
(* compares them, for every quorum system and however replicas restart.    *)
THEOREM CertifiedViewsGrow == Spec => []ViewsGrow
<1>1. Init => ParentsBlock
  BY DEF Init, ParentsBlock, Voters
<1>2. BaseInv /\ ParentsBlock /\ [Next]_vars => ParentsBlock'
  BY ParentsBlockStep
<1>3. BaseInv /\ ParentsBlock => ViewsGrow
  BY ViewsFollow
<1> QED BY <1>1, <1>2, <1>3, BaseInvariant, PTL DEF Spec

=============================================================================
