------------------------------ MODULE HotStuff2 ------------------------------
(***************************************************************************)
(* The consensus engine of hotmint within one epoch: the view protocol of  *)
(* hotmint-consensus (view_protocol.rs) as the event loop of engine.rs     *)
(* drives it, with the double-sign guard and the durable state of state.rs *)
(* and consensus_state.rs.                                                 *)
(*                                                                         *)
(* A block is named by its hash, so the tree of all well-formed blocks is  *)
(* constant and a run of the protocol only decides which of them exist.    *)
(* A quorum certificate is named by the block it certifies: every honest   *)
(* replica votes for a block only in the block's own view, so the view of  *)
(* a certificate is the view of its block.  Genesis stands for "no         *)
(* certificate" wherever the code has an Option: the code treats None and  *)
(* the genesis certificate (view 0) alike.                                 *)
(*                                                                         *)
(* The sets proposals, votes1, prepares, votes2, wishes and statuses hold  *)
(* everything an honest replica has ever sent.  A message may be delivered *)
(* never, late, twice or in any order.  The Byzantine replicas are given   *)
(* every certificate for which honest votes exist, and what they can send  *)
(* is added to what may be delivered.                                      *)
(***************************************************************************)
EXTENDS Naturals, FiniteSets

CONSTANTS
    Honest,                \* validators that run this code
    Byzantine,             \* validators that may send anything they can sign
    Quorum,                \* sets of validators that hold quorum_threshold power
    Leader,                \* leader_for_view
    Block,                 \* every well-formed block, named by its hash
    Genesis,               \* Block::genesis
    Parent,                \* Block.parent_hash
    ViewOf,                \* Block.view
    Height,                \* Block.height
    AppHash,               \* Block.app_hash, named by the block that produced it
    MaxView,               \* bound: no replica enters a later view
    MaxProposeView,        \* bound: honest leaders propose up to this view
    MaxWishView,           \* bound: no replica wishes for a later view
    MaxWishes,             \* bound: wishes of a replica for one view
    MaxCrashes,            \* bound: crashes in a behaviour
    LockedGenesisRestart   \* may a replica that holds a lock restart in view 1?

Replica == Honest \cup Byzantine

ASSUME QuorumAssumption ==
    /\ Honest \cap Byzantine = {}
    /\ Quorum \subseteq SUBSET Replica
    /\ \A Q, R \in Quorum : Q \cap R \cap Honest # {}
    /\ \A Q \in Quorum, R \in SUBSET Replica : Q \subseteq R => R \in Quorum

ASSUME BoundAssumption ==
    /\ MaxView \in Nat \ {0}
    /\ MaxProposeView \in Nat
    /\ MaxWishView \in 0..MaxView
    /\ MaxWishes \in Nat
    /\ MaxCrashes \in Nat
    /\ LockedGenesisRestart \in BOOLEAN
    /\ Leader \in [1..(MaxView + 1) -> Replica]

ASSUME BlockAssumption ==
    /\ Genesis \in Block
    /\ Parent \in [Block -> Block]
    /\ ViewOf \in [Block -> 0..MaxView]
    /\ Height \in [Block -> Nat]
    /\ AppHash \in [Block -> Block]
    /\ Parent[Genesis] = Genesis
    /\ Height[Genesis] = 0
    /\ \A b \in Block : ViewOf[b] = 0 <=> b = Genesis
    /\ \A b \in Block \ {Genesis} : Height[b] = Height[Parent[b]] + 1

-----------------------------------------------------------------------------
(* The block tree.                                                         *)

(***************************************************************************)
(* Sets of blocks that contain the parent of each of their members.  The   *)
(* ancestors of a block are what every such set around it contains: the    *)
(* reflexive transitive closure of Parent, stated without recursion.       *)
(***************************************************************************)
ParentClosed == {S \in SUBSET Block : \A b \in S : Parent[b] \in S}

Ancestors == [b \in Block |->
                {a \in Block : \A S \in ParentClosed : b \in S => a \in S}]

Comparable(a, b) == a \in Ancestors[b] \/ b \in Ancestors[a]

(* Fault: the first certificate is kept and later ones are dropped.        *)
MaxQC_FirstWins(old, new) == IF old = Genesis THEN new ELSE old

(* update_highest_qc and update_locked_qc keep the certificate of the      *)
(* strictly greater view.                                                  *)
MaxQC(old, new) == IF ViewOf[new] > ViewOf[old] THEN new ELSE old

(* Fault: the guard compares views only, and admits the recorded view.     *)
MaySign_SameView(slot, b) == ViewOf[slot] <= ViewOf[b]

(* check_and_record_vote: may a slot that holds the last signed block sign *)
(* b in the view of b?                                                     *)
MaySign(slot, b) == ViewOf[slot] < ViewOf[b] \/ slot = b

(* The lock check of on_proposal.                                          *)
DominatesLock(justify, locked) ==
    \/ ViewOf[justify] > ViewOf[locked]
    \/ justify = locked

(***************************************************************************)
(* try_commit, for a replica whose last committed block is t and whose     *)
(* block store is st, on a double certificate of d.  It succeeds when d is *)
(* already committed, or when the walk over the parents of d finds every   *)
(* block down to the last committed height and meets t there.              *)
(***************************************************************************)
CommitOk(t, d, st) ==
    /\ d \in st
    /\ \/ Height[d] <= Height[t]
       \/ /\ {a \in Ancestors[d] : Height[a] >= Height[t]} \subseteq st
          /\ t \in Ancestors[d]

(* Fault: a double certificate below the committed height is not skipped.  *)
CommitTip_Rewinds(t, d, st) == IF CommitOk(t, d, st) THEN d ELSE t

(* The last committed block after try_commit.                              *)
CommitTip(t, d, st) ==
    IF CommitOk(t, d, st) /\ Height[d] > Height[t] THEN d ELSE t

(* The blocks a leader attaches to a proposal on parent q: the walk from q *)
(* while it stays in the store and not below last_committed - 1.           *)
AncestorBlocks(q, t, st) ==
    {a \in Ancestors[q] \ {Genesis} :
        /\ Height[a] + 1 >= Height[t]
        /\ \A c \in Ancestors[q] : Height[c] >= Height[a] => c \in st}

-----------------------------------------------------------------------------
VARIABLES
    view,          \* current_view
    step,          \* ViewStep, or "Stopped" while the process is down
    locked,        \* locked_qc
    highest,       \* highest_qc
    saved,         \* highest_qc as last persisted
    doubleCert,    \* highest_double_cert
    lastVote1,     \* last_vote1, durable before the vote leaves
    lastVote2,     \* last_vote2
    store,         \* blocks in the block store
    tip,           \* block at last_committed_height
    crashes,       \* crashes so far (bounds the model)
    proposals, votes1, prepares, votes2, wishes, statuses

replicaVars == <<view, step, locked, highest, saved, doubleCert,
                 lastVote1, lastVote2, store, tip, crashes>>
messages == <<proposals, votes1, prepares, votes2, wishes, statuses>>
vars == <<view, step, locked, highest, saved, doubleCert, lastVote1,
          lastVote2, store, tip, crashes,
          proposals, votes1, prepares, votes2, wishes, statuses>>

ViewStep == {"Stopped", "Entered", "WaitingForStatus", "WaitingForProposal",
             "CollectingVotes", "Voted", "Prepared", "SentVote2"}

ProposalMsg == [block : Block, dc : Block, anc : SUBSET Block]

TypeOK ==
    /\ view \in [Honest -> 0..MaxView]
    /\ step \in [Honest -> ViewStep]
    /\ locked \in [Honest -> Block]
    /\ highest \in [Honest -> Block]
    /\ saved \in [Honest -> Block]
    /\ doubleCert \in [Honest -> Block]
    /\ lastVote1 \in [Honest -> Block]
    /\ lastVote2 \in [Honest -> Block]
    /\ store \in [Honest -> SUBSET Block]
    /\ tip \in [Honest -> Block]
    /\ crashes \in Nat
    /\ proposals \subseteq ProposalMsg
    /\ votes1 \subseteq Honest \X Block
    /\ prepares \subseteq Block
    /\ votes2 \subseteq Honest \X Block
    /\ wishes \subseteq Honest \X (1..MaxView) \X Block
    /\ statuses \subseteq Honest \X (1..MaxView) \X Block

-----------------------------------------------------------------------------
(* Certificates, and what the Byzantine replicas can send.                 *)

(* A quorum certificate over the Vote messages for b can be assembled.     *)
Certified(b) ==
    \/ b = Genesis
    \/ {s \in Honest : <<s, b>> \in votes1} \cup Byzantine \in Quorum

(* Fault: the outer certificate is not required to be over Vote2 messages. *)
DoubleCertified_SingleQuorum(b) == Certified(b)

(* A double certificate: a second quorum over the Vote2 messages for b.    *)
DoubleCertified(b) ==
    /\ Certified(b)
    /\ \/ b = Genesis
       \/ {s \in Honest : <<s, b>> \in votes2} \cup Byzantine \in Quorum

(***************************************************************************)
(* Blocks with a certified parent that a Byzantine replica can propose in  *)
(* a way that passes verify_message and the leader check: one of its own,  *)
(* if it leads the block's view, or one an honest leader has signed.       *)
(***************************************************************************)
ByzantineBlocks ==
    {b \in Block \ {Genesis} :
        /\ Certified(Parent[b])
        /\ \/ Leader[ViewOf[b]] \in Byzantine
           \/ Byzantine # {} /\ \E m \in proposals : m.block = b}

(* Fault: the double certificate of a proposal is not validated.           *)
ByzantineProposals_AnyDC ==
    UNION {[block : {b}, dc : Block, anc : {{}, Ancestors[b] \ {b}}] :
           b \in ByzantineBlocks}

(***************************************************************************)
(* Their proposals.  The signature covers the block and the justify        *)
(* certificate: any double certificate that passes validate_double_cert,   *)
(* or none, may come with it, and its ancestors or none of them.           *)
(***************************************************************************)
ByzantineProposals ==
    UNION {[block : {b},
            dc : {d \in Block : DoubleCertified(d)},
            anc : {{}, Ancestors[b] \ {b}}] : b \in ByzantineBlocks}

DeliverableProposal == proposals \cup ByzantineProposals

(* Prepare messages signed by the leader of the certificate's view.        *)
DeliverablePrepare ==
    prepares \cup {b \in Block \ {Genesis} :
                      Leader[ViewOf[b]] \in Byzantine /\ Certified(b)}

(***************************************************************************)
(* Timeout certificates for target view w whose highest certificate is q:  *)
(* a quorum has wished for w, no honest wish in it carries a certificate   *)
(* of a later view than q, and one of its members contributed q.           *)
(***************************************************************************)
TimeoutCert(w, q) ==
    /\ \/ \E s \in Honest : <<s, w, q>> \in wishes
       \/ Byzantine # {} /\ Certified(q)
    /\ {m[1] : m \in {m \in wishes : m[2] = w /\ ViewOf[m[3]] <= ViewOf[q]}}
          \cup Byzantine \in Quorum

-----------------------------------------------------------------------------
Init ==
    /\ view = [r \in Honest |-> 0]
    /\ step = [r \in Honest |-> "Stopped"]
    /\ locked = [r \in Honest |-> Genesis]
    /\ highest = [r \in Honest |-> Genesis]
    /\ saved = [r \in Honest |-> Genesis]
    /\ doubleCert = [r \in Honest |-> Genesis]
    /\ lastVote1 = [r \in Honest |-> Genesis]
    /\ lastVote2 = [r \in Honest |-> Genesis]
    /\ store = [r \in Honest |-> {Genesis}]
    /\ tip = [r \in Honest |-> Genesis]
    /\ crashes = 0
    /\ proposals = {}
    /\ votes1 = {}
    /\ prepares = {}
    /\ votes2 = {}
    /\ wishes = {}
    /\ statuses = {}

(* Fault: the leader votes for whatever it proposes.                       *)
SelfVote_Unguarded(r, b) ==
    /\ lastVote1' = [lastVote1 EXCEPT ![r] = b]
    /\ votes1' = votes1 \cup {<<r, b>>}

(* leader_self_vote: the guard refuses a second block in the same view,    *)
(* the record is durable before the vote counts.                           *)
SelfVote(r, b) ==
    IF MaySign(lastVote1[r], b)
    THEN /\ lastVote1' = [lastVote1 EXCEPT ![r] = b]
         /\ votes1' = votes1 \cup {<<r, b>>}
    ELSE UNCHANGED <<lastVote1, votes1>>

(***************************************************************************)
(* propose in view w on highest certificate q, with double certificate d,  *)
(* last committed block t and store st: the block is stored and broadcast  *)
(* with its ancestors.  Then the leader votes for it.                      *)
(***************************************************************************)
Propose(r, w, q, d, t, st) ==
    \E b \in Block :
        /\ ViewOf[b] = w
        /\ Parent[b] = q
        /\ AppHash[b] = t
        /\ store' = [store EXCEPT ![r] = st \cup {b}]
        /\ proposals' = proposals \cup
              {[block |-> b, dc |-> d, anc |-> AncestorBlocks(q, t, st)]}
        /\ SelfVote(r, b)
        /\ step' = [step EXCEPT ![r] = "CollectingVotes"]

(* try_propose: the leader proposes at once when it has the parent block;  *)
(* otherwise it stays in WaitingForStatus.                                 *)
TryPropose(r, w, q, d, t, st) ==
    \/ /\ q \notin st \/ w > MaxProposeView
       /\ step' = [step EXCEPT ![r] = "WaitingForStatus"]
       /\ store' = [store EXCEPT ![r] = st]
       /\ UNCHANGED <<proposals, votes1, lastVote1>>
    \/ /\ q \in st
       /\ w <= MaxProposeView
       /\ Propose(r, w, q, d, t, st)

(* enter_view, for a timeout or double certificate that raises highest_qc  *)
(* to q: everyone but the leader reports its lock to the leader.           *)
EnterView(r, w, q, d) ==
    /\ view' = [view EXCEPT ![r] = w]
    /\ highest' = [highest EXCEPT ![r] = q]
    /\ doubleCert' = [doubleCert EXCEPT ![r] = d]
    /\ statuses' = IF r = Leader[w] THEN statuses
                   ELSE statuses \cup {<<r, w, locked[r]>>}

(* advance_view_to: the new view and certificates are persisted, then the  *)
(* leader proposes.                                                        *)
AdvanceViewTo(r, w, q, d, t) ==
    /\ w > view[r]
    /\ w <= MaxView
    /\ EnterView(r, w, q, d)
    /\ saved' = [saved EXCEPT ![r] = q]
    /\ \/ /\ r = Leader[w]
          /\ TryPropose(r, w, q, d, t, store[r])
       \/ /\ r # Leader[w]
          /\ step' = [step EXCEPT ![r] = "WaitingForProposal"]
          /\ UNCHANGED <<store, proposals, votes1, lastVote1>>

-----------------------------------------------------------------------------
(* Starting and stopping.                                                  *)

(* Fault: the view is not persisted.                                       *)
RestoredView_Lost(r) == IF tip[r] = Genesis THEN 0 ELSE ViewOf[tip[r]] + 1

(* The view a start-up resumes in: the persisted one, moved past the view  *)
(* of the last committed block.                                            *)
RestoredView(r) ==
    IF tip[r] # Genesis /\ ViewOf[tip[r]] >= view[r] THEN ViewOf[tip[r]] + 1
                                                     ELSE view[r]

(***************************************************************************)
(* run with current_view <= 1: enter_genesis_view resets highest_qc to the *)
(* genesis certificate, whatever was persisted, and (re-)enters view 1.    *)
(***************************************************************************)
BootGenesis(r) ==
    /\ step[r] = "Stopped"
    /\ RestoredView(r) <= 1
    /\ view' = [view EXCEPT ![r] = 1]
    /\ highest' = [highest EXCEPT ![r] = Genesis]
    /\ \/ /\ r = Leader[1]
          /\ TryPropose(r, 1, Genesis, doubleCert[r], tip[r], store[r])
       \/ /\ r # Leader[1]
          /\ step' = [step EXCEPT ![r] = "WaitingForProposal"]
          /\ UNCHANGED <<store, proposals, votes1, lastVote1>>
    /\ UNCHANGED <<locked, saved, doubleCert, lastVote2, tip, crashes,
                   prepares, votes2, wishes, statuses>>

(* run with current_view > 1: the persisted state is resumed as it is, in  *)
(* step Entered and role Replica, until the next view change.              *)
BootResume(r) ==
    /\ step[r] = "Stopped"
    /\ RestoredView(r) \in 2..MaxView
    /\ view' = [view EXCEPT ![r] = RestoredView(r)]
    /\ step' = [step EXCEPT ![r] = "Entered"]
    /\ UNCHANGED <<locked, highest, saved, doubleCert, lastVote1, lastVote2,
                   store, tip, crashes, messages>>

(* Fault: highest_qc is not persisted.                                     *)
Stop_LosesHighest(r) ==
    /\ crashes < MaxCrashes
    /\ view[r] > 1 \/ locked[r] = Genesis \/ LockedGenesisRestart
    /\ crashes' = crashes + 1
    /\ step' = [step EXCEPT ![r] = "Stopped"]
    /\ highest' = [highest EXCEPT ![r] = Genesis]
    /\ doubleCert' = [doubleCert EXCEPT ![r] = Genesis]

(* What a crash leaves: highest_qc as persisted, no double certificate.    *)
Stop(r) ==
    /\ crashes < MaxCrashes
    /\ view[r] > 1 \/ locked[r] = Genesis \/ LockedGenesisRestart
    /\ crashes' = crashes + 1
    /\ step' = [step EXCEPT ![r] = "Stopped"]
    /\ highest' = [highest EXCEPT ![r] = saved[r]]
    /\ doubleCert' = [doubleCert EXCEPT ![r] = Genesis]

Crash(r) ==
    /\ step[r] # "Stopped"
    /\ Stop(r)
    /\ UNCHANGED <<view, locked, saved, lastVote1, lastVote2, store, tip,
                   messages>>

-----------------------------------------------------------------------------
(* Proposals.                                                              *)

(***************************************************************************)
(* What handle_message has done with a proposal m before on_proposal: the  *)
(* attached ancestors above the last committed height are stored, and a    *)
(* proposal of a later view with a double certificate has committed its    *)
(* block and raised the view and highest_qc.                               *)
(***************************************************************************)
Arrival(r, m) ==
    LET future == ViewOf[m.block] > view[r]
        st == store[r] \cup {a \in m.anc : Height[a] > Height[tip[r]]}
    IN  [future  |-> future,
         store   |-> st,
         tip     |-> IF future THEN CommitTip(tip[r], m.dc, st) ELSE tip[r],
         highest |-> IF future THEN MaxQC(highest[r], m.dc) ELSE highest[r]]

(* A proposal of a past view is only stored; so are the ancestors of one   *)
(* of a later view that carries no double certificate.                     *)
OnUnusableProposal(r, m) ==
    LET old == ViewOf[m.block] < view[r]
        wanted == {a \in m.anc \cup (IF old THEN {m.block} ELSE {}) :
                      Height[a] > Height[tip[r]]}
    IN  /\ step[r] # "Stopped"
        /\ r # Leader[ViewOf[m.block]]
        /\ old \/ (ViewOf[m.block] > view[r] /\ m.dc = Genesis)
        /\ store' = [store EXCEPT ![r] = @ \cup wanted]
        /\ UNCHANGED <<view, step, locked, highest, saved, doubleCert,
                       lastVote1, lastVote2, tip, crashes, messages>>

(* The part of a proposal's handling shared by its outcomes: the view      *)
(* change that a later view forces.                                        *)
ProposalPrologue(r, m, a) ==
    /\ step[r] # "Stopped"
    /\ r # Leader[ViewOf[m.block]]
    /\ ViewOf[m.block] >= view[r]
    /\ a.future => m.dc # Genesis
    /\ view' = [view EXCEPT ![r] = ViewOf[m.block]]
    /\ doubleCert' = IF a.future THEN [doubleCert EXCEPT ![r] = m.dc]
                                 ELSE doubleCert
    /\ statuses' = IF a.future
                   THEN statuses \cup {<<r, ViewOf[m.block], locked[r]>>}
                   ELSE statuses
    /\ UNCHANGED <<locked, lastVote2, crashes, proposals, prepares, votes2,
                   wishes>>

(* on_proposal gets past its checks.                                       *)
Acceptable(r, m, a) ==
    /\ a.future \/ step[r] = "WaitingForProposal"
    /\ DominatesLock(Parent[m.block], locked[r])
    /\ Parent[m.block] \in a.store

RejectProposal(r, m) ==
    LET a == Arrival(r, m)
    IN  /\ ProposalPrologue(r, m, a)
        /\ ~ Acceptable(r, m, a)
        /\ store' = [store EXCEPT ![r] = a.store]
        /\ tip' = [tip EXCEPT ![r] = a.tip]
        /\ highest' = [highest EXCEPT ![r] = a.highest]
        /\ saved' = IF a.future THEN [saved EXCEPT ![r] = a.highest] ELSE saved
        /\ step' = IF a.future THEN [step EXCEPT ![r] = "WaitingForProposal"]
                               ELSE step
        /\ UNCHANGED <<lastVote1, votes1>>

(***************************************************************************)
(* on_proposal: the block is stored and its justify certificate adopted,   *)
(* the double certificate is committed, and only then is the block's       *)
(* app_hash compared with the local state.  A commit error or a mismatch   *)
(* leaves the replica waiting; otherwise it votes unless the double-sign   *)
(* guard refuses, and moves to Voted either way.  A commit persists.       *)
(***************************************************************************)
AcceptProposal(r, m) ==
    LET a == Arrival(r, m)
        b == m.block
        st == a.store \cup {b}
        q == MaxQC(a.highest, Parent[b])
        t == CommitTip(a.tip, m.dc, st)
        voting == CommitOk(a.tip, m.dc, st) /\ AppHash[b] = t
        signing == voting /\ MaySign(lastVote1[r], b)
    IN  /\ ProposalPrologue(r, m, a)
        /\ Acceptable(r, m, a)
        /\ store' = [store EXCEPT ![r] = st]
        /\ tip' = [tip EXCEPT ![r] = t]
        /\ highest' = [highest EXCEPT ![r] = q]
        /\ saved' = [saved EXCEPT ![r] = IF t # a.tip THEN q
                                         ELSE IF a.future THEN a.highest
                                         ELSE @]
        /\ step' = [step EXCEPT ![r] = IF voting THEN "Voted"
                                       ELSE "WaitingForProposal"]
        /\ lastVote1' = IF signing THEN [lastVote1 EXCEPT ![r] = b]
                                   ELSE lastVote1
        /\ votes1' = IF signing THEN votes1 \cup {<<r, b>>} ELSE votes1

(***************************************************************************)
(* A block of any later view w signed by a Byzantine validator that does   *)
(* not lead w, with a valid double certificate of any block d:             *)
(* verify_message asks for a validator, not for the leader.  The           *)
(* certificate is committed and the view entered, with a proposal by r if  *)
(* r leads it, before on_proposal refuses the block.                       *)
(***************************************************************************)
FastForward(r, w, d) ==
    LET t == CommitTip(tip[r], d, store[r])
    IN  /\ step[r] # "Stopped"
        /\ Byzantine # {}
        /\ d # Genesis
        /\ DoubleCertified(d)
        /\ tip' = [tip EXCEPT ![r] = t]
        /\ AdvanceViewTo(r, w, MaxQC(highest[r], d), d, t)
        /\ UNCHANGED <<locked, lastVote2, crashes, prepares, votes2, wishes>>

-----------------------------------------------------------------------------
(* Certificates.                                                           *)

(* The Vote2 half shared by leader and replica: record, lock, persist,     *)
(* then send.                                                              *)
SignVote2(r, b) ==
    /\ lastVote2' = [lastVote2 EXCEPT ![r] = b]
    /\ votes2' = votes2 \cup {<<r, b>>}

(***************************************************************************)
(* VoteMsg at the leader, completing a quorum: on_qc_formed broadcasts     *)
(* Prepare, then the guard decides whether the leader locks, persists and  *)
(* casts its own Vote2.                                                    *)
(***************************************************************************)
OnQCFormed(r, b) ==
    /\ step[r] \in {"WaitingForStatus", "CollectingVotes", "Prepared"}
    /\ ViewOf[b] = view[r]
    /\ Certified(b)
    /\ prepares' = prepares \cup {b}
    /\ highest' = [highest EXCEPT ![r] = MaxQC(@, b)]
    /\ step' = [step EXCEPT ![r] = "Prepared"]
    /\ IF MaySign(lastVote2[r], b)
       THEN /\ SignVote2(r, b)
            /\ locked' = [locked EXCEPT ![r] = MaxQC(@, b)]
            /\ saved' = [saved EXCEPT ![r] = MaxQC(highest[r], b)]
       ELSE UNCHANGED <<lastVote2, votes2, locked, saved>>
    /\ UNCHANGED <<view, doubleCert, lastVote1, store, tip, crashes,
                   proposals, votes1, wishes, statuses>>

(* A crash inside on_qc_formed: the Prepare is out and the Vote2 record is *)
(* flushed, the lock is not yet saved and the Vote2 never leaves.          *)
CrashInQCFormed(r, b) ==
    /\ step[r] \in {"WaitingForStatus", "CollectingVotes", "Prepared"}
    /\ ViewOf[b] = view[r]
    /\ Certified(b)
    /\ MaySign(lastVote2[r], b)
    /\ prepares' = prepares \cup {b}
    /\ lastVote2' = [lastVote2 EXCEPT ![r] = b]
    /\ Stop(r)
    /\ UNCHANGED <<view, locked, saved, lastVote1, store, tip,
                   proposals, votes1, votes2, wishes, statuses>>

(* The Prepare handler passes its app_hash check.                          *)
PrepareMatches(r, b) ==
    /\ ViewOf[b] = view[r]
    /\ b \in store[r] => AppHash[b] = tip[r]

(***************************************************************************)
(* on_prepare at a replica that voted in this view: lock, record and flush *)
(* the Vote2, persist the state, and only then send the Vote2.             *)
(***************************************************************************)
OnPrepare(r, b) ==
    /\ step[r] = "Voted"
    /\ PrepareMatches(r, b)
    /\ locked' = [locked EXCEPT ![r] = MaxQC(@, b)]
    /\ highest' = [highest EXCEPT ![r] = MaxQC(@, b)]
    /\ saved' = [saved EXCEPT ![r] = MaxQC(highest[r], b)]
    /\ step' = [step EXCEPT ![r] = "SentVote2"]
    /\ IF MaySign(lastVote2[r], b)
       THEN SignVote2(r, b)
       ELSE UNCHANGED <<lastVote2, votes2>>
    /\ UNCHANGED <<view, doubleCert, lastVote1, store, tip, crashes,
                   proposals, votes1, prepares, wishes, statuses>>

(* A Prepare in any other step is ignored, but the state is persisted.     *)
IgnorePrepare(r, b) ==
    /\ step[r] \notin {"Voted", "Stopped"}
    /\ PrepareMatches(r, b)
    /\ saved' = [saved EXCEPT ![r] = highest[r]]
    /\ UNCHANGED <<view, step, locked, highest, doubleCert, lastVote1,
                   lastVote2, store, tip, crashes, messages>>

(***************************************************************************)
(* A crash inside on_prepare, after save_last_vote has flushed the Vote2   *)
(* record and before persist_state has saved the lock.                     *)
(***************************************************************************)
CrashInPrepare(r, b) ==
    /\ step[r] = "Voted"
    /\ PrepareMatches(r, b)
    /\ MaySign(lastVote2[r], b)
    /\ lastVote2' = [lastVote2 EXCEPT ![r] = b]
    /\ Stop(r)
    /\ UNCHANGED <<view, locked, saved, lastVote1, store, tip, messages>>

(***************************************************************************)
(* Vote2Msg completing a quorum, at any replica: the votes are addressed   *)
(* to the next leader, but every node relays them to its peers and the     *)
(* handler does not ask who it is.  on_double_cert_formed needs the        *)
(* matching inner certificate (the one a leader formed is its highest_qc); *)
(* it commits, which may fail without stopping it, and enters the next     *)
(* view.                                                                   *)
(***************************************************************************)
OnDoubleCertFormed(r, b) ==
    LET t == CommitTip(tip[r], b, store[r])
    IN  /\ step[r] # "Stopped"
        /\ b # Genesis
        /\ ViewOf[b] = view[r]
        /\ DoubleCertified(b)
        /\ b \in {locked[r], highest[r]}
        /\ tip' = [tip EXCEPT ![r] = t]
        /\ AdvanceViewTo(r, view[r] + 1, MaxQC(highest[r], b), b, t)
        /\ UNCHANGED <<locked, lastVote2, crashes, prepares, votes2, wishes>>

-----------------------------------------------------------------------------
(* View changes.                                                           *)

(* handle_timeout: the wish carries highest_qc as it is now; the replica   *)
(* goes on taking part in the view.                                        *)
Timeout(r) ==
    /\ step[r] # "Stopped"
    /\ view[r] < MaxWishView
    /\ Cardinality({q \in Block : <<r, view[r] + 1, q>> \in wishes}) < MaxWishes
    /\ wishes' = wishes \cup {<<r, view[r] + 1, highest[r]>>}
    /\ UNCHANGED <<replicaVars, proposals, votes1, prepares, votes2, statuses>>

(* A timeout certificate, formed from wishes or received, for a later view.*)
OnTimeoutCert(r, w, q) ==
    /\ step[r] # "Stopped"
    /\ w > view[r]
    /\ TimeoutCert(w, q)
    /\ AdvanceViewTo(r, w, MaxQC(highest[r], q), doubleCert[r], tip[r])
    /\ UNCHANGED <<locked, lastVote2, tip, crashes, prepares, votes2, wishes>>

(* Locks that reach the leader of view w in StatusCert messages.           *)
ReportedLock(w, q) ==
    \/ \E s \in Honest : <<s, w, q>> \in statuses
    \/ Byzantine # {} /\ Certified(q)

(* StatusCert at a leader that could not propose: highest_qc rises to the  *)
(* reported lock; with a quorum of reports the leader tries again.         *)
OnStatusCert(r, q) ==
    LET high == MaxQC(highest[r], q)
    IN  /\ step[r] = "WaitingForStatus"
        /\ ReportedLock(view[r], q)
        /\ highest' = [highest EXCEPT ![r] = high]
        /\ \/ UNCHANGED <<step, store, proposals, votes1, lastVote1>>
           \/ /\ {r} \cup Byzantine \cup
                    {s \in Honest : \E p \in Block : <<s, view[r], p>> \in statuses}
                    \in Quorum
              /\ TryPropose(r, view[r], high, doubleCert[r], tip[r], store[r])
        /\ UNCHANGED <<view, locked, saved, doubleCert, lastVote2, tip,
                       crashes, prepares, votes2, wishes, statuses>>

-----------------------------------------------------------------------------
Next ==
    \E r \in Honest :
        \/ BootGenesis(r)
        \/ BootResume(r)
        \/ Crash(r)
        \/ \E m \in DeliverableProposal :
              \/ OnUnusableProposal(r, m)
              \/ RejectProposal(r, m)
              \/ AcceptProposal(r, m)
        \/ \E w \in 1..MaxView, d \in Block : FastForward(r, w, d)
        \/ \E b \in Block : OnQCFormed(r, b) \/ CrashInQCFormed(r, b)
        \/ \E b \in DeliverablePrepare :
              \/ OnPrepare(r, b)
              \/ IgnorePrepare(r, b)
              \/ CrashInPrepare(r, b)
        \/ \E b \in Block : OnDoubleCertFormed(r, b)
        \/ Timeout(r)
        \/ \E w \in 1..MaxWishView, q \in Block : OnTimeoutCert(r, w, q)
        \/ \E q \in Block : OnStatusCert(r, q)

Spec == Init /\ [][Next]_vars

-----------------------------------------------------------------------------
(* Properties.                                                             *)

(***************************************************************************)
(* No fork: the chains that two honest replicas have committed are         *)
(* prefixes of one another, whatever the Byzantine replicas sent and       *)
(* whoever restarted (try_commit executing conflicting blocks).            *)
(***************************************************************************)
Agreement == \A r, s \in Honest : Comparable(tip[r], tip[s])

(***************************************************************************)
(* At most one block of a view gets a quorum certificate, also when the    *)
(* leader proposed two (an equivocating leader, or one that proposed again *)
(* after a restart in view 1).                                             *)
(***************************************************************************)
OneCertificatePerView ==
    \A a, b \in {c \in Block : Certified(c)} : ViewOf[a] = ViewOf[b] => a = b

(***************************************************************************)
(* A replica never signs two blocks of one view with votes of one type,    *)
(* over all its restarts: what check_and_record_vote and the records saved *)
(* before a vote leaves are for.                                           *)
(***************************************************************************)
SignsOnce(votes) ==
    \A v, w \in votes :
        v[1] = w[1] /\ ViewOf[v[2]] = ViewOf[w[2]] => v[2] = w[2]

NoDoubleSign == SignsOnce(votes1) /\ SignsOnce(votes2)

(***************************************************************************)
(* INV-CS1, the voting safety rule, over a replica's whole history: after  *)
(* a Vote2 for b it votes in later views only for children of b or blocks  *)
(* justified by a certificate of a view later than b's.  This holds for    *)
(* the leader's vote for its own block too, which checks no lock.          *)
(***************************************************************************)
VotingSafetyRule ==
    \A v \in votes1, w \in votes2 :
        v[1] = w[1] /\ ViewOf[w[2]] < ViewOf[v[2]]
            => DominatesLock(Parent[v[2]], w[2])

(***************************************************************************)
(* A Vote2 that has left is covered by the lock its sender would restart   *)
(* with: persist_state precedes the send in the Prepare handler and in     *)
(* on_qc_formed.                                                           *)
(***************************************************************************)
LockCoversVote2 ==
    \A v \in votes2 : ViewOf[v[2]] <= ViewOf[locked[v[1]]]

(***************************************************************************)
(* The errors "commit chain conflicts with last committed block" and       *)
(* "commit chain skips last committed height" of try_commit cannot occur:  *)
(* every double certificate above a replica's committed height is for a    *)
(* descendant of its last committed block.                                 *)
(***************************************************************************)
CommitsNeverConflict ==
    \A r \in Honest, d \in Block :
        Height[d] > Height[tip[r]] /\ DoubleCertified(d)
            => tip[r] \in Ancestors[d]

(***************************************************************************)
(* The engine implements the ledger: committed chains only grow, by one or *)
(* more blocks at a time, and stay prefixes of one another.                *)
(***************************************************************************)
Chain == INSTANCE Ledger WITH Member <- Honest, chain <- tip

ImplementsLedger == Chain!Spec

=============================================================================
