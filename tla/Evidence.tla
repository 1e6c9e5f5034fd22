------------------------------ MODULE Evidence ------------------------------
(***************************************************************************)
(* Misconduct as one node sees it: votes that contradict each other        *)
(* (vote_collector.rs), the proofs it keeps, receives and proposes         *)
(* (evidence_store.rs and the engine), and the validators it counts as     *)
(* offline (liveness.rs), over views, epochs, crashes and the startup sync *)
(* after them.                                                             *)
(*                                                                         *)
(* The other validators are the environment.  An honest validator signs    *)
(* the block of a view that CorrectBlock names, and no other (HotStuff2    *)
(* is about that); a faulty one signs anything, in any epoch.  Signatures  *)
(* cannot be forged.  Vote extensions are left out.                        *)
(***************************************************************************)
EXTENDS Naturals, Sequences, FiniteSets

CONSTANTS
    Validator, Faulty,
    View,           \* bound: the views of a behaviour, 1..n
    Hash,           \* block hashes
    CorrectBlock,   \* the block of a view that honest validators sign
    Epoch,          \* bound: epoch numbers, 0..m
    SetOf,          \* the validators of an epoch, in the order of the vector
    LedViews,       \* the views this node leads
    Voter,          \* bound: the validators whose votes arrive
    Foreign,        \* bound: the proofs that others send or propose
    Signers,        \* bound: who may have signed a commit certificate
    MaxCommits,     \* bound: commits recorded between two resets
    MaxCrashes      \* bound: crashes in a behaviour

ASSUME EvidenceAssumption ==
    /\ Faulty \subseteq Validator /\ Voter \subseteq Validator
    /\ View \subseteq Nat \ {0} /\ 1 \in View /\ LedViews \subseteq View
    /\ Epoch \subseteq Nat /\ 0 \in Epoch
    /\ CorrectBlock \in [View -> Hash]
    /\ SetOf \in [Epoch -> Seq(Validator)]
    /\ Foreign \subseteq [validator : Validator, view : View, type : {"Vote", "Vote2"},
                           epoch : Epoch, a : Hash, b : Hash]

VARIABLES
    running,     \* the engine runs; before that, startup sync replays blocks
    view, epoch, previous,   \* previous_epoch; the current one if there is none
    votes,       \* the vote collector
    store,       \* the evidence store as the process sees it
    disk,        \* the evidence store as it was when it was last flushed
    missed, total,           \* the liveness tracker
    detected,    \* history: the offences this node has seen proof of
    reported,    \* history: the offences in blocks it committed
    replayed,    \* history: those of them that only replayed blocks carried
    present,     \* history: who signed every certificate since the reset
    misread,     \* history: a certificate of another epoch was counted
    crashes

collector == <<view, epoch, previous, votes>>
tracker == <<missed, total, present, misread>>
evidence == <<store, disk, detected, reported, replayed>>
vars == <<running, collector, evidence, tracker, crashes>>

VoteType == {"Vote", "Vote2"}
Vote == [validator : Validator, view : View, type : VoteType, epoch : Epoch, hash : Hash]
Proof == [validator : Validator, view : View, type : VoteType, epoch : Epoch,
          a : Hash, b : Hash]

Offences(ps) == {<<p.view, p.validator>> : p \in ps}

Members(e) == {SetOf[e][i] : i \in DOMAIN SetOf[e]}

Quorums(e) == {S \in SUBSET Members(e) : 3 * Cardinality(S) > 2 * Len(SetOf[e])}

(* What a validator may have signed.                                       *)
Signed(v, w, h) == v \in Faulty \/ h = CorrectBlock[w]

-----------------------------------------------------------------------------
(* The evidence store.                                                     *)

SameOffence(p, q) == p.view = q.view /\ p.validator = q.validator

(* Fault: every proof is added.                                            *)
PutEvidence_All(s, p) == [s EXCEPT !.proofs = @ \cup {p}]

(* One proof per view and validator, the first one.                        *)
PutEvidence(s, p) ==
    IF \E q \in s.proofs : SameOffence(p, q) THEN s
    ELSE [s EXCEPT !.proofs = @ \cup {p}]

(* Fault: what was committed is not looked up.                             *)
GetPending_Ignores(s) == s.proofs

(* The proofs that no committed block has carried.                         *)
GetPending(s) == {p \in s.proofs : <<p.view, p.validator>> \notin s.done}

(* mark_committed also drops the proofs themselves.                        *)
MarkCommitted(s, ps) ==
    [proofs |-> {q \in s.proofs : \A p \in ps : ~SameOffence(p, q)},
     done   |-> s.done \cup Offences(ps)]

-----------------------------------------------------------------------------
(* Votes.                                                                  *)

(* Fault: the block hashes are not compared.                               *)
Contradicts_AnyBlock(x, vote) ==
    /\ x.epoch = vote.epoch /\ x.view = vote.view /\ x.type = vote.type
    /\ x.validator = vote.validator

(* Votes of two epochs are never compared.                                 *)
Contradicts(x, vote) ==
    /\ x.epoch = vote.epoch /\ x.view = vote.view /\ x.type = vote.type
    /\ x.validator = vote.validator
    /\ x.hash # vote.hash

ProofOf(x, vote) ==
    [validator |-> vote.validator, view |-> vote.view, type |-> vote.type,
     epoch |-> vote.epoch, a |-> x.hash, b |-> vote.hash]

(* Fault: the proof is not flushed.                                        *)
Keep_NoFlush(p) ==
    /\ store' = PutEvidence(store, p)
    /\ detected' = detected \cup Offences({p})
    /\ UNCHANGED <<disk, reported, replayed>>

(* Into the store, and at once to disk.                                    *)
Keep(p) ==
    /\ store' = PutEvidence(store, p)
    /\ disk' = store'
    /\ detected' = detected \cup Offences({p})
    /\ UNCHANGED <<reported, replayed>>

(***************************************************************************)
(* add_vote: votes of the current view and epoch, from members of the set, *)
(* once each.  A vote that contradicts one in the collector yields a       *)
(* proof, and is counted all the same.                                     *)
(***************************************************************************)
AddVote(vote) ==
    /\ running /\ Signed(vote.validator, vote.view, vote.hash)
    /\ vote.view = view /\ vote.epoch = epoch
    /\ vote.validator \in Members(epoch)
    /\ votes' = votes \cup {vote}
    /\ LET clashes == {x \in votes : Contradicts(x, vote)}
       IN  IF clashes = {} THEN UNCHANGED evidence
           ELSE \E x \in clashes : Keep(ProofOf(x, vote))
    /\ UNCHANGED <<running, view, epoch, previous, tracker, crashes>>

(* VoteMsg: first-phase votes, at the leader only.                         *)
OnVote(vote) == vote.type = "Vote" /\ view \in LedViews /\ AddVote(vote)

(* Vote2Msg: second-phase votes, everywhere.                               *)
OnVote2(vote) == vote.type = "Vote2" /\ AddVote(vote)

-----------------------------------------------------------------------------
(* Proofs from others.                                                     *)

Known(v) == v \in Members(epoch) \cup Members(previous)

(* Two signatures over different blocks.                                   *)
TwoBlocks(p) ==
    /\ p.a # p.b
    /\ Signed(p.validator, p.view, p.a) /\ Signed(p.validator, p.view, p.b)

(* The checks of the Evidence message: a known validator and two genuine   *)
(* signatures over different blocks.                                       *)
Genuine(p) == Known(p.validator) /\ TwoBlocks(p)

OnEvidence(p) ==
    /\ running /\ Genuine(p)
    /\ Keep(p)
    /\ UNCHANGED <<running, collector, tracker, crashes>>

(* validate_evidence, for a block of the given view: also not from the     *)
(* future.                                                                 *)
ValidEvidence(p, w) == Genuine(p) /\ p.epoch <= epoch /\ p.view <= w

(* What this node embeds when it proposes (try_propose, propose).          *)
ProposedEvidence == {p \in GetPending(store) : ValidEvidence(p, view)}

-----------------------------------------------------------------------------
(* Commits.                                                                *)

(* More than half of the recorded commits missed.                          *)
Offline == {v \in Validator : missed[v] * 100 > 50 * total}

(* Fault: the missed commits of the last epoch stay.                       *)
ResetTracker_KeepsMissed ==
    /\ total' = 0 /\ present' = Validator /\ misread' = FALSE
    /\ UNCHANGED missed

ResetTracker ==
    /\ missed' = [v \in Validator |-> 0] /\ total' = 0
    /\ present' = Validator /\ misread' = FALSE

(* Epoch n becomes the current one, the present one the previous.          *)
EnterEpoch(n) ==
    epoch' = n /\ previous' = IF n = epoch THEN previous ELSE epoch

(* record_commit: the signers S of a certificate of epoch e are looked up  *)
(* by their positions in the set of epoch n.                               *)
RecordCommit(e, S, n) ==
    /\ LET absent == {i \in DOMAIN SetOf[n] :
                         ~(i \in DOMAIN SetOf[e] /\ SetOf[e][i] \in S)}
       IN  missed' = [v \in Validator |->
                         IF \E i \in absent : SetOf[n][i] = v
                         THEN missed[v] + 1 ELSE missed[v]]
    /\ total' = total + 1
    /\ present' = present \cap S
    /\ misread' = (misread \/ e # n)

(***************************************************************************)
(* A block with evidence ps is committed, with a certificate of epoch e    *)
(* signed by S.  If it has reached the first view of the pending epoch n,  *)
(* adopt_commit_epoch makes that one current within the view, and clears   *)
(* neither the collector nor the tracker; n is the epoch afterwards.       *)
(* process_commit_result: the offences are done with, and the signers are  *)
(* counted by the set that is then current.                                *)
(***************************************************************************)
Commit(ps, e, S, n) ==
    /\ running /\ total < MaxCommits /\ e \in {epoch, previous} /\ S \in Quorums(e)
    /\ \E w \in View : w <= view /\ \A p \in ps : ValidEvidence(p, w)
    /\ n >= epoch /\ EnterEpoch(n)
    /\ store' = MarkCommitted(store, ps) /\ disk' = store'
    /\ reported' = reported \cup Offences(ps) /\ replayed' = replayed \ Offences(ps)
    /\ RecordCommit(e, S, n)
    /\ UNCHANGED <<running, view, votes, detected, crashes>>

(* A view change; the collector forgets the votes of other views.          *)
AdvanceView(w) ==
    /\ running /\ w > view
    /\ view' = w /\ votes' = {}
    /\ UNCHANGED <<running, epoch, previous, evidence, tracker, crashes>>

(* A view change that enters the pending epoch: offline validators are     *)
(* reported, and the collector and the tracker start again.                *)
AdvanceEpoch(w, n) ==
    /\ running /\ w > view /\ n > epoch
    /\ view' = w /\ votes' = {}
    /\ EnterEpoch(n)
    /\ ResetTracker
    /\ UNCHANGED <<running, evidence, crashes>>

-----------------------------------------------------------------------------
(* Crashes and the startup sync after them.                                *)

(* The process ends: the collector and the tracker will start empty.       *)
Crash ==
    /\ crashes < MaxCrashes
    /\ crashes' = crashes + 1 /\ running' = FALSE
    /\ votes' = {} /\ store' \in {store, disk} /\ disk' = store'
    /\ ResetTracker
    /\ UNCHANGED <<view, epoch, previous, detected, reported, replayed>>

(***************************************************************************)
(* replay_blocks commits a block with evidence ps and may activate an      *)
(* epoch.  It has no evidence store and no tracker: nothing is marked, and *)
(* no signer is counted.  The validators that voted for the block have     *)
(* checked its evidence.                                                   *)
(***************************************************************************)
SyncCommit(ps, n) ==
    /\ ~running /\ \A p \in ps : TwoBlocks(p)
    /\ n >= epoch /\ EnterEpoch(n)
    /\ replayed' = replayed \cup (Offences(ps) \ reported)
    /\ reported' = reported \cup Offences(ps)
    /\ UNCHANGED <<running, view, votes, store, disk, detected, tracker, crashes>>

(* The engine starts, past the last block if that is of a later view.      *)
StartEngine(w) ==
    /\ ~running /\ w >= view
    /\ running' = TRUE /\ view' = w
    /\ UNCHANGED <<epoch, previous, votes, evidence, tracker, crashes>>

-----------------------------------------------------------------------------
(* The evidence of a block: proofs this node has, or another's.            *)
Blocks == (SUBSET store.proofs) \cup {{p} : p \in Foreign}

Init == /\ running = FALSE
        /\ view = 1 /\ epoch = 0 /\ previous = 0 /\ votes = {}
        /\ store = [proofs |-> {}, done |-> {}] /\ disk = store
        /\ missed = [v \in Validator |-> 0] /\ total = 0
        /\ detected = {} /\ reported = {} /\ replayed = {}
        /\ present = Validator /\ misread = FALSE
        /\ crashes = 0

Next ==
    \/ \E v \in Voter, w \in View, t \in VoteType, e \in Epoch, h \in Hash :
          LET vote == [validator |-> v, view |-> w, type |-> t, epoch |-> e, hash |-> h]
          IN  OnVote(vote) \/ OnVote2(vote)
    \/ \E p \in Foreign : OnEvidence(p)
    \/ \E e \in {epoch, previous}, ps \in Blocks, n \in Epoch :
          \E S \in Quorums(e) \cap Signers : Commit(ps, e, S, n)
    \/ \E w \in View : AdvanceView(w) \/ StartEngine(w)
    \/ \E w \in View, n \in Epoch : AdvanceEpoch(w, n)
    \/ \E ps \in Blocks, n \in Epoch : SyncCommit(ps, n)
    \/ Crash

Spec == Init /\ [][Next]_vars

-----------------------------------------------------------------------------
(* Properties.                                                             *)

(* The collector holds votes of the current view only - an epoch entered   *)
(* by a commit leaves those of the epoch before it -, and the store one    *)
(* proof of an offence at most.                                            *)
TypeOK ==
    /\ view \in View /\ epoch \in Epoch /\ previous \in Epoch
    /\ votes \subseteq Vote /\ \A x \in votes : x.view = view /\ x.epoch <= epoch
    /\ store.proofs \subseteq Proof
    /\ \A p, q \in store.proofs : p # q => ~SameOffence(p, q)

(***************************************************************************)
(* Whatever is delivered twice, out of order or across epochs, the node    *)
(* keeps proofs against faulty validators only.                            *)
(***************************************************************************)
NoFalseAccusation == \A p \in store.proofs : p.validator \in Faulty

(***************************************************************************)
(* An offence the node has proof of stays on its list until a block that   *)
(* the engine commits carries it: through crashes (INV-ST4, "Equivocation  *)
(* evidence must survive crashes"), replays, further offences and commits  *)
(* of others.                                                              *)
(***************************************************************************)
OffenceIsKept ==
    \A o \in detected :
        o \in reported \ replayed \/ \E p \in GetPending(store) : <<p.view, p.validator>> = o

(***************************************************************************)
(* An offence in a block that the node committed is not proposed by it     *)
(* again, however late its proof arrives and after any restart, unless     *)
(* only startup sync committed such a block: replay_blocks does not mark   *)
(* evidence, and the offence may then be proposed a second time.           *)
(***************************************************************************)
ReportedIsDone ==
    \A p \in ProposedEvidence :
        <<p.view, p.validator>> \in reported => <<p.view, p.validator>> \in replayed

(***************************************************************************)
(* A validator that signed every commit certificate since the tracker was  *)
(* reset is not reported offline, unless a certificate was counted by the  *)
(* positions of another epoch's set: one of the previous epoch, or the one *)
(* whose commit activated the current epoch.                               *)
(***************************************************************************)
SignersAreOnline == misread \/ (Offline \cap present = {})

=============================================================================
