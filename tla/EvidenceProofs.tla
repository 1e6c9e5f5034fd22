--------------------------- MODULE EvidenceProofs ---------------------------
(***************************************************************************)
(* The properties of Evidence for every set of validators, every views,    *)
(* epochs and proofs of others, and any number of commits, replays and     *)
(* crashes.                                                                *)
(*                                                                         *)
(* The invariant behind them: what is in memory is on disk, what the store *)
(* holds as done is exactly what blocks committed by the engine have       *)
(* carried, every vote in the collector was signed, and only a certificate *)
(* of another epoch charges a validator that signed.                       *)
(***************************************************************************)
EXTENDS Evidence, TLAPS

StoreType == [proofs : SUBSET Proof, done : SUBSET (View \X Validator)]

Types ==
    /\ view \in View /\ epoch \in Epoch /\ previous \in Epoch
    /\ votes \subseteq Vote /\ \A x \in votes : x.view = view /\ x.epoch <= epoch
    /\ store \in StoreType
    /\ missed \in [Validator -> Nat] /\ total \in Nat
    /\ present \subseteq Validator /\ misread \in BOOLEAN

(* One proof of an offence at most.                                        *)
ProofsAreUnique == \A p, q \in store.proofs : p # q => ~SameOffence(p, q)

VotesAreSigned == \A x \in votes : Signed(x.validator, x.view, x.hash)

(* Every write is flushed before anything else happens.                    *)
StoreIsDurable == disk = store

DoneIsReported == store.done = reported \ replayed

(* An offence that was seen is on the list, or done with.                  *)
OffencesAreListed == detected \subseteq Offences(store.proofs) \cup (reported \ replayed)

(* Startup sync starts and ends with an empty collector.                   *)
NoVotesInSync == ~running => votes = {}

(* No commit was missed by a validator that signed them all.               *)
SignersMissNothing == misread \/ \A v \in present : missed[v] = 0

EvidenceInv ==
    /\ Types /\ ProofsAreUnique
    /\ VotesAreSigned /\ NoFalseAccusation
    /\ StoreIsDurable /\ DoneIsReported /\ OffencesAreListed
    /\ SignersMissNothing /\ NoVotesInSync

-----------------------------------------------------------------------------
(* put_evidence: the store has a proof of the offence afterwards, and      *)
(* nothing else is new or lost.                                            *)
LEMMA PutEvidenceFacts ==
    ASSUME NEW s \in StoreType, NEW p \in Proof
    PROVE  /\ PutEvidence(s, p) \in StoreType
           /\ PutEvidence(s, p).done = s.done
           /\ s.proofs \subseteq PutEvidence(s, p).proofs
           /\ PutEvidence(s, p).proofs \subseteq s.proofs \cup {p}
           /\ \E q \in PutEvidence(s, p).proofs : SameOffence(p, q)
           /\ p \in PutEvidence(s, p).proofs \ s.proofs =>
                  \A q \in s.proofs : ~SameOffence(p, q)
BY DEF PutEvidence, StoreType, SameOffence

(* A validator that signed two blocks of a view is faulty.                 *)
LEMMA TwoBlocksAreAFault ==
    ASSUME NEW v, NEW w, NEW a, NEW b, a # b, Signed(v, w, a), Signed(v, w, b)
    PROVE  v \in Faulty
BY DEF Signed

(* To keep a proof against a faulty validator preserves the invariant.     *)
LEMMA KeepStep ==
    ASSUME EvidenceInv, NEW p \in Proof, p.validator \in Faulty, Keep(p)
    PROVE  /\ store' \in StoreType /\ ProofsAreUnique' /\ NoFalseAccusation'
           /\ StoreIsDurable' /\ DoneIsReported' /\ OffencesAreListed'
<1> USE DEF EvidenceInv, Types
<1>1. store' = PutEvidence(store, p)
  BY DEF Keep
<1>2. /\ store' \in StoreType /\ store'.done = store.done
      /\ store.proofs \subseteq store'.proofs
      /\ store'.proofs \subseteq store.proofs \cup {p}
      /\ \E q \in store'.proofs : SameOffence(p, q)
      /\ p \in store'.proofs \ store.proofs => \A q \in store.proofs : ~SameOffence(p, q)
  BY <1>1, PutEvidenceFacts
<1>3. ProofsAreUnique'
  BY <1>2 DEF ProofsAreUnique, SameOffence
<1>4. NoFalseAccusation'
  BY <1>2 DEF NoFalseAccusation
<1>5. StoreIsDurable' /\ DoneIsReported'
  BY <1>2 DEF Keep, StoreIsDurable, DoneIsReported
<1>6. Offences({p}) \subseteq Offences(store'.proofs)
  BY <1>2 DEF Offences, SameOffence
<1>7. OffencesAreListed'
  BY <1>2, <1>6 DEF OffencesAreListed, Keep, Offences
<1> QED BY <1>2, <1>3, <1>4, <1>5, <1>7

(* A vote: what contradicts it in the collector was signed as well.        *)
LEMMA AddVoteStep ==
    ASSUME EvidenceInv, NEW vote \in Vote, AddVote(vote)
    PROVE  EvidenceInv'
<1> USE DEF EvidenceInv, Types
<1>1. votes' = votes \cup {vote} /\ UNCHANGED <<view, epoch, previous, tracker, crashes>>
      /\ vote.view = view /\ vote.epoch = epoch
      /\ Signed(vote.validator, vote.view, vote.hash)
  BY DEF AddVote
<1>2. VotesAreSigned' /\ SignersMissNothing'
  BY <1>1 DEF VotesAreSigned, SignersMissNothing, tracker
<1>3. votes' \subseteq Vote /\ \A x \in votes' : x.view = view' /\ x.epoch <= epoch'
  BY <1>1, EvidenceAssumption
<1>4. /\ store' \in StoreType /\ ProofsAreUnique' /\ NoFalseAccusation'
      /\ StoreIsDurable' /\ DoneIsReported' /\ OffencesAreListed'
  <2>1. CASE UNCHANGED evidence
    BY <2>1 DEF evidence, ProofsAreUnique, NoFalseAccusation, StoreIsDurable,
                DoneIsReported, OffencesAreListed
  <2>2. ASSUME NEW x \in votes, Contradicts(x, vote), Keep(ProofOf(x, vote))
        PROVE  /\ store' \in StoreType /\ ProofsAreUnique' /\ NoFalseAccusation'
               /\ StoreIsDurable' /\ DoneIsReported' /\ OffencesAreListed'
    <3>1. x \in Vote /\ Signed(x.validator, x.view, x.hash)
      BY DEF VotesAreSigned
    <3>2. ProofOf(x, vote) \in Proof
      BY <3>1 DEF ProofOf, Proof, Vote
    <3>3. vote.validator \in Faulty
      BY <1>1, <2>2, <3>1, TwoBlocksAreAFault DEF Contradicts
    <3>4. ProofOf(x, vote).validator \in Faulty
      BY <3>3 DEF ProofOf
    <3> QED BY <2>2, <3>2, <3>4, KeepStep
  <2> QED BY <2>1, <2>2 DEF AddVote
<1>5. NoVotesInSync'
  BY DEF AddVote, NoVotesInSync
<1> QED BY <1>1, <1>2, <1>3, <1>4, <1>5 DEF tracker

(* A proof from another node: its two signatures are genuine.              *)
LEMMA OnEvidenceStep ==
    ASSUME EvidenceInv, NEW p \in Foreign, OnEvidence(p)
    PROVE  EvidenceInv'
<1> USE DEF EvidenceInv, Types
<1>1. p \in Proof
  BY EvidenceAssumption DEF Proof, VoteType
<1>2. p.validator \in Faulty
  BY TwoBlocksAreAFault DEF OnEvidence, Genuine, TwoBlocks
<1>3. /\ store' \in StoreType /\ ProofsAreUnique' /\ NoFalseAccusation'
      /\ StoreIsDurable' /\ DoneIsReported' /\ OffencesAreListed'
  BY <1>1, <1>2, KeepStep DEF OnEvidence
<1> QED BY <1>3 DEF OnEvidence, collector, tracker, VotesAreSigned, SignersMissNothing,
                    NoVotesInSync

-----------------------------------------------------------------------------
(* The evidence of a block consists of proofs.                             *)
LEMMA BlocksHoldProofs ==
    ASSUME EvidenceInv, NEW ps \in Blocks
    PROVE  ps \subseteq Proof
<1>1. CASE ps \in SUBSET store.proofs
  BY <1>1 DEF EvidenceInv, Types, StoreType
<1>2. CASE ps \in {{p} : p \in Foreign}
  BY <1>2, EvidenceAssumption DEF Proof, VoteType
<1> QED BY <1>1, <1>2 DEF Blocks

(* mark_committed: the offences of the block are done, the others stay.    *)
LEMMA MarkCommittedFacts ==
    ASSUME NEW s \in StoreType, NEW ps \in SUBSET Proof
    PROVE  /\ MarkCommitted(s, ps) \in StoreType
           /\ MarkCommitted(s, ps).done = s.done \cup Offences(ps)
           /\ MarkCommitted(s, ps).proofs \subseteq s.proofs
           /\ Offences(s.proofs) \subseteq Offences(MarkCommitted(s, ps).proofs) \cup Offences(ps)
<1>1. Offences(ps) \subseteq View \X Validator
  BY DEF Offences, Proof
<1>2. MarkCommitted(s, ps) \in StoreType /\ MarkCommitted(s, ps).proofs \subseteq s.proofs
  BY <1>1 DEF MarkCommitted, StoreType, Offences
<1>3. MarkCommitted(s, ps).done = s.done \cup Offences(ps)
  BY DEF MarkCommitted, Offences
<1>4. ASSUME NEW q \in s.proofs
      PROVE  <<q.view, q.validator>> \in Offences(MarkCommitted(s, ps).proofs) \cup Offences(ps)
  BY DEF MarkCommitted, Offences, SameOffence
<1> QED BY <1>2, <1>3, <1>4 DEF Offences

(* The votes in the collector are of no later epoch than the one entered.  *)
LEMMA EnterEpochFacts ==
    ASSUME EvidenceInv, NEW n \in Epoch, n >= epoch, EnterEpoch(n), UNCHANGED <<view, votes>>
    PROVE  /\ epoch' \in Epoch /\ previous' \in Epoch /\ view' \in View
           /\ votes' \subseteq Vote /\ \A x \in votes' : x.view = view' /\ x.epoch <= epoch'
<1> USE DEF EvidenceInv, Types
<1>1. epoch' = n /\ previous' \in Epoch
  BY DEF EnterEpoch
<1>2. ASSUME NEW x \in votes PROVE x.epoch <= n
  <2>1. x.epoch \in Nat /\ epoch \in Nat /\ n \in Nat /\ x.epoch <= epoch
    BY EvidenceAssumption DEF Vote
  <2> QED BY <2>1
<1> QED BY <1>1, <1>2

(* A commit: positions of the set are read as they were written when the   *)
(* certificate is of the epoch that is then current.                       *)
LEMMA CommitStep ==
    ASSUME EvidenceInv, NEW e \in {epoch, previous}, NEW ps \in Blocks, NEW n \in Epoch,
           NEW S \in Quorums(e), Commit(ps, e, S, n)
    PROVE  EvidenceInv'
<1> USE DEF EvidenceInv, Types
<1>1. ps \in SUBSET Proof
  BY BlocksHoldProofs
<1>2. /\ store' \in StoreType /\ store'.done = store.done \cup Offences(ps)
      /\ store'.proofs \subseteq store.proofs
      /\ Offences(store.proofs) \subseteq Offences(store'.proofs) \cup Offences(ps)
  BY <1>1, MarkCommittedFacts DEF Commit
<1>3. /\ reported' = reported \cup Offences(ps) /\ replayed' = replayed \ Offences(ps)
      /\ disk' = store' /\ UNCHANGED <<view, votes, detected, crashes>>
  BY DEF Commit
<1>4. ProofsAreUnique' /\ NoFalseAccusation' /\ StoreIsDurable' /\ DoneIsReported'
      /\ OffencesAreListed' /\ VotesAreSigned'
  BY <1>2, <1>3 DEF ProofsAreUnique, NoFalseAccusation, StoreIsDurable, DoneIsReported,
                    OffencesAreListed, VotesAreSigned
<1>5. missed' \in [Validator -> Nat] /\ total' \in Nat /\ present' \subseteq Validator
      /\ misread' \in BOOLEAN
  BY DEF Commit, RecordCommit
<1>6. SignersMissNothing'
  <2> SUFFICES ASSUME ~misread', NEW v \in present'
               PROVE  missed'[v] = 0
    BY DEF SignersMissNothing
  <2>1. ~misread /\ e = n /\ v \in present /\ v \in S /\ v \in Validator
    BY DEF Commit, RecordCommit
  <2>2. missed[v] = 0
    BY <2>1 DEF SignersMissNothing
  <2>3. ~\E i \in {j \in DOMAIN SetOf[n] :
                      ~(j \in DOMAIN SetOf[e] /\ SetOf[e][j] \in S)} : SetOf[n][i] = v
    BY <2>1
  <2> QED BY <2>1, <2>2, <2>3 DEF Commit, RecordCommit
<1>7. /\ epoch' \in Epoch /\ previous' \in Epoch /\ view' \in View
      /\ votes' \subseteq Vote /\ \A x \in votes' : x.view = view' /\ x.epoch <= epoch'
  BY <1>3, EnterEpochFacts DEF Commit
<1>8. NoVotesInSync'
  BY DEF Commit, NoVotesInSync
<1> QED BY <1>2, <1>4, <1>5, <1>6, <1>7, <1>8

(* A replay: what it carries is reported, and not done with.               *)
LEMMA SyncCommitStep ==
    ASSUME EvidenceInv, NEW ps \in Blocks, NEW n \in Epoch, SyncCommit(ps, n)
    PROVE  EvidenceInv'
<1> USE DEF EvidenceInv, Types
<1>1. /\ replayed' = replayed \cup (Offences(ps) \ reported)
      /\ reported' = reported \cup Offences(ps)
      /\ UNCHANGED <<view, votes, store, disk, detected, tracker>>
  BY DEF SyncCommit
<1>2. reported' \ replayed' = reported \ replayed
  BY <1>1
<1>3. /\ epoch' \in Epoch /\ previous' \in Epoch /\ view' \in View
      /\ votes' \subseteq Vote /\ \A x \in votes' : x.view = view' /\ x.epoch <= epoch'
  BY <1>1, EnterEpochFacts DEF SyncCommit
<1>4. NoVotesInSync'
  BY DEF SyncCommit, NoVotesInSync
<1> QED BY <1>1, <1>2, <1>3, <1>4
        DEF tracker, ProofsAreUnique, VotesAreSigned, NoFalseAccusation, StoreIsDurable,
            DoneIsReported, OffencesAreListed, SignersMissNothing, NoVotesInSync

-----------------------------------------------------------------------------
LEMMA ResetStep ==
    ASSUME ResetTracker
    PROVE  /\ missed' \in [Validator -> Nat] /\ total' \in Nat
           /\ present' \subseteq Validator /\ misread' \in BOOLEAN
           /\ SignersMissNothing'
BY DEF ResetTracker, SignersMissNothing

LEMMA EvidenceInit == Init => EvidenceInv
<1> SUFFICES ASSUME Init PROVE EvidenceInv
  OBVIOUS
<1>1. Types
  BY EvidenceAssumption DEF Init, Types, StoreType
<1> QED BY <1>1 DEF Init, EvidenceInv, ProofsAreUnique, VotesAreSigned, NoFalseAccusation,
                    StoreIsDurable, DoneIsReported, OffencesAreListed, SignersMissNothing, NoVotesInSync

LEMMA EvidenceStep == EvidenceInv /\ [Next]_vars => EvidenceInv'
<1> SUFFICES ASSUME EvidenceInv, [Next]_vars PROVE EvidenceInv'
  OBVIOUS
<1>1. ASSUME NEW v \in Voter, NEW w \in View, NEW t \in VoteType, NEW e \in Epoch,
             NEW h \in Hash, NEW vote,
             vote = [validator |-> v, view |-> w, type |-> t, epoch |-> e, hash |-> h],
             OnVote(vote) \/ OnVote2(vote)
      PROVE  EvidenceInv'
  <2>1. vote \in Vote
    BY <1>1, EvidenceAssumption DEF Vote
  <2> QED BY <1>1, <2>1, AddVoteStep DEF OnVote, OnVote2
<1>2. ASSUME NEW p \in Foreign, OnEvidence(p) PROVE EvidenceInv'
  BY <1>2, OnEvidenceStep
<1>3. ASSUME NEW e \in {epoch, previous}, NEW ps \in Blocks, NEW n \in Epoch,
             NEW S \in Quorums(e) \cap Signers, Commit(ps, e, S, n)
      PROVE  EvidenceInv'
  BY <1>3, CommitStep
<1>4. ASSUME NEW w \in View, AdvanceView(w) \/ StartEngine(w) PROVE EvidenceInv'
  <2>1. /\ view' = w /\ votes' = {} /\ UNCHANGED <<epoch, previous, evidence, tracker>>
    BY <1>4 DEF AdvanceView, StartEngine, EvidenceInv, NoVotesInSync
  <2> QED BY <2>1 DEF evidence, tracker, EvidenceInv, Types, ProofsAreUnique,
              VotesAreSigned, NoFalseAccusation, StoreIsDurable, DoneIsReported,
              OffencesAreListed, SignersMissNothing, NoVotesInSync
<1>5. ASSUME NEW w \in View, NEW n \in Epoch, AdvanceEpoch(w, n) PROVE EvidenceInv'
  <2>1. ResetTracker
    BY <1>5 DEF AdvanceEpoch
  <2> QED BY <1>5, <2>1, ResetStep
          DEF AdvanceEpoch, EnterEpoch, evidence, EvidenceInv, Types, ProofsAreUnique, VotesAreSigned,
              NoFalseAccusation, StoreIsDurable, DoneIsReported, OffencesAreListed, NoVotesInSync
<1>6. CASE Crash
  <2>1. ResetTracker
    BY <1>6 DEF Crash
  <2>2. store' = store
    BY <1>6 DEF Crash, EvidenceInv, StoreIsDurable
  <2> QED BY <1>6, <2>1, <2>2, ResetStep
          DEF Crash, EvidenceInv, Types, ProofsAreUnique, VotesAreSigned,
              NoFalseAccusation, StoreIsDurable, DoneIsReported, OffencesAreListed, NoVotesInSync
<1>7. CASE UNCHANGED vars
  BY <1>7 DEF vars, collector, tracker, evidence, EvidenceInv, Types, ProofsAreUnique,
              VotesAreSigned, NoFalseAccusation, StoreIsDurable, DoneIsReported,
              OffencesAreListed, SignersMissNothing, NoVotesInSync
<1>8. ASSUME NEW ps \in Blocks, NEW n \in Epoch, SyncCommit(ps, n) PROVE EvidenceInv'
  BY <1>8, SyncCommitStep
<1> QED BY <1>1, <1>2, <1>3, <1>4, <1>5, <1>6, <1>7, <1>8 DEF Next

LEMMA EvidenceInvariant == Spec => []EvidenceInv
BY EvidenceInit, EvidenceStep, PTL DEF Spec

-----------------------------------------------------------------------------
(* THEOREM: the collector holds votes of the current view only, of the     *)
(* current or of an earlier epoch (VoteCollector), and the store one proof *)
(* of an offence at most.                                                  *)
THEOREM EvidenceTypeCorrect == Spec => []TypeOK
<1>1. EvidenceInv => TypeOK
  BY DEF EvidenceInv, Types, ProofsAreUnique, TypeOK, StoreType
<1> QED BY <1>1, EvidenceInvariant, PTL

(* THEOREM: no sequence of votes, gossiped proofs, commits and restarts    *)
(* makes the node hold a proof against a validator that is not faulty.     *)
THEOREM AccusationsAreTrue == Spec => []NoFalseAccusation
<1>1. EvidenceInv => NoFalseAccusation
  BY DEF EvidenceInv
<1> QED BY <1>1, EvidenceInvariant, PTL

(* THEOREM: an offence the node has seen proof of is on the list it        *)
(* proposes from until a block committed by the engine has carried it      *)
(* (put_evidence, mark_committed), whatever crashes and replays of         *)
(* startup sync come between.                                              *)
THEOREM OffencesSurvive == Spec => []OffenceIsKept
<1>1. EvidenceInv => OffenceIsKept
  BY DEF EvidenceInv, OffencesAreListed, DoneIsReported, OffenceIsKept, GetPending, Offences
<1> QED BY <1>1, EvidenceInvariant, PTL

(* THEOREM: an offence that a committed block has carried is not proposed  *)
(* again (get_pending, mark_committed), unless it was carried by blocks    *)
(* that startup sync replayed and by no other (replay_blocks marks none).  *)
THEOREM ReportedOnce == Spec => []ReportedIsDone
<1>1. EvidenceInv => ReportedIsDone
  BY DEF EvidenceInv, DoneIsReported, ReportedIsDone, ProposedEvidence, GetPending
<1> QED BY <1>1, EvidenceInvariant, PTL

(* THEOREM: a validator that signed every counted certificate is not       *)
(* reported offline (LivenessTracker), though counts go by position and    *)
(* positions shift with an epoch, as long as no certificate is counted by  *)
(* the positions of another epoch's set.                                   *)
THEOREM SignersStayOnline == Spec => []SignersAreOnline
<1>1. EvidenceInv => SignersAreOnline
  <2> SUFFICES ASSUME EvidenceInv, ~misread, NEW v \in Offline \cap present PROVE FALSE
    BY DEF SignersAreOnline
  <2>1. missed[v] = 0 /\ total \in Nat
    BY DEF EvidenceInv, SignersMissNothing, Types
  <2> QED BY <2>1 DEF Offline
<1> QED BY <1>1, EvidenceInvariant, PTL

=============================================================================
