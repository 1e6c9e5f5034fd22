---------------------------- MODULE HotStuff2Inv ----------------------------
(***************************************************************************)
(* The inductive invariant behind the safety properties of HotStuff2.      *)
(***************************************************************************)
EXTENDS HotStuff2

(* A running replica has entered a view. *)
Started == \A r \in Honest : step[r] # "Stopped" => view[r] >= 1

(* The certificates that can be assembled. *)
QCs == {b \in Block : Certified(b)}
DCs == {b \in Block : DoubleCertified(b)}

(***************************************************************************)
(* Every certificate a replica holds, has sent or has committed by exists: *)
(* no certificate is used that its votes do not back.                      *)
(***************************************************************************)
HeldEvidence ==
    LET qcs == QCs
        dcs == DCs
    IN  \A r \in Honest :
            /\ {locked[r], highest[r], saved[r]} \subseteq qcs
            /\ {doubleCert[r], tip[r]} \subseteq dcs

SentEvidence ==
    LET qcs == QCs
        dcs == DCs
    IN  /\ \A m \in proposals : /\ m.block # Genesis
                                /\ Parent[m.block] \in qcs
                                /\ m.dc \in dcs
        /\ prepares \subseteq qcs
        /\ \A w \in wishes : w[3] \in qcs
        /\ \A s \in statuses : s[3] \in qcs
        /\ \A v \in votes1 : Parent[v[2]] \in qcs
        /\ \A v \in votes2 : v[2] \in qcs

(***************************************************************************)
(* highest_qc never falls behind the lock, in memory or on disk, so that a *)
(* leader that proposes on highest_qc respects its lock without checking   *)
(* it.  A replica that is to restart in view 1 holds no lock.              *)
(***************************************************************************)
HighestCoversLock ==
    \A r \in Honest :
        /\ ViewOf[locked[r]] <= ViewOf[highest[r]]
        /\ ViewOf[locked[r]] <= ViewOf[saved[r]]
        /\ step[r] = "Stopped" /\ view[r] <= 1 => locked[r] = Genesis

(***************************************************************************)
(* The durable vote records bound what a replica has signed: nothing later *)
(* than the record, and in the record's view only the recorded block.      *)
(***************************************************************************)
Records(votes, last) ==
    /\ \A r \in Honest : ViewOf[last[r]] <= view[r]
    /\ \A v \in votes :
          /\ v[2] # Genesis
          /\ ViewOf[v[2]] <= ViewOf[last[v[1]]]
          /\ ViewOf[v[2]] = ViewOf[last[v[1]]] => v[2] = last[v[1]]

VoteRecords == Records(votes1, lastVote1) /\ Records(votes2, lastVote2)

(***************************************************************************)
(* A double certificate of b exists or may still come to exist: a quorum   *)
(* has sent a Vote2 for b or has not left the view of b yet.               *)
(***************************************************************************)
Choosable(b) ==
    {r \in Honest : <<r, b>> \in votes2 \/ view[r] <= ViewOf[b]}
        \cup Byzantine \in Quorum

(***************************************************************************)
(* A replica that sent a Vote2 for a choosable block votes in later views  *)
(* only for its descendants.                                               *)
(***************************************************************************)
ChosenIsExtended ==
    \A v \in votes1, w \in votes2 :
        v[1] = w[1] /\ ViewOf[w[2]] < ViewOf[v[2]] /\ Choosable(w[2])
            => w[2] \in Ancestors[v[2]]

(* Every block that was voted for grows from Genesis. *)
VotesGrowFromGenesis == \A v \in votes1 : Genesis \in Ancestors[v[2]]

(***************************************************************************)
(* The whole inductive invariant.  BaseInv holds however replicas restart; *)
(* LockInv needs that no replica restarts in view 1 with a lock.           *)
(***************************************************************************)
BaseInv ==
    /\ TypeOK
    /\ Started
    /\ HeldEvidence
    /\ SentEvidence
    /\ VoteRecords
    /\ NoDoubleSign
    /\ LockCoversVote2
    /\ VotesGrowFromGenesis

LockInv ==
    /\ HighestCoversLock
    /\ VotingSafetyRule
    /\ ChosenIsExtended

IndInv == BaseInv /\ LockInv

=============================================================================
