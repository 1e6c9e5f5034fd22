------------------------------ MODULE Staking ------------------------------
(***************************************************************************)
(* The staking manager (hotmint-staking): registration, delegation,        *)
(* unbonding, slashing, jail and rewards, called by the application while  *)
(* it executes blocks, and the validator updates it returns at the end of  *)
(* a block, as consensus chains them onto the epoch in flight.             *)
(*                                                                         *)
(* A call that the code answers with an error changes nothing and is not a *)
(* step.  The reputation score is left out: nothing reads it.              *)
(***************************************************************************)
EXTENDS ValidatorSet

CONSTANTS
    Id,             \* validator ids, numbers
    Key,            \* public keys
    Staker,         \* addresses of delegators, 1..n in their order
    Evidence,       \* evidence ids
    Reason,         \* SlashReason
    SlashRate,      \* slash_rate_*, in basis points, per reason
    MaxValidators, MinSelfStake, JailDuration, BlockReward, UnbondingPeriod,
    Genesis,        \* the self-stake of the validators registered at genesis
    Amount,         \* amounts of registrations and delegations
    MaxTokens,      \* bound: tokens under management
    MaxView         \* bound: blocks up to this view

(* Slash rates are in basis points, and StakingConfig.validate bounds them. *)
Whole == 10000
Rates == 0..Whole

ASSUME StakingAssumption ==
    /\ Id \subseteq Nat /\ IsFiniteSet(Id) /\ 0 \notin Key
    /\ IsFiniteSet(Staker) /\ Staker = 1..Cardinality(Staker)
    /\ \A r \in Reason : SlashRate[r] \in Rates
    /\ MaxPower \in Nat \ {0} /\ Amount \subseteq 0..MaxPower
    /\ MaxValidators \in Nat \ {0} /\ MinSelfStake \in Nat /\ JailDuration \in Nat
    /\ BlockReward \in Nat /\ UnbondingPeriod \in Nat /\ MaxTokens \in Nat /\ MaxView \in Nat
    /\ \A i \in DOMAIN Genesis : i \in Id \cap Key /\ Genesis[i] \in MinSelfStake..MaxPower
    /\ SumFunctionOnSet(Genesis, DOMAIN Genesis) <= MaxTokens

VARIABLES
    vals,        \* the validators of the store, by id
    stakes,      \* the stake entries, by staker and validator
    unbonding,   \* the queue of unbonding entries
    tokens,      \* history: deposited and rewarded, less released and slashed
    active,      \* the validator set of the current epoch
    pend,        \* the pending epoch, with its validator set
    view         \* the view of the block being executed

vars == <<vals, stakes, unbonding, tokens, active, pend, view>>
chainVars == <<active, pend, view>>

Gone == [key |-> 0, self |-> 0, del |-> 0, jailed |-> FALSE, until |-> 0,
         tomb |-> FALSE, slashes |-> {}]

Fresh(k, s) == [Gone EXCEPT !.key = k, !.self = s]

NoEpoch == [start |-> 0, set |-> <<>>]

Registered == {i \in Id : vals[i] # Gone}

Capped(n) == IF n > MaxPower THEN MaxPower ELSE n

TotalStake(v) == Capped(v.self + v.del)

VotingPower(v) == IF v.jailed \/ v.tomb THEN 0 ELSE TotalStake(v)

(* The stake entries of validator i, those of the stakers in S.            *)
StakeOf(i, S) == SumFunctionOnSet([s \in Staker |-> stakes[<<s, i>>]], S)

Pending(queue) == {queue[n].validator : n \in DOMAIN queue}

-----------------------------------------------------------------------------
(* Registration.                                                           *)

(* No two validators share a key.                                          *)
ValidPublicKey(k) == \A j \in Registered : vals[j].key # k

Register(i, k, s) ==
    /\ i \notin Registered
    /\ ValidPublicKey(k)
    /\ s >= MinSelfStake /\ tokens + s <= MaxTokens
    /\ vals' = [vals EXCEPT ![i] = Fresh(k, s)]
    /\ tokens' = tokens + s
    /\ UNCHANGED <<stakes, unbonding, chainVars>>

(* Fault: the validator is removed although unbondings are pending.        *)
Unregister_Forgets(i) ==
    /\ i \in Registered /\ TotalStake(vals[i]) = 0
    /\ vals' = [vals EXCEPT ![i] = Gone]
    /\ UNCHANGED <<stakes, unbonding, tokens, chainVars>>

(* A validator without stake is removed, or kept as a tombstone while      *)
(* unbondings can still be slashed.                                        *)
Unregister(i) ==
    /\ i \in Registered /\ TotalStake(vals[i]) = 0
    /\ vals' = [vals EXCEPT ![i] =
                    IF i \in Pending(unbonding) THEN [@ EXCEPT !.tomb = TRUE]
                    ELSE Gone]
    /\ UNCHANGED <<stakes, unbonding, tokens, chainVars>>

-----------------------------------------------------------------------------
(* Delegation.                                                             *)

Delegate(s, i, a) ==
    /\ a > 0 /\ i \in Registered /\ ~vals[i].tomb
    /\ vals[i].del + a <= MaxPower /\ tokens + a <= MaxTokens
    /\ vals' = [vals EXCEPT ![i].del = @ + a]
    /\ stakes' = [stakes EXCEPT ![<<s, i>>] = @ + a]
    /\ tokens' = tokens + a
    /\ UNCHANGED <<unbonding, chainVars>>

(* The stake leaves the validator at once and waits in the queue.          *)
Undelegate(s, i, a) ==
    /\ a > 0 /\ i \in Registered /\ stakes[<<s, i>>] >= a
    /\ stakes' = [stakes EXCEPT ![<<s, i>>] = @ - a]
    /\ vals' = [vals EXCEPT ![i].del = IF @ > a THEN @ - a ELSE 0]
    /\ unbonding' = Append(unbonding, [staker |-> s, validator |-> i, amount |-> a,
                                       at |-> view + UnbondingPeriod])
    /\ UNCHANGED <<tokens, chainVars>>

(* A validator that left is forgotten once nothing of it is unbonding.     *)
Pruned(queue) ==
    [i \in Id |-> IF vals[i].tomb /\ TotalStake(vals[i]) = 0 /\ i \notin Pending(queue)
                  THEN Gone ELSE vals[i]]

(* Mature entries are released and tombstones without entries removed.     *)
ProcessUnbonding ==
    LET mature == {n \in DOMAIN unbonding : unbonding[n].at <= view}
    IN  /\ unbonding' = Retain(unbonding, DOMAIN unbonding \ mature)
        /\ tokens' = tokens - SumFunctionOnSet(
                        [n \in DOMAIN unbonding |-> unbonding[n].amount], mature)
        /\ vals' = Pruned(unbonding')
        /\ UNCHANGED <<stakes, chainVars>>

-----------------------------------------------------------------------------
(* Slashing.                                                               *)

Share(amount, rate) == (amount * rate) \div Whole

(* Fault: every staker's share is rounded down on its own.                 *)
StakerSlash_Floor(i, s, del) == (stakes[<<s, i>>] * del) \div StakeOf(i, Staker)

(* The delegated slash is split by rounding the cumulative shares, so that *)
(* the parts add up to it.                                                 *)
StakerSlash(i, s, del) ==
    LET upTo(t) == (StakeOf(i, 1..t) * del) \div StakeOf(i, Staker)
    IN  upTo(s) - upTo(s - 1)

SlashedEntry(e, i, rate) ==
    IF e.validator = i THEN [e EXCEPT !.amount = @ - Share(@, rate)] ELSE e

(* Fault: entries that were slashed to nothing stay in the queue.          *)
NonZero_KeepsAll(queue) == queue

(* Entries that were slashed to nothing leave the queue.                   *)
NonZero(queue) == Retain(queue, {n \in DOMAIN queue : queue[n].amount > 0})

(***************************************************************************)
(* slash_with_evidence: the own stake, the delegated stake and the         *)
(* unbonding entries lose their share.                                     *)
(* The history takes the amount that the call reports.                     *)
(***************************************************************************)
Slash(i, ev, r) ==
    /\ i \in Registered /\ ev \notin vals[i].slashes
    /\ LET v    == vals[i]
           rate == SlashRate[r]
           own  == Share(v.self, rate)
           del  == Share(v.del, rate)
           cut  == [n \in DOMAIN unbonding |->
                       IF unbonding[n].validator = i
                       THEN Share(unbonding[n].amount, rate) ELSE 0]
           until == view + JailDuration
       IN  /\ vals' = [vals EXCEPT ![i] =
                [v EXCEPT !.self = @ - own, !.del = @ - del, !.jailed = TRUE,
                          !.until = IF @ > until THEN @ ELSE until,
                          !.slashes = @ \cup {ev}]]
           /\ stakes' = [x \in DOMAIN stakes |->
                IF x[2] = i /\ del > 0 /\ StakeOf(i, Staker) > 0
                THEN stakes[x] - StakerSlash(i, x[1], del)
                ELSE stakes[x]]
           /\ unbonding' = NonZero([n \in DOMAIN unbonding |->
                                       SlashedEntry(unbonding[n], i, rate)])
           /\ tokens' = tokens - own - del - SumFunctionOnSet(cut, DOMAIN cut)
    /\ UNCHANGED chainVars

Unjail(i) ==
    /\ i \in Registered /\ ~vals[i].tomb /\ vals[i].jailed
    /\ view >= vals[i].until
    /\ vals' = [vals EXCEPT ![i].jailed = FALSE, ![i].until = 0]
    /\ UNCHANGED <<stakes, unbonding, tokens, chainVars>>

RewardProposer(i) ==
    /\ BlockReward > 0 /\ i \in Registered /\ ~vals[i].tomb
    /\ vals[i].self + BlockReward <= MaxPower /\ tokens + BlockReward <= MaxTokens
    /\ vals' = [vals EXCEPT ![i].self = @ + BlockReward]
    /\ tokens' = tokens + BlockReward
    /\ UNCHANGED <<stakes, unbonding, chainVars>>

-----------------------------------------------------------------------------
(* The end of a block.                                                     *)

Eligible == {i \in Registered : /\ ~vals[i].jailed /\ ~vals[i].tomb
                                /\ vals[i].self >= MinSelfStake}

(* The strongest candidates come first, ties by id.                        *)
Before(i, j) == \/ VotingPower(vals[i]) > VotingPower(vals[j])
                \/ VotingPower(vals[i]) = VotingPower(vals[j]) /\ i < j

Rank(i) == Cardinality({j \in Eligible : Before(j, i)}) + 1

(* The candidates in their order, as many as there may be validators.      *)
FormalValidatorList ==
    LET size  == Min({Cardinality(Eligible), MaxValidators})
        at(n) == CHOOSE i \in Eligible : Rank(i) = n
    IN  [n \in 1..size |-> [id |-> at(n), key |-> vals[at(n)].key,
                            power |-> VotingPower(vals[at(n)])]]

(* Fault: validators that have left the list are not removed.              *)
ComputeValidatorUpdates_NoRemoval(set) ==
    LET formal == FormalValidatorList
    IN  IF formal = <<>> \/ PowerAt(formal, DOMAIN formal) > MaxPower THEN <<>>
        ELSE Retain(formal, {n \in DOMAIN formal : formal[n] \notin Range(set)})

(***************************************************************************)
(* What turns the given set into the list: an empty list, or one whose     *)
(* power does not fit, leaves the set as it is.                            *)
(***************************************************************************)
ComputeValidatorUpdates(set) ==
    LET formal == FormalValidatorList
        new    == Retain(formal, {n \in DOMAIN formal : formal[n] \notin Range(set)})
        leaves == Retain(set, {n \in DOMAIN set : set[n].id \notin Ids(formal)})
    IN  IF formal = <<>> \/ PowerAt(formal, DOMAIN formal) > MaxPower THEN <<>>
        ELSE new \o [n \in DOMAIN leaves |-> [leaves[n] EXCEPT !.power = 0]]

(* The set that follows the active one, as far as it is known.             *)
NextSet == IF pend = NoEpoch THEN active ELSE pend.set

(***************************************************************************)
(* The application computes the updates against the active set, the one in *)
(* its block context; consensus applies them to the pending set if there   *)
(* is one (chained_pending_epoch), and the next block, one view later or   *)
(* after a timeout, activates what is due.  Updates that make no valid set *)
(* fail the commit when the application has executed the block: they are   *)
(* lost, and the calls of the block stay, and may be made once more.       *)
(***************************************************************************)
EndBlock(v) ==
    /\ view < v /\ v <= MaxView
    /\ LET updates == ComputeValidatorUpdates(active)
           set     == ApplyUpdates(NextSet, updates)
           chained == IF updates = <<>> \/ ~ValidSet(set) THEN pend
                      ELSE [start |-> view + 2, set |-> set]
       IN  IF chained # NoEpoch /\ v >= chained.start
           THEN active' = chained.set /\ pend' = NoEpoch
           ELSE active' = active /\ pend' = chained
    /\ view' = v
    /\ UNCHANGED <<vals, stakes, unbonding, tokens>>

-----------------------------------------------------------------------------
Init == /\ vals = [i \in Id |-> IF i \in DOMAIN Genesis THEN Fresh(i, Genesis[i])
                                ELSE Gone]
        /\ stakes = [x \in Staker \X Id |-> 0]
        /\ unbonding = <<>>
        /\ tokens = SumFunctionOnSet(Genesis, DOMAIN Genesis)
        /\ active = FormalValidatorList
        /\ pend = NoEpoch /\ view = 1

Next ==
    \/ \E i \in Id, k \in Key, a \in Amount : Register(i, k, a)
    \/ \E i \in Id : Unregister(i) \/ Unjail(i) \/ RewardProposer(i)
    \/ \E s \in Staker, i \in Id, a \in Amount : Delegate(s, i, a) \/ Undelegate(s, i, a)
    \/ ProcessUnbonding
    \/ \E i \in Id, ev \in Evidence, r \in Reason : Slash(i, ev, r)
    \/ \E v \in (view + 1)..(view + 2) : EndBlock(v)

Spec == Init /\ [][Next]_vars

-----------------------------------------------------------------------------
(* Properties.                                                             *)

(* Amounts are natural numbers that fit their width, and an entry that     *)
(* waits in the queue is never empty.                                      *)
TypeOK ==
    /\ \A i \in Id : vals[i].self \in 0..MaxPower /\ vals[i].del \in 0..MaxPower
    /\ \A x \in DOMAIN stakes : stakes[x] \in 0..MaxPower
    /\ \A n \in DOMAIN unbonding : unbonding[n].amount > 0
    /\ tokens \in 0..MaxTokens

(***************************************************************************)
(* No token is lost or made: what was deposited and rewarded, less what    *)
(* process_unbonding released and what slash reported, is exactly the own  *)
(* stake, the stake entries and the unbonding entries.                     *)
(***************************************************************************)
StakeIsConserved ==
    tokens = SumFunctionOnSet([i \in Id |-> vals[i].self], Id)
             + SumFunctionOnSet(stakes, DOMAIN stakes)
             + SumFunctionOnSet([n \in DOMAIN unbonding |-> unbonding[n].amount],
                                DOMAIN unbonding)

(* delegated_stake, which voting power is computed from, is the sum of the *)
(* stake entries through every rounded slash.                              *)
DelegationsAddUp == \A i \in Id : vals[i].del = StakeOf(i, Staker)

(***************************************************************************)
(* Stake cannot leave before the evidence arrives: a validator whose       *)
(* delegators wait in the queue is in the store and can be slashed, with   *)
(* the record of the evidence it was slashed for.                          *)
(***************************************************************************)
UnbondingStaysSlashable == Pending(unbonding) \subseteq Registered

Powered(vs) == {v \in Range(vs) : v.power > 0}

(***************************************************************************)
(* The set that consensus holds after the updates of a block is the formal *)
(* list, in members, keys and powers, if no epoch was in flight, the list  *)
(* is neither empty nor too powerful and consensus accepts the updates.  A *)
(* candidate without any stake, which a minimum of 0 admits, is an update  *)
(* of power 0 and so is left out of the set.                               *)
(***************************************************************************)
UpdatesReachFormalList ==
    [][ /\ view' # view /\ pend = NoEpoch
        /\ FormalValidatorList # <<>>
        /\ PowerAt(FormalValidatorList, DOMAIN FormalValidatorList) <= MaxPower
        /\ ValidSet(ApplyUpdates(active, ComputeValidatorUpdates(active)))
        => /\ Powered(NextSet') = Powered(FormalValidatorList)
           /\ MinSelfStake > 0 => /\ Range(NextSet') = Range(FormalValidatorList)
                                  /\ Len(NextSet') = Len(FormalValidatorList) ]_vars

=============================================================================
