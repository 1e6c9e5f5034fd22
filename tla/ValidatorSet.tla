---------------------------- MODULE ValidatorSet ----------------------------
(***************************************************************************)
(* Voting power and leader election: hotmint-types/validator.rs, and       *)
(* has_quorum of hotmint-crypto/aggregate.rs.  A validator set is a        *)
(* sequence of records [id, key, power]; its order is the order of the     *)
(* code's vector, which decides who leads when.  Powers are u64 in the     *)
(* code: MaxPower is the largest one.                                      *)
(***************************************************************************)
EXTENDS Naturals, Sequences, FiniteSets, SequencesExt, Vectors

CONSTANT MaxPower    \* u64::MAX

Ids(vs) == {vs[i].id : i \in DOMAIN vs}
Keys(vs) == {vs[i].key : i \in DOMAIN vs}

(* The power of the validators at the given positions of the vector.       *)
PowerAt(vs, positions) ==
    SumFunctionOnSet([i \in DOMAIN vs |-> vs[i].power], positions)

(* The total_power field, a u64.                                           *)
TotalPower(vs) == PowerAt(vs, DOMAIN vs) % (MaxPower + 1)

PowerOf(vs, S) == PowerAt(vs, {i \in DOMAIN vs : vs[i].id \in S})

(* The smallest power strictly above two thirds of the total.              *)
QuorumThreshold(total) == (total * 2) \div 3 + 1

(* Fault: a third of the power, rounded down, counts as tolerable.         *)
MaxFaultyPower_Third(total) == total \div 3

(* total_power.saturating_sub(quorum_threshold())                          *)
MaxFaultyPower(total) ==
    IF total >= QuorumThreshold(total) THEN total - QuorumThreshold(total) ELSE 0

(* The power sum of has_quorum is checked: an overflow is no quorum.       *)
HasQuorum(vs, S) ==
    PowerOf(vs, S) \in QuorumThreshold(TotalPower(vs))..MaxPower

Quorums(vs) == {S \in SUBSET Ids(vs) : HasQuorum(vs, S)}

(* Fault: the cumulative range includes its upper end.                     *)
LeaderForView_Inclusive(vs, v) ==
    LET slot == v % TotalPower(vs)
        reached == {i \in DOMAIN vs : slot <= PowerAt(vs, 1..i)}
    IN  vs[Min(reached)].id

(* The validator whose cumulative power range contains view % total_power. *)
LeaderForView(vs, v) ==
    LET slot == v % TotalPower(vs)
        reached == {i \in DOMAIN vs : slot < PowerAt(vs, 1..i)}
    IN  vs[Min(reached)].id

(* Fault: power 0 does not remove the validator.                           *)
ApplyUpdate_KeepsZero(vs, u) ==
    IF u.id \in Ids(vs)
    THEN [i \in DOMAIN vs |-> IF vs[i].id = u.id THEN u ELSE vs[i]]
    ELSE Append(vs, u)

(* One ValidatorUpdate: power 0 removes, a known id gets the new power and *)
(* key in place, a new id is appended.                                     *)
ApplyUpdate(vs, u) ==
    IF u.power = 0 THEN Retain(vs, {i \in DOMAIN vs : vs[i].id # u.id})
    ELSE IF u.id \in Ids(vs)
         THEN [i \in DOMAIN vs |-> IF vs[i].id = u.id THEN u ELSE vs[i]]
         ELSE Append(vs, u)

(* The loop of try_apply_updates: the updates in order.                    *)
ApplyUpdates(vs, updates) == FoldLeft(ApplyUpdate, vs, updates)

(* Fault: the total power is added without a check for overflow.           *)
ValidSet_Wraps(vs) ==
    /\ vs # <<>> => TotalPower(vs) > 0
    /\ Cardinality(Ids(vs)) = Len(vs)
    /\ Cardinality(Keys(vs)) = Len(vs)

(* try_new: the total power fits, is not zero unless the set is empty, and *)
(* no id or key occurs twice.                                              *)
ValidSet(vs) ==
    /\ PowerAt(vs, DOMAIN vs) <= MaxPower
    /\ vs # <<>> => TotalPower(vs) > 0
    /\ Cardinality(Ids(vs)) = Len(vs)
    /\ Cardinality(Keys(vs)) = Len(vs)

=============================================================================
