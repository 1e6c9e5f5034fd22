-------------------------- MODULE ValidatorUpdates --------------------------
(***************************************************************************)
(* The validator set of a chain as the application's updates change it     *)
(* from epoch to epoch: try_apply_updates, as chained_pending_epoch calls  *)
(* it.  An update list that yields an invalid set leaves the set as it is  *)
(* (the commit fails).                                                     *)
(***************************************************************************)
EXTENDS ValidatorSet

CONSTANTS
    Id,           \* validator ids
    Key,          \* public keys
    Power,        \* voting powers an update may set, 0 included
    MaxUpdates,   \* bound: updates in one list
    GenesisSet    \* the validator set of the genesis epoch

Validator == [id : Id, key : Key, power : 1..MaxPower]

(* The code checks the genesis set as it checks every set; that it lists   *)
(* no validator without power is up to who writes the genesis file.        *)
ASSUME GenesisSetAssumption ==
    /\ MaxPower \in Nat /\ Power \subseteq 0..MaxPower /\ MaxUpdates \in Nat
    /\ GenesisSet \in Seq(Validator) /\ GenesisSet # <<>> /\ ValidSet(GenesisSet)

Update == [id : Id, key : Key, power : Power]
UpdateLists == UNION {[1..n -> Update] : n \in 1..MaxUpdates}

VARIABLE vset

(***************************************************************************)
(* The vector holds well-formed entries only; a validator whose power was  *)
(* set to 0 is gone from it, not kept with no power.                       *)
(***************************************************************************)
TypeOK == vset \in Seq(Validator)

Init == vset = GenesisSet

TryApplyUpdates(updates) ==
    LET infos == ApplyUpdates(vset, updates)
    IN  vset' = IF ValidSet(infos) THEN infos ELSE vset

Next == \E updates \in UpdateLists : TryApplyUpdates(updates)

Spec == Init /\ [][Next]_vset

-----------------------------------------------------------------------------
(* Properties.                                                             *)

(***************************************************************************)
(* Whatever updates were applied, two quorums (quorum_threshold, as        *)
(* has_quorum counts it) share more power than max_faulty_power: one       *)
(* honest validator at least, if the faulty ones are within the bound.     *)
(* This is the assumption on Quorum under which the engine is safe.        *)
(***************************************************************************)
QuorumsShareHonestPower ==
    \A Q, R \in Quorums(vset) :
        PowerOf(vset, Q \cap R) > MaxFaultyPower(TotalPower(vset))

(***************************************************************************)
(* Validators that together hold at most max_faulty_power can be silent    *)
(* without keeping the others from a quorum.                               *)
(***************************************************************************)
HonestPowerSuffices ==
    vset # <<>> =>
        \A S \in SUBSET Ids(vset) :
            PowerOf(vset, S) <= MaxFaultyPower(TotalPower(vset))
                => HasQuorum(vset, Ids(vset) \ S)

(***************************************************************************)
(* leader_for_view: in any total_power consecutive views each validator    *)
(* leads as many views as it has power, after every change of the set.     *)
(***************************************************************************)
RotationIsProportional ==
    LET total == TotalPower(vset)
    IN  \A s \in 0..total, i \in DOMAIN vset :
            Cardinality({v \in s..(s + total - 1) :
                            LeaderForView(vset, v) = vset[i].id})
                = vset[i].power

=============================================================================
