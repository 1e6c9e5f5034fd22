------------------------- MODULE MCValidatorUpdates -------------------------
(***************************************************************************)
(* Three validators, three keys, and powers whose sum may exceed MaxPower. *)
(***************************************************************************)
EXTENDS ValidatorUpdates

MCId == 1..3
MCKey == 1..3
MCPower == {0, 1, 2, 3, 5}
MCGenesis == << [id |-> 1, key |-> 1, power |-> 1] >>

=============================================================================
