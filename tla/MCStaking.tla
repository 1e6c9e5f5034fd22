------------------------------ MODULE MCStaking ------------------------------
(***************************************************************************)
(* Two validators and two delegators with a few tokens, half of the stake  *)
(* slashed for one reason and all of it for the other.                     *)
(***************************************************************************)
EXTENDS Staking

MCRate == [downtime |-> 5000, double |-> 10000]
MCGenesis == (1 :> 1)

=============================================================================
