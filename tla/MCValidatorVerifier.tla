------------------------- MODULE MCValidatorVerifier -------------------------
(***************************************************************************)
(* Every validator set over a few addresses with small voting powers, each *)
(* reached from the empty one by reconfigurations that admit, remove or    *)
(* reweigh one validator.                                                  *)
(***************************************************************************)
EXTENDS ValidatorVerifier

CONSTANTS Addresses, MaxPower

VARIABLE address_to_validator_info

NoValidators == address_to_validator_info = [a \in {} |-> 0]

(* A new epoch's verifier, with one more validator or another power.       *)
Admit(a, power) ==
    address_to_validator_info' =
        [x \in DOMAIN address_to_validator_info \cup {a} |->
            IF x = a THEN power ELSE address_to_validator_info[x]]

Remove(a) ==
    /\ a \in DOMAIN address_to_validator_info
    /\ address_to_validator_info' =
           [x \in DOMAIN address_to_validator_info \ {a} |-> address_to_validator_info[x]]

Reconfigure ==
    \E a \in Addresses : Remove(a) \/ \E power \in 0..MaxPower : Admit(a, power)

Reconfigurations == NoValidators /\ [][Reconfigure]_address_to_validator_info

----------------------------------------------------------------------------

Members == DOMAIN address_to_validator_info

(* The sets of validators that hold less than a third of the voting power. *)
Tolerated ==
    {B \in SUBSET Members :
        3 * aggregated_voting_power(address_to_validator_info, B)
            < total_voting_power(address_to_validator_info)}

Quorums ==
    {Q \in SUBSET Members : check_voting_power(address_to_validator_info, Q)}

(* Whatever validators holding less than a third of the power do, two sets *)
(* that check_voting_power accepts share an honest validator.              *)
QuorumsShareHonest ==
    \A B \in Tolerated : \A P, Q \in Quorums : (P \cap Q) \ B # {}

(* The honest validators can always form a quorum alone, so that a third   *)
(* of the power staying silent cannot stop check_voting_power for ever.    *)
HonestFormQuorum ==
    \A B \in Tolerated : Members \ B \in Quorums

=============================================================================
