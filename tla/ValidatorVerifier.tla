-------------------------- MODULE ValidatorVerifier --------------------------
(***************************************************************************)
(* The quorum arithmetic of ValidatorVerifier, as operators on a validator *)
(* set: a function from the validators' addresses to their voting powers.  *)
(* Sums are mathematical integers: the code takes the voting power of any  *)
(* node to be small relative to the largest u64.                           *)
(***************************************************************************)
EXTENDS Integers, FiniteSetsExt

(* The sum of the voting powers of a set of validators.                    *)
aggregated_voting_power(info, authors) ==
    MapThenSumSet(LAMBDA a : info[a], authors)

total_voting_power(info) == aggregated_voting_power(info, DOMAIN info)

(* Faulty variant: exactly two thirds are enough.                          *)
QuorumOf_TwoThirds(total) == (total * 2) \div 3

(* Faulty variant: the quotient is rounded up before 1 is added.           *)
QuorumOf_RoundedUp(total) == (total * 2 + 2) \div 3 + 1

(* The voting power a quorum needs, from the total.                        *)
QuorumOf(total) == (total * 2) \div 3 + 1

quorum_voting_power(info) ==
    IF DOMAIN info = {} THEN 0 ELSE QuorumOf(total_voting_power(info))

(* The authors, all of them validators, hold a quorum of the voting power. *)
check_voting_power(info, authors) ==
    /\ authors \subseteq DOMAIN info
    /\ aggregated_voting_power(info, authors) >= quorum_voting_power(info)

=============================================================================
