----------------------------- MODULE MCLibraBFT -----------------------------
(***************************************************************************)
(* LibraBFT with four validators, one of them Byzantine, and every block   *)
(* tree over four rounds.  A block is named by the digits of the rounds on *)
(* its path from genesis (0): block 134 is in round 4, on block 13, which  *)
(* is in round 3 on the block of round 1 on genesis.  So a round has one   *)
(* block for every ancestry.                                               *)
(***************************************************************************)
EXTENDS LibraBFT, FiniteSets, TLC

(* The quorums are those of ValidatorVerifier::new, with a voting power of *)
(* 1 for each validator.                                                   *)
ASSUME QuorumsOfVerifier ==
    Quorums = {Q \in SUBSET Validators :
                  Cardinality(Q) >= (Cardinality(Validators) * 2) \div 3 + 1}

MCRound == [b \in Blocks |-> b % 10]
MCParent == [b \in Blocks |-> b \div 10]
MCAncestors == [b \in Blocks |-> {b \div 10^n : n \in 0..4}]

HonestSymmetry == Permutations(Honest)

=============================================================================
