--------------------------- MODULE MCSafetyRules ---------------------------
(***************************************************************************)
(* SafetyRules on a small instance: a first epoch long enough for a lock   *)
(* to matter (a vote in round 3 whose grandparent is in round 1 forbids    *)
(* one in round 4 whose parent is genesis), an epoch in which the key      *)
(* changes, and one in which the validator is no longer a member.          *)
(***************************************************************************)
EXTENDS SafetyRules, TLC

CONSTANTS k1, k2, MaxRound, MaxTimeout

MCEpochs == 1..3
MCKeys == {k1, k2}
MCValidatorKey == (1 :> k1) @@ (2 :> k2) @@ (3 :> NoKey)

(* Every well-formed shape of a proposal in epoch 1, only the first round  *)
(* in epochs 2 and 3.  Blocks of different ancestry compete for a round;   *)
(* in round 1, where all have the same, two ids do.                        *)
LastRound == (1 :> MaxRound) @@ (2 :> 1) @@ (3 :> 1)

MCVoteProposals ==
    {p \in [epoch : MCEpochs, round : 1..MaxRound, id : 1..2,
            one_chain_round : 0..MaxRound, two_chain_round : 0..MaxRound] :
        /\ WellFormed(p)
        /\ p.round <= LastRound[p.epoch]
        /\ p.id = 1 \/ p.round = 1}

MCTimeoutRounds == 1..MaxTimeout

=============================================================================
