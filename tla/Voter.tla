------------------------------- MODULE Voter -------------------------------
(***************************************************************************)
(* What an honest validator promises to the protocol, with no word of how  *)
(* it remembers it: an abstract specification that SafetyRules implements. *)
(***************************************************************************)
EXTENDS VotingRules

CONSTANTS
    VoteProposals,  \* as in SafetyRules
    Keys

VARIABLE votes      \* the votes cast so far

Init == votes = {}

(* The step that casts v, the one vote it adds.                            *)
cast(v) ==
    /\ v.data \in VoteProposals /\ v.signer \in Keys
    /\ MayFollow(votes, v)
    /\ votes' = votes \cup {v}

Next == \E v \in votes' \ votes : cast(v)

Spec == Init /\ [][Next]_votes

=============================================================================
