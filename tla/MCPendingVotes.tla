--------------------------- MODULE MCPendingVotes ---------------------------
(***************************************************************************)
(* The votes of one round of four validators with a total power of five:   *)
(* the first is worth two votes, the last is Byzantine.                    *)
(***************************************************************************)
EXTENDS PendingVotes

CONSTANTS v1, v2, v3, v4

MCVotingPower == [v \in {v1, v2, v3, v4} |-> IF v = v1 THEN 2 ELSE 1]

=============================================================================
