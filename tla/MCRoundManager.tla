--------------------------- MODULE MCRoundManager ---------------------------
(***************************************************************************)
(* Validators a and b are a quorum, and so are a and c, but c is silent.   *)
(* They start from genesis, or after a round for which a has the TC that   *)
(* c signed with it, and b the QC of its own vote and a's.                 *)
(***************************************************************************)
EXTENDS RoundManager

CONSTANTS a, b, c

MCVotingPower == [v \in {a, b, c} |-> IF v = a THEN 3 ELSE 2]
MCProposers == <<a, b, c>>
MCStarts ==
    {[v \in {a, b} |-> [qc |-> 0, tc |-> 0]],
     [v \in {a, b} |-> IF v = a THEN [qc |-> 0, tc |-> 1] ELSE [qc |-> 1, tc |-> 0]]}
=============================================================================
