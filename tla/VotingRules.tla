---------------------------- MODULE VotingRules ----------------------------
(***************************************************************************)
(* The voting rules of LibraBFT, as operators on what SafetyRules keeps in *)
(* secure storage.  Module SafetyRules runs them in one validator, across  *)
(* crashes and epochs; module LibraBFT runs them in every validator of one *)
(* epoch.                                                                  *)
(*                                                                         *)
(* A proposal p is what a VoteProposal tells the rules about a block: its  *)
(* epoch, its round, its id, the round of its parent (one_chain_round, the *)
(* block its QC certifies) and of its grandparent (two_chain_round, the    *)
(* parent that QC names).  A vote is a proposal and the key that signed    *)
(* it.  A store s holds last_voted_round, preferred_round and last_vote;   *)
(* last_vote, an Option in the code, is a set of at most one vote.         *)
(*                                                                         *)
(* Every setter of PersistentSafetyStorage is durable when it returns, so  *)
(* a handler that stops early leaves the first k of its writes behind: the *)
(* operators that write take k.                                            *)
(***************************************************************************)
EXTENDS Integers

(* What the store of a new validator, or of a new epoch, holds.            *)
EmptyStore ==
    [last_voted_round |-> 0, preferred_round |-> 0, last_vote |-> {}]

(* Block::verify_well_formed and VoteData::verify: rounds grow along the   *)
(* chain, except that the QC of the genesis block names genesis twice.     *)
WellFormed(p) ==
    /\ p.one_chain_round < p.round
    /\ \/ p.two_chain_round < p.one_chain_round
       \/ p.two_chain_round = 0 /\ p.one_chain_round = 0

(* Faulty variant: the block's own round is compared with the lock.        *)
VerifyPreferredRound_OwnRound(s, p) == p.round >= s.preferred_round

(* The second voting rule.                                                 *)
VerifyPreferredRound(s, p) == p.one_chain_round >= s.preferred_round

UpdatedPreferredRound(s, p) ==
    IF p.two_chain_round > s.preferred_round
    THEN p.two_chain_round ELSE s.preferred_round

(* The first voting rule.                                                  *)
verify_last_vote_round(s, p) == p.round > s.last_voted_round

(* The proposal's round is the round of the persisted last vote.           *)
IsLastVotedRound(s, p) == \E v \in s.last_vote : v.data.round = p.round

(* The block that a vote for p would commit is p's grandparent, exactly    *)
(* when the three rounds are contiguous.                                   *)
CommitsGrandparent(p) ==
    /\ p.two_chain_round + 1 = p.one_chain_round
    /\ p.one_chain_round + 1 = p.round

VoteFor(p, key) == [data |-> p, signer |-> key]

(* Faulty variant: a second vote in a round is allowed.                    *)
MayFollow_SameRound(V, v) ==
    \A w \in V :
        \/ w.data.epoch < v.data.epoch
        \/ /\ w.data.epoch = v.data.epoch
           /\ w.data.round <= v.data.round
           /\ w.data.two_chain_round <= v.data.one_chain_round

(* Faulty variant: the lock is never consulted.                            *)
MayFollow_NoLock(V, v) ==
    \A w \in V :
        \/ w.data.epoch < v.data.epoch
        \/ w.data.epoch = v.data.epoch /\ w.data.round < v.data.round

(* Vote v may follow the set V of votes of the same validator: it is in a  *)
(* later epoch than w, or in a later round and not below w's lock, for     *)
(* every w of V.                                                           *)
MayFollow(V, v) ==
    \A w \in V :
        \/ w.data.epoch < v.data.epoch
        \/ /\ w.data.epoch = v.data.epoch
           /\ w.data.round < v.data.round
           /\ w.data.two_chain_round <= v.data.one_chain_round

----------------------------------------------------------------------------

(* A new vote: preferred_round, last_voted_round, last_vote, in this order *)
(* (a last write repeats the second).                                      *)
NewVoteWrites == 3

StoreAfterNewVote(s, p, key, k) ==
    [preferred_round  |-> IF k >= 1 THEN UpdatedPreferredRound(s, p)
                                    ELSE s.preferred_round,
     last_voted_round |-> IF k >= 2 THEN p.round ELSE s.last_voted_round,
     last_vote        |-> IF k >= 3 THEN {VoteFor(p, key)} ELSE s.last_vote]

(* The last vote given again: preferred_round, then last_voted_round set   *)
(* to the vote's round, which may lower it.                                *)
ResentVoteWrites == 2

StoreAfterResentVote(s, p, k) ==
    [s EXCEPT !.preferred_round  = IF k >= 1 THEN UpdatedPreferredRound(s, p)
                                             ELSE @,
              !.last_voted_round = IF k >= 2 THEN p.round ELSE @]

(* A vote refused by the first rule, and a signed proposal: only           *)
(* preferred_round was written.                                            *)
StoreAfterPreferredRound(s, p, k) ==
    [s EXCEPT !.preferred_round = IF k >= 1 THEN UpdatedPreferredRound(s, p)
                                            ELSE @]

(* The conditions under which a timeout for a round is signed.             *)
TimeoutAllowed(s, round) ==
    /\ round > s.preferred_round
    /\ round >= s.last_voted_round

StoreAfterTimeout(s, round, k) ==
    [s EXCEPT !.last_voted_round = IF k >= 1 /\ round > @ THEN round ELSE @]

=============================================================================
