------------------------------ MODULE LibraBFT ------------------------------
(***************************************************************************)
(* The protocol of one epoch, all validators together: honest ones vote as *)
(* module Voter allows (SafetyRules is proved to implement it), Byzantine  *)
(* ones sign anything, quorum certificates form, and each honest validator *)
(* commits what the certificates it comes to know of commit.               *)
(*                                                                         *)
(* The network may delay, drop, duplicate and reorder everything: a        *)
(* validator may vote for, or learn of a certificate of, any block at any  *)
(* time or never.  A block is its hash, which fixes its round, its parent  *)
(* and so all its ancestors; every block anybody might ever propose is a   *)
(* member of Blocks.                                                       *)
(***************************************************************************)
EXTENDS VotingRules

CONSTANTS
    Validators, Byzantine,
    Quorums,    \* the sets of validators with a quorum of the voting power
    Blocks, Genesis,
    Round,      \* Block -> its round
    Parent,     \* Block -> the block that its QC certifies
    Ancestors   \* Block -> itself and every block it extends

Honest == Validators \ Byzantine

(* ValidatorVerifier's quorum is more than two thirds of the voting power, *)
(* so while Byzantine validators hold less than a third of it any two      *)
(* quorums share an honest one (module ValidatorVerifier).                 *)
ASSUME QuorumAssumption ==
    /\ Quorums # {} /\ Quorums \subseteq SUBSET Validators
    /\ \A Q1, Q2 \in Quorums : Q1 \cap Q2 \cap Honest # {}

ASSUME BlocksAssumption ==
    /\ Genesis \in Blocks
    /\ Round \in [Blocks -> Nat] /\ Parent \in [Blocks -> Blocks]
    /\ Round[Genesis] = 0 /\ Parent[Genesis] = Genesis
    /\ \A b \in Blocks \ {Genesis} : Round[Parent[b]] < Round[b]

ASSUME AncestorsAssumption ==
    /\ Ancestors \in [Blocks -> SUBSET Blocks]
    /\ Ancestors[Genesis] = {Genesis}
    /\ \A b \in Blocks \ {Genesis} : Ancestors[b] = {b} \cup Ancestors[Parent[b]]

VARIABLES
    voted,  \* honest validator -> the blocks it has cast a vote for
    root    \* honest validator -> the last block it has committed

protocol_vars == <<voted, root>>

ProtocolTypeOK ==
    /\ voted \in [Honest -> SUBSET Blocks]
    /\ root \in [Honest -> Blocks]

(* Faulty variant: there is no root before the first commit of a validator. *)
ProtocolInit_NoRoot ==
    /\ voted = [h \in Honest |-> {}]
    /\ root = [h \in {} |-> Genesis]

ProtocolInit ==
    /\ voted = [h \in Honest |-> {}]
    /\ root = [h \in Honest |-> Genesis]

(* What a block tells the voting rules.                                    *)
ProposalOf(b) ==
    [epoch |-> 1, round |-> Round[b], id |-> b,
     one_chain_round |-> Round[Parent[b]],
     two_chain_round |-> Round[Parent[Parent[b]]]]

VoteOf(h, b) == VoteFor(ProposalOf(b), h)

(* Faulty variant: the voting power behind a certificate is not checked.   *)
Certified_AnyVotes(b) == b = Genesis \/ \E h \in Honest : b \in voted[h]

(* A quorum certificate for b can exist: a quorum signed the same VoteData *)
(* and LedgerInfo, every honest member of it by casting its vote.  Genesis *)
(* is certified by definition.                                             *)
Certified(b) ==
    \/ b = Genesis
    \/ \E Q \in Quorums : \A h \in Q \cap Honest : b \in voted[h]

(* An honest validator casts a vote for a block that carries a QC for its  *)
(* parent.  What else execute_and_vote and its callers require (the right  *)
(* proposer and round, no vote sent yet) only makes it vote less.          *)
cast(h, b) ==
    /\ b # Genesis
    /\ Certified(Parent[b])
    /\ MayFollow({VoteOf(h, c) : c \in voted[h]}, VoteOf(h, b))
    /\ voted' = [voted EXCEPT ![h] = @ \cup {b}]
    /\ UNCHANGED root

(* The block that a QC for b commits.                                      *)
CommittedBy(b) == Parent[Parent[b]]

(* Faulty variant: no comparison with the round of the root.               *)
commit_Again(h, b) ==
    /\ Certified(b)
    /\ CommitsGrandparent(ProposalOf(b))
    /\ root' = [root EXCEPT ![h] = CommittedBy(b)]
    /\ UNCHANGED voted

(* An honest validator learns of a QC for b, from a block, a SyncInfo or   *)
(* its own votes; BlockStore commits the block that the QC's LedgerInfo    *)
(* names, or state sync jumps to it, if its round is above the root's.     *)
commit(h, b) ==
    /\ Certified(b)
    /\ CommitsGrandparent(ProposalOf(b))
    /\ Round[CommittedBy(b)] > Round[root[h]]
    /\ root' = [root EXCEPT ![h] = CommittedBy(b)]
    /\ UNCHANGED voted

ProtocolNext == \E h \in Honest, b \in Blocks : cast(h, b) \/ commit(h, b)

Protocol == ProtocolInit /\ [][ProtocolNext]_protocol_vars

----------------------------------------------------------------------------

CertifiedBlocks == {b \in Blocks : Certified(b)}

(* No two blocks of a round are both certified.                            *)
OneCertifiedPerRound ==
    \A b, c \in CertifiedBlocks : Round[b] = Round[c] => b = c

(* Once a QC commits a block, every certified block of that round or later *)
(* extends it, whichever validators know of that QC.                       *)
CertifiedExtendCommitted ==
    \A b, c \in CertifiedBlocks :
        CommitsGrandparent(ProposalOf(b)) /\ Round[c] >= Round[CommittedBy(b)]
            => CommittedBy(b) \in Ancestors[c]

(* Honest validators never commit conflicting blocks.                      *)
Agreement ==
    \A h, g \in Honest :
        root[h] \in Ancestors[root[g]] \/ root[g] \in Ancestors[root[h]]

(* A commit extends what the validator committed before, so that           *)
(* path_from_root, whose None BlockStore::commit takes for an empty path,  *)
(* never returns None there.                                               *)
CommitsExtendRoot ==
    [][\A h \in Honest : root[h] \in Ancestors[root'[h]]]_protocol_vars

(* The blocks that some honest validator has committed.                    *)
CommittedLog == UNION {Ancestors[root[h]] : h \in Honest}

LedgerInterface == INSTANCE Ledger WITH log <- CommittedLog, delivered <- root

(* The protocol implements one append-only ledger, of which each honest    *)
(* validator delivers a growing prefix.                                    *)
ImplementsLedger == LedgerInterface!Spec

=============================================================================
