--------------------------- MODULE LibraBFTProofs ---------------------------
(***************************************************************************)
(* Safety of consensus, in two steps.  One validator: SafetyRules hands    *)
(* out only votes that module Voter allows, for every set of epochs,       *)
(* proposals and keys and every sequence of crashes, storage errors and    *)
(* epoch changes.  All validators: with honest votes as Voter allows them, *)
(* no two conflicting blocks are ever committed and the validators         *)
(* implement one append-only ledger, for every set of validators and every *)
(* block tree, of any size.                                                *)
(***************************************************************************)
EXTENDS SafetyRules, LibraBFT, WellFoundedInduction, TLAPS

(* More time for a step than the provers take by default.                  *)
USE SMTT(20), ZenonT(20)

----------------------------------------------------------------------------
(* One validator                                                           *)

(* What the voting rules preserve of a store, whoever runs them.           *)
IsProposal(p) ==
    /\ p.epoch \in Nat
    /\ p.round \in Nat
    /\ p.one_chain_round \in Nat
    /\ p.two_chain_round \in Nat

IsStore(s) ==
    /\ s = [last_voted_round |-> s.last_voted_round,
            preferred_round  |-> s.preferred_round,
            last_vote        |-> s.last_vote]
    /\ s.last_voted_round \in Nat
    /\ s.preferred_round \in Nat
    /\ \A v \in s.last_vote : IsProposal(v.data)

(* Store s covers the votes V handed out in epoch e: the last vote is the  *)
(* latest of them or a later one that was not handed out, it respects the  *)
(* lock that each of them sets, and the persisted rounds are no lower than *)
(* theirs.                                                                 *)
Covers(s, V, e) ==
    /\ \A lv \in s.last_vote : /\ lv.data.epoch = e
                               /\ lv.data.round <= s.last_voted_round
                               /\ lv.data.two_chain_round <= s.preferred_round
    /\ \A v \in V : v.data.epoch = e =>
          /\ v.data.two_chain_round <= s.preferred_round
          /\ \E lv \in s.last_vote :
                \/ v = lv
                \/ /\ v.data.round < lv.data.round
                   /\ v.data.two_chain_round <= lv.data.one_chain_round

(* A new vote follows every vote its store covers.                         *)
LEMMA NewVoteFollows ==
    ASSUME NEW s, IsStore(s), NEW p, IsProposal(p), NEW key,
           NEW V, \A v \in V : IsProposal(v.data) /\ v.data.epoch <= p.epoch,
           Covers(s, V, p.epoch),
           VerifyPreferredRound(s, p), verify_last_vote_round(s, p)
    PROVE  MayFollow(V, VoteFor(p, key))
BY DEF IsStore, IsProposal, Covers, VerifyPreferredRound, verify_last_vote_round,
       MayFollow, VoteFor

(* However many of the writes of a new vote happen, the store still covers *)
(* the votes handed out before; once they all have, the new vote too.      *)
LEMMA NewVoteCovers ==
    ASSUME NEW s, IsStore(s), NEW p, IsProposal(p), NEW key,
           NEW V, \A v \in V : IsProposal(v.data) /\ v.data.epoch <= p.epoch,
           Covers(s, V, p.epoch),
           VerifyPreferredRound(s, p), verify_last_vote_round(s, p),
           NEW k \in 0..NewVoteWrites
    PROVE  LET t == StoreAfterNewVote(s, p, key, k)
           IN  /\ Covers(t, V, p.epoch)
               /\ k = NewVoteWrites => Covers(t, V \cup {VoteFor(p, key)}, p.epoch)
<1> DEFINE t == StoreAfterNewVote(s, p, key, k)
<1>1. t.preferred_round \in Nat /\ t.preferred_round >= s.preferred_round
  BY DEF IsStore, IsProposal, StoreAfterNewVote, UpdatedPreferredRound
<1>2. t.last_voted_round \in Nat /\ t.last_voted_round >= s.last_voted_round
  BY DEF IsStore, IsProposal, StoreAfterNewVote, verify_last_vote_round
<1>3. CASE k < 3
  <2>1. t.last_vote = s.last_vote
    BY <1>3 DEF StoreAfterNewVote
  <2>2. Covers(t, V, p.epoch)
    BY <1>1, <1>2, <2>1 DEF IsStore, IsProposal, Covers
  <2> QED BY <1>3, <2>2 DEF NewVoteWrites
<1>4. CASE k = 3
  <2>1. /\ t.last_vote = {VoteFor(p, key)}
        /\ t.last_voted_round = p.round
        /\ t.preferred_round >= p.two_chain_round
    BY <1>4 DEF StoreAfterNewVote, UpdatedPreferredRound, IsStore, IsProposal
  <2>2. MayFollow(V, VoteFor(p, key))
    BY NewVoteFollows
  <2>3. Covers(t, V \cup {VoteFor(p, key)}, p.epoch)
    BY <1>1, <2>1, <2>2 DEF Covers, MayFollow, VoteFor, IsProposal, IsStore
  <2>4. Covers(t, V, p.epoch)
    BY <2>3 DEF Covers
  <2> QED BY <2>3, <2>4
<1> QED BY <1>3, <1>4 DEF NewVoteWrites

(* Giving the last vote again, with any prefix of its writes, keeps the    *)
(* store covering, with that vote among those handed out.                  *)
LEMMA ResentVoteCovers ==
    ASSUME NEW s, IsStore(s), NEW p, IsProposal(p),
           NEW V, \A v \in V : IsProposal(v.data),
           NEW lv, s.last_vote = {lv}, lv.data.round = p.round,
           Covers(s, V, p.epoch),
           NEW k \in 0..ResentVoteWrites
    PROVE  LET t == StoreAfterResentVote(s, p, k)
           IN  Covers(t, V, p.epoch) /\ Covers(t, V \cup {lv}, p.epoch)
<1> DEFINE t == StoreAfterResentVote(s, p, k)
<1>1. /\ t.preferred_round \in Nat
      /\ t.preferred_round >= s.preferred_round
      /\ t.last_vote = {lv}
      /\ t.last_voted_round \in {s.last_voted_round, lv.data.round}
  BY DEF IsStore, IsProposal, StoreAfterResentVote, UpdatedPreferredRound
<1>2. IsProposal(lv.data)
  BY DEF IsStore
<1>3. Covers(t, V, p.epoch)
  BY <1>1, <1>2 DEF IsStore, IsProposal, Covers
<1>4. Covers(t, V \cup {lv}, p.epoch)
  BY <1>1, <1>2, <1>3 DEF IsStore, IsProposal, Covers
<1> QED BY <1>3, <1>4

(* The last vote, if it was not handed out yet, follows those that were.   *)
LEMMA ResentVoteFollows ==
    ASSUME NEW s, NEW e \in Nat, NEW lv, s.last_vote = {lv},
           NEW V, \A v \in V : v.data.epoch \in Nat /\ v.data.epoch <= e,
           Covers(s, V, e), lv \notin V
    PROVE  MayFollow(V, lv)
BY DEF Covers, MayFollow

(* Raising the persisted rounds keeps the store covering.                  *)
LEMMA RaisedRoundsCover ==
    ASSUME NEW s, IsStore(s), NEW t, NEW e, NEW V,
           \A v \in V : IsProposal(v.data),
           Covers(s, V, e),
           t.last_vote = s.last_vote,
           t.last_voted_round \in Nat, t.last_voted_round >= s.last_voted_round,
           t.preferred_round \in Nat, t.preferred_round >= s.preferred_round
    PROVE  Covers(t, V, e)
BY DEF IsStore, IsProposal, Covers

(* A set of votes in which each may follow the earlier ones holds one vote *)
(* per round and respects the lock; adding one that may follow keeps both. *)
PairwiseSafe(V) ==
    \A v, w \in V : v.data.epoch = w.data.epoch =>
        /\ v.data.round = w.data.round => v = w
        /\ v.data.round < w.data.round
              => w.data.one_chain_round >= v.data.two_chain_round

LEMMA FollowingIsSafe ==
    ASSUME NEW V, NEW v, \A w \in V \cup {v} : IsProposal(w.data),
           PairwiseSafe(V), MayFollow(V, v)
    PROVE  PairwiseSafe(V \cup {v})
BY DEF IsProposal, PairwiseSafe, MayFollow

----------------------------------------------------------------------------

(* The inductive invariant.  While the persisted epoch is the one that the *)
(* waypoint starts, the store covers the votes handed out; an epoch change *)
(* that was interrupted leaves the epoch behind the waypoint, and then the *)
(* rounds of the store mean nothing, but nothing can be signed either.     *)
Covering == epoch = waypoint =>
    /\ Covers(store, votes, epoch)
    /\ \A lv \in store.last_vote : lv.signer = ValidatorKey[epoch]

IInv ==
    /\ TypeOK
    /\ epoch <= waypoint
    /\ ReadyInWaypointEpoch
    /\ ready => signer = ValidatorKey[epoch]
    /\ \A v \in votes : v.data.epoch <= epoch
    /\ SignedWithEpochKey
    /\ PairwiseSafe(votes)
    /\ Covering

USE EpochsAssumption, ProposalsAssumption, TimeoutRoundsAssumption, KeysAssumption

(* What the types of the constants and of the variables give the lemmas on *)
(* the voting rules.                                                       *)
LEMMA ProposalFacts == \A p \in VoteProposals : IsProposal(p) /\ p.epoch \in Epochs
BY Zenon DEF IsProposal

LEMMA VoteFacts == \A v \in Votes : IsProposal(v.data) /\ v.data \in VoteProposals
BY ProposalFacts DEF Votes

LEMMA StoreFacts ==
    ASSUME TypeOK
    PROVE  /\ IsStore(store)
           /\ \A v \in votes : IsProposal(v.data)
           /\ \A v \in store.last_vote : v \in Votes /\ store.last_vote = {v}
BY VoteFacts DEF TypeOK, IsStore

LEMMA InitIInv == Init => IInv
<1> SUFFICES ASSUME Init PROVE IInv
  OBVIOUS
<1>1. TypeOK
  BY Zenon DEF Init, TypeOK, EmptyStore
<1>2. epoch <= waypoint
  BY DEF Init
<1>3. Covering
  BY DEF Init, EmptyStore, Covering, Covers
<1> QED
  BY <1>1, <1>2, <1>3 DEF Init, IInv, ReadyInWaypointEpoch, SignedWithEpochKey, PairwiseSafe

(* The writes of an epoch change, however many happen.                     *)
LEMMA InitializeWritesKeep ==
    ASSUME IInv, NEW last \in Epochs, waypoint <= last, epoch < last,
           NEW k \in 0..5, InitializeWrites(last, k), UNCHANGED votes
    PROVE  /\ epoch' \in Epochs /\ waypoint' \in Epochs
           /\ store' \in [last_voted_round : Nat, preferred_round : Nat,
                          last_vote : {{}} \cup {{v} : v \in Votes}]
           /\ epoch' <= waypoint'
           /\ \A v \in votes' : v.data.epoch <= epoch'
           /\ Covering'
           /\ k = 5 => epoch' = last /\ waypoint' = last
<1> USE DEF InitializeWrites
<1>1. /\ epoch' \in Epochs /\ waypoint' \in Epochs
      /\ store' \in [last_voted_round : Nat, preferred_round : Nat,
                     last_vote : {{}} \cup {{v} : v \in Votes}]
      /\ epoch' <= waypoint'
      /\ k = 5 => epoch' = last /\ waypoint' = last
  BY DEF IInv, TypeOK
<1>2. \A v \in votes' : v.data.epoch <= epoch'
  BY VoteFacts DEF IInv, TypeOK, IsProposal
<1>3. Covering'
  <2>1. CASE k = 0
    <3>1. store' = store /\ epoch' = epoch /\ waypoint' = waypoint
      BY <2>1 DEF IInv, TypeOK
    <3> QED BY <3>1 DEF IInv, Covering
  <2>2. CASE k \in 1..4
    BY <2>2 DEF IInv, TypeOK, Covering
  <2>3. CASE k = 5
    <3>1. store' = EmptyStore /\ epoch' = last
      BY <2>3 DEF EmptyStore
    <3>2. \A v \in votes' : v.data.epoch # last
      BY VoteFacts DEF IInv, TypeOK, IsProposal
    <3> QED BY <3>1, <3>2 DEF Covering, Covers, EmptyStore
  <2> QED BY <2>1, <2>2, <2>3
<1> QED BY <1>1, <1>2, <1>3, Zenon

(* A vote that may follow those handed out keeps what is known of them.    *)
LEMMA HandOutKeeps ==
    ASSUME IInv, NEW v \in Votes, v.data.epoch = epoch,
           v.signer = ValidatorKey[epoch],
           v \in votes \/ MayFollow(votes, v), votes' = votes \cup {v}
    PROVE  /\ votes' \subseteq Votes
           /\ \A w \in votes' : w.data.epoch <= epoch
           /\ SignedWithEpochKey'
           /\ PairwiseSafe(votes')
<1>1. \A w \in votes \cup {v} : IsProposal(w.data)
  BY StoreFacts, VoteFacts DEF IInv
<1>2. PairwiseSafe(votes')
  <2>1. CASE v \in votes
    <3>1. votes' = votes
      BY <2>1
    <3> QED BY <3>1 DEF IInv, PairwiseSafe
  <2>2. CASE MayFollow(votes, v)
    BY <1>1, <2>2, FollowingIsSafe DEF IInv
  <2> QED BY <2>1, <2>2
<1>3. SignedWithEpochKey'
  BY DEF IInv, SignedWithEpochKey
<1>4. votes' \subseteq Votes /\ \A w \in votes' : w.data.epoch <= epoch
  BY <1>1 DEF IInv, TypeOK, IsProposal
<1> QED BY <1>2, <1>3, <1>4

(* A step that leaves the epoch, the waypoint and the votes alone, and may *)
(* only lose the memory, keeps the invariant if the store stays covering.  *)
MemoryKeptOrLost == UNCHANGED memory \/ MemoryLost

LEMMA StoreStepKeeps ==
    ASSUME IInv, UNCHANGED <<epoch, waypoint>>, MemoryKeptOrLost,
           store' \in [last_voted_round : Nat, preferred_round : Nat,
                       last_vote : {{}} \cup {{v} : v \in Votes}],
           timeouts' \subseteq [epoch : Epochs, round : TimeoutRounds],
           votes' \subseteq Votes, \A w \in votes' : w.data.epoch <= epoch,
           SignedWithEpochKey', PairwiseSafe(votes'), Covering'
    PROVE  IInv'
<1>1. /\ signer' \in Keys \cup {NoKey} /\ epoch_state' \in Epochs \cup {0}
      /\ ready' \in BOOLEAN
      /\ ready' => ready /\ signer' = signer /\ epoch_state' = epoch_state
  <2>1. CASE UNCHANGED memory
    BY <2>1 DEF memory, IInv, TypeOK
  <2>2. CASE MemoryLost
    BY <2>2, Zenon DEF MemoryLost
  <2> QED BY <2>1, <2>2 DEF MemoryKeptOrLost
<1>2. TypeOK'
  BY <1>1 DEF IInv, TypeOK
<1>3. ReadyInWaypointEpoch' /\ (ready' => signer' = ValidatorKey[epoch'])
  BY <1>1 DEF IInv, ReadyInWaypointEpoch
<1> QED BY <1>2, <1>3 DEF IInv

LEMMA InitializeStep ==
    ASSUME IInv, NEW first \in Epochs, NEW last \in Epochs,
           \/ initialize_ok(first, last)
           \/ initialize_interrupted(first, last)
           \/ initialize_without_key(first, last)
    PROVE  IInv'
<1> USE DEF VerifyEpochChangeProof
<1>1. CASE initialize_ok(first, last)
  <2>0. epoch_state' = last /\ ready' = TRUE /\ signer' = ValidatorKey[last]
        /\ waypoint <= last /\ UNCHANGED <<votes, timeouts>>
    BY <1>1 DEF initialize_ok, ReconciledSigner
  <2>1. /\ epoch' = last /\ waypoint' = last
        /\ store' \in [last_voted_round : Nat, preferred_round : Nat,
                       last_vote : {{}} \cup {{v} : v \in Votes}]
        /\ \A v \in votes' : v.data.epoch <= epoch'
        /\ Covering'
    <3>1. CASE epoch < last
      BY <1>1, <2>0, <3>1, InitializeWritesKeep DEF initialize_ok
    <3>2. CASE ~(epoch < last)
      <4>1. epoch = last /\ waypoint = last /\ UNCHANGED persistent
        BY <1>1, <2>0, <3>2 DEF initialize_ok, IInv, TypeOK
      <4> QED BY <2>0, <4>1 DEF IInv, TypeOK, persistent, Covering
    <3> QED BY <3>1, <3>2
  <2>2. SignedWithEpochKey' /\ PairwiseSafe(votes')
    BY <2>0 DEF IInv, SignedWithEpochKey, PairwiseSafe
  <2>3. TypeOK'
    BY <2>0, <2>1 DEF IInv, TypeOK
  <2> QED BY <2>0, <2>1, <2>2, <2>3 DEF IInv, ReadyInWaypointEpoch
<1>2. CASE initialize_interrupted(first, last)
  <2>0. /\ ready' = FALSE /\ epoch_state' \in Epochs \cup {0}
        /\ signer' \in Keys \cup {NoKey} /\ waypoint <= last
        /\ UNCHANGED <<votes, timeouts>>
    BY <1>2, Zenon DEF initialize_interrupted, ReconciledSigner, MemoryLost, CallerStops, IInv, TypeOK
  <2>1. /\ epoch' \in Epochs /\ waypoint' \in Epochs /\ epoch' <= waypoint'
        /\ store' \in [last_voted_round : Nat, preferred_round : Nat,
                       last_vote : {{}} \cup {{v} : v \in Votes}]
        /\ \A v \in votes' : v.data.epoch <= epoch'
        /\ Covering'
    <3>1. CASE epoch < last /\ \E k \in 0..5 : InitializeWrites(last, k)
      BY <2>0, <3>1, InitializeWritesKeep
    <3>2. CASE UNCHANGED persistent
      BY <2>0, <3>2 DEF IInv, TypeOK, persistent, Covering
    <3> QED BY <1>2, <3>1, <3>2 DEF initialize_interrupted
  <2>2. SignedWithEpochKey' /\ PairwiseSafe(votes')
    BY <2>0 DEF IInv, SignedWithEpochKey, PairwiseSafe
  <2>3. TypeOK'
    BY <2>0, <2>1, Zenon DEF IInv, TypeOK
  <2> QED BY <2>0, <2>1, <2>2, <2>3 DEF IInv, ReadyInWaypointEpoch
<1>3. CASE initialize_without_key(first, last)
  BY <1>3, Zenon DEF initialize_without_key, CallerStops, persistent, IInv, TypeOK,
     ReadyInWaypointEpoch, SignedWithEpochKey, PairwiseSafe, Covering
<1> QED BY <1>1, <1>2, <1>3

(* The shape of a store that only its rounds have changed in.              *)
LEMMA PreferredRoundStep ==
    ASSUME IInv, NEW p \in VoteProposals, NEW k \in 0..1,
           store' = StoreAfterPreferredRound(store, p, k),
           MemoryKeptOrLost, UNCHANGED <<epoch, waypoint, votes, timeouts>>
    PROVE  IInv'
<1>1. /\ store' \in [last_voted_round : Nat, preferred_round : Nat,
                     last_vote : {{}} \cup {{v} : v \in Votes}]
      /\ store'.last_vote = store.last_vote
      /\ store'.last_voted_round = store.last_voted_round
      /\ store'.preferred_round >= store.preferred_round
  BY ProposalFacts DEF IInv, TypeOK, IsProposal, StoreAfterPreferredRound, UpdatedPreferredRound
<1>2. epoch = waypoint => Covers(store', votes, epoch)
  BY <1>1, StoreFacts, RaisedRoundsCover DEF IInv, Covering, TypeOK
<1>3. Covering'
  BY <1>1, <1>2 DEF IInv, Covering
<1>4. SignedWithEpochKey' /\ PairwiseSafe(votes')
  BY DEF IInv, SignedWithEpochKey, PairwiseSafe
<1> QED BY <1>1, <1>3, <1>4, StoreStepKeeps DEF IInv, TypeOK

LEMMA VoteNewStep ==
    ASSUME IInv, NEW p \in VoteProposals, vote_new(p)
    PROVE  IInv'
<1>0. /\ ready /\ signer # NoKey /\ p.epoch = epoch /\ epoch = waypoint
      /\ signer \in Keys /\ signer = ValidatorKey[epoch]
      /\ VerifyPreferredRound(store, p) /\ verify_last_vote_round(store, p)
      /\ UNCHANGED <<epoch, waypoint, timeouts>>
  BY DEF vote_new, MayVote, MaySign, IInv, TypeOK, ReadyInWaypointEpoch
<1> DEFINE v == VoteFor(p, signer)
<1>1. PICK k \in 0..NewVoteWrites :
        /\ store' = StoreAfterNewVote(store, p, signer, k)
        /\ \/ Replied(k, NewVoteWrites) /\ votes' = votes \cup {v}
           \/ Interrupted(k, NewVoteWrites) /\ UNCHANGED votes
  BY DEF vote_new
<1>2. /\ IsStore(store) /\ IsProposal(p) /\ Covers(store, votes, p.epoch)
      /\ \A w \in votes : IsProposal(w.data) /\ w.data.epoch <= p.epoch
  BY <1>0, StoreFacts, ProposalFacts DEF IInv, Covering
<1>3. v \in Votes /\ v.data.epoch = epoch /\ v.signer = ValidatorKey[epoch]
  BY <1>0 DEF Votes, VoteFor
<1>4. store' \in [last_voted_round : Nat, preferred_round : Nat,
                  last_vote : {{}} \cup {{w} : w \in Votes}]
  BY <1>1, <1>2, <1>3 DEF IInv, TypeOK, StoreAfterNewVote, UpdatedPreferredRound, IsProposal
<1>5. \A lv \in store'.last_vote : lv.signer = ValidatorKey[epoch]
  BY <1>0, <1>1, <1>3 DEF IInv, Covering, StoreAfterNewVote
<1>6. MemoryKeptOrLost
  BY <1>1 DEF MemoryKeptOrLost, Replied, Interrupted
<1>7. CASE Replied(k, NewVoteWrites) /\ votes' = votes \cup {v}
  <2>1. Covers(store', votes', p.epoch)
    BY <1>0, <1>1, <1>2, <1>7, NewVoteCovers, Zenon DEF Replied
  <2>2. MayFollow(votes, v)
    BY <1>0, <1>2, NewVoteFollows
  <2>3. Covering'
    BY <1>0, <1>5, <2>1 DEF Covering
  <2> QED BY <1>0, <1>3, <1>4, <1>6, <1>7, <2>2, <2>3, HandOutKeeps, StoreStepKeeps, Zenon DEF IInv, TypeOK
<1>8. CASE UNCHANGED votes
  <2>1. Covers(store', votes, p.epoch)
    BY <1>0, <1>1, <1>2, NewVoteCovers, Zenon
  <2>2. Covering'
    BY <1>0, <1>5, <1>8, <2>1 DEF Covering
  <2>3. SignedWithEpochKey' /\ PairwiseSafe(votes')
    BY <1>0, <1>8 DEF IInv, SignedWithEpochKey, PairwiseSafe
  <2> QED BY <1>0, <1>4, <1>6, <1>8, <2>2, <2>3, StoreStepKeeps DEF IInv, TypeOK
<1> QED BY <1>1, <1>7, <1>8

LEMMA VoteAgainStep ==
    ASSUME IInv, NEW p \in VoteProposals, vote_again(p)
    PROVE  IInv'
<1>0. /\ ready /\ p.epoch = epoch /\ epoch = waypoint
      /\ IsLastVotedRound(store, p)
      /\ UNCHANGED <<epoch, waypoint, timeouts>>
  BY DEF vote_again, MayVote, MaySign, IInv, TypeOK, ReadyInWaypointEpoch
<1>1. PICK k \in 0..ResentVoteWrites :
        /\ store' = StoreAfterResentVote(store, p, k)
        /\ \/ Replied(k, ResentVoteWrites) /\ votes' = votes \cup store.last_vote
           \/ Interrupted(k, ResentVoteWrites) /\ UNCHANGED votes
  BY DEF vote_again
<1>2. PICK v \in store.last_vote : v.data.round = p.round
  BY <1>0 DEF IsLastVotedRound
<1>3. /\ IsStore(store) /\ IsProposal(p) /\ Covers(store, votes, p.epoch)
      /\ \A w \in votes : IsProposal(w.data) /\ w.data.epoch <= p.epoch
      /\ store.last_vote = {v} /\ v \in Votes
  BY <1>0, StoreFacts, ProposalFacts DEF IInv, Covering
<1>4. v.data.epoch = epoch /\ v.signer = ValidatorKey[epoch]
  BY <1>0, <1>3 DEF IInv, Covering, Covers
<1>5. /\ store' \in [last_voted_round : Nat, preferred_round : Nat,
                     last_vote : {{}} \cup {{w} : w \in Votes}]
      /\ store'.last_vote = {v}
  BY <1>1, <1>3, Zenon DEF IInv, TypeOK, StoreAfterResentVote, UpdatedPreferredRound, IsProposal
<1>6. MemoryKeptOrLost
  BY <1>1 DEF MemoryKeptOrLost, Replied, Interrupted
<1>7. Covers(store', votes, p.epoch) /\ Covers(store', votes \cup {v}, p.epoch)
  BY <1>1, <1>2, <1>3, ResentVoteCovers, Zenon
<1>8. CASE votes' = votes \cup {v}
  <2>1. Covering'
    BY <1>0, <1>4, <1>5, <1>7, <1>8 DEF Covering
  <2>2. v \in votes \/ MayFollow(votes, v)
    BY <1>3, ResentVoteFollows, Zenon DEF IsProposal
  <2> QED BY <1>0, <1>3, <1>4, <1>5, <1>6, <1>8, <2>1, <2>2, HandOutKeeps, StoreStepKeeps, Zenon DEF IInv, TypeOK
<1>9. CASE UNCHANGED votes
  <2>1. Covering'
    BY <1>0, <1>4, <1>5, <1>7, <1>9 DEF Covering
  <2>2. SignedWithEpochKey' /\ PairwiseSafe(votes')
    BY <1>0, <1>9 DEF IInv, SignedWithEpochKey, PairwiseSafe
  <2> QED BY <1>0, <1>5, <1>6, <1>9, <2>1, <2>2, StoreStepKeeps DEF IInv, TypeOK
<1> QED BY <1>1, <1>3, <1>8, <1>9

LEMMA SignTimeoutStep ==
    ASSUME IInv, NEW e \in Epochs, NEW round \in TimeoutRounds, sign_timeout(e, round)
    PROVE  IInv'
<1>1. PICK k \in 0..1 :
        /\ store' = StoreAfterTimeout(store, round, k)
        /\ \/ Replied(k, 1) /\ timeouts' = timeouts \cup {[epoch |-> e, round |-> round]}
           \/ Interrupted(k, 1) /\ UNCHANGED timeouts
  BY DEF sign_timeout
<1>2. /\ store' \in [last_voted_round : Nat, preferred_round : Nat,
                     last_vote : {{}} \cup {{v} : v \in Votes}]
      /\ store'.last_vote = store.last_vote
      /\ store'.preferred_round = store.preferred_round
      /\ store'.last_voted_round >= store.last_voted_round
  BY <1>1 DEF IInv, TypeOK, StoreAfterTimeout
<1>3. UNCHANGED <<epoch, waypoint, votes>>
  BY DEF sign_timeout
<1>4. epoch = waypoint => Covers(store', votes, epoch)
  BY <1>2, StoreFacts, RaisedRoundsCover DEF IInv, Covering, TypeOK
<1>5. Covering'
  BY <1>2, <1>3, <1>4 DEF IInv, Covering
<1>6. MemoryKeptOrLost
  BY <1>1 DEF MemoryKeptOrLost, Replied, Interrupted
<1>7. timeouts' \subseteq [epoch : Epochs, round : TimeoutRounds]
  BY <1>1 DEF IInv, TypeOK
<1>8. SignedWithEpochKey' /\ PairwiseSafe(votes')
  BY <1>3 DEF IInv, SignedWithEpochKey, PairwiseSafe
<1> QED BY <1>2, <1>3, <1>5, <1>6, <1>7, <1>8, StoreStepKeeps DEF IInv, TypeOK

LEMMA RestartStep ==
    ASSUME IInv, restart
    PROVE  IInv'
<1>1. /\ ready' = FALSE /\ signer' \in Keys \cup {NoKey}
      /\ epoch_state' \in Epochs \cup {0}
      /\ UNCHANGED <<persistent, votes, timeouts>>
  BY DEF restart, MemoryLost, IInv, TypeOK
<1> QED
  BY <1>1, Zenon DEF persistent, IInv, TypeOK, ReadyInWaypointEpoch, SignedWithEpochKey,
     PairwiseSafe, Covering

LEMMA NextIInv == IInv /\ [Next]_vars => IInv'
<1> SUFFICES ASSUME IInv, [Next]_vars PROVE IInv'
  OBVIOUS
<1>1. ASSUME NEW first \in Epochs, NEW last \in Epochs,
             \/ initialize_ok(first, last)
             \/ initialize_interrupted(first, last)
             \/ initialize_without_key(first, last)
      PROVE  IInv'
  BY <1>1, InitializeStep
<1>2. ASSUME NEW p \in VoteProposals, construct_and_sign_vote(p)
      PROVE  IInv'
  <2>1. CASE vote_again(p)
    BY <2>1, VoteAgainStep
  <2>2. CASE vote_new(p)
    BY <2>2, VoteNewStep
  <2>3. CASE vote_refused(p)
    BY <2>3, PreferredRoundStep DEF vote_refused, Interrupted, MemoryKeptOrLost
  <2> QED BY <1>2, <2>1, <2>2, <2>3 DEF construct_and_sign_vote
<1>3. ASSUME NEW p \in VoteProposals, sign_proposal(p)
      PROVE  IInv'
  BY <1>3, PreferredRoundStep DEF sign_proposal, Interrupted, MemoryKeptOrLost
<1>4. ASSUME NEW e \in Epochs, NEW round \in TimeoutRounds, sign_timeout(e, round)
      PROVE  IInv'
  BY <1>4, SignTimeoutStep
<1>5. CASE restart
  BY <1>5, RestartStep
<1>6. CASE UNCHANGED vars
  BY <1>6 DEF vars, IInv, TypeOK, ReadyInWaypointEpoch, SignedWithEpochKey,
     PairwiseSafe, Covering
<1> QED BY <1>1, <1>2, <1>3, <1>4, <1>5, <1>6 DEF Next

(* The inductive invariant holds of every reachable state.                 *)
THEOREM Invariant == Spec => []IInv
BY InitIInv, NextIInv, PTL DEF Spec

(* Every state SafetyRules reaches is well typed.                          *)
THEOREM TypeCorrect == Spec => []TypeOK
<1>1. IInv => TypeOK
  BY DEF IInv
<1> QED BY <1>1, Invariant, PTL

(* construct_and_sign_vote never hands out two votes for one round of an   *)
(* epoch, whatever is interrupted, restarted or asked again in between.    *)
THEOREM NeverTwoVotes == Spec => []OneVotePerRound
<1>1. IInv => OneVotePerRound
  BY DEF IInv, OneVotePerRound, PairwiseSafe
<1> QED BY <1>1, Invariant, PTL

(* No vote is ever handed out below the lock that an earlier one set.      *)
THEOREM NeverBelowLock == Spec => []LockRespected
<1>1. IInv => LockRespected
  BY DEF IInv, LockRespected, PairwiseSafe
<1> QED BY <1>1, Invariant, PTL

(* Every vote handed out bears the key its epoch's validator set expects.  *)
THEOREM RightKey == Spec => []SignedWithEpochKey
<1>1. IInv => SignedWithEpochKey
  BY DEF IInv
<1> QED BY <1>1, Invariant, PTL

(* SafetyRules signs only in the epoch that its waypoint starts.           *)
THEOREM RightEpoch == Spec => []ReadyInWaypointEpoch
<1>1. IInv => ReadyInWaypointEpoch
  BY DEF IInv
<1> QED BY <1>1, Invariant, PTL

----------------------------------------------------------------------------

(* A vote handed out for the first time is a step of Voter.                *)
LEMMA HandOutIsCast ==
    ASSUME NEW v \in Votes, v \notin votes, MayFollow(votes, v), votes' = votes \cup {v}
    PROVE  VoterInterface!Next
<1>1. v \in votes' \ votes /\ v.data \in VoteProposals /\ v.signer \in Keys
  BY DEF Votes
<1>2. VoterInterface!cast(v)
  BY <1>1 DEF VoterInterface!cast, VoterInterface!MayFollow, MayFollow
<1> QED BY <1>1, <1>2 DEF VoterInterface!Next

(* What the two actions that hand out a vote do, when it is a new one.     *)
LEMMA HandedOut ==
    ASSUME NEW p \in VoteProposals, votes' # votes
    PROVE  /\ vote_new(p) =>
                 /\ MayVote(p) /\ ~IsLastVotedRound(store, p) /\ verify_last_vote_round(store, p)
                 /\ votes' = votes \cup {VoteFor(p, signer)}
           /\ vote_again(p) =>
                 MayVote(p) /\ IsLastVotedRound(store, p) /\ votes' = votes \cup store.last_vote
BY Zenon DEF vote_new, vote_again

LEMMA VoterStep == IInv /\ [Next]_vars => [VoterInterface!Next]_votes
<1> SUFFICES ASSUME IInv, [Next]_vars, votes' # votes PROVE VoterInterface!Next
  OBVIOUS
<1>1. PICK p \in VoteProposals : vote_again(p) \/ vote_new(p)
  BY DEF Next, vars, initialize_ok, initialize_interrupted, initialize_without_key,
     construct_and_sign_vote, vote_refused, sign_proposal, sign_timeout, restart
<1>2. /\ ready /\ p.epoch = epoch /\ epoch = waypoint
      /\ IsStore(store) /\ IsProposal(p) /\ Covers(store, votes, p.epoch)
      /\ \A w \in votes : IsProposal(w.data) /\ w.data.epoch <= p.epoch
  <2>1. MayVote(p)
    BY <1>1, HandedOut
  <2>2. ready /\ p.epoch = epoch /\ epoch = waypoint
    BY <2>1 DEF MayVote, MaySign, IInv, ReadyInWaypointEpoch
  <2> QED BY <2>2, StoreFacts, ProposalFacts DEF IInv, Covering
<1>3. CASE vote_new(p)
  <2> DEFINE v == VoteFor(p, signer)
  <2>1. votes' = votes \cup {v} /\ v \notin votes
    <3>1. votes' = votes \cup {v}
      BY <1>3, HandedOut
    <3> HIDE DEF v
    <3> QED BY <3>1
  <2>2. MayVote(p) /\ verify_last_vote_round(store, p)
    BY <1>3, HandedOut
  <2>3. v \in Votes
    BY <2>2 DEF MayVote, MaySign, IInv, TypeOK, Votes, VoteFor
  <2>4. MayFollow(votes, v)
    BY <1>2, <2>2, NewVoteFollows DEF MayVote
  <2> QED BY <2>1, <2>3, <2>4, HandOutIsCast
<1>4. CASE vote_again(p)
  <2>1. PICK v \in store.last_vote : v.data.round = p.round
    BY <1>4, HandedOut DEF IsLastVotedRound
  <2>2. store.last_vote = {v} /\ v \in Votes
    BY StoreFacts DEF IInv
  <2>3. votes' = votes \cup {v} /\ v \notin votes
    BY <1>4, <2>2, HandedOut
  <2>4. MayFollow(votes, v)
    BY <1>2, <2>2, <2>3, ResentVoteFollows, Zenon DEF IsProposal
  <2> QED BY <2>2, <2>3, <2>4, HandOutIsCast
<1> QED BY <1>1, <1>3, <1>4

(* SafetyRules implements Voter: what it shows of itself is a sequence of  *)
(* votes in growing (epoch, round) order, none below the lock.             *)
THEOREM SafetyRulesImplementsVoter == Spec => ImplementsVoter
<1>1. Init => VoterInterface!Init
  BY DEF Init, VoterInterface!Init
<1> QED
  BY <1>1, Invariant, VoterStep, PTL DEF Spec, ImplementsVoter, VoterInterface!Spec

----------------------------------------------------------------------------
(* All validators                                                          *)

(* The inductive invariant: the votes of an honest validator obey the two  *)
(* voting rules pairwise, and each is for a block whose parent is          *)
(* certified.                                                              *)
VotesObeyRules ==
    \A h \in Honest : \A b, c \in voted[h] :
        /\ Round[b] = Round[c] => b = c
        /\ Round[b] < Round[c] => Round[Parent[c]] >= Round[Parent[Parent[b]]]

VotesExtendCertified ==
    \A h \in Honest : \A b \in voted[h] : b # Genesis /\ Certified(Parent[b])

(* Every root was committed by a QC, or is still genesis.                  *)
RootsCommitted ==
    \A h \in Honest :
        \/ root[h] = Genesis
        \/ \E b \in CertifiedBlocks :
              CommitsGrandparent(ProposalOf(b)) /\ root[h] = CommittedBy(b)

ProtocolIInv == ProtocolTypeOK /\ VotesObeyRules /\ VotesExtendCertified /\ RootsCommitted

----------------------------------------------------------------------------

(* Every nonempty set of naturals has a least element.                     *)
LEMMA LeastNat ==
    ASSUME NEW T \in SUBSET Nat, T # {}
    PROVE  \E m \in T : \A n \in T : m <= n
<1>1. PICK m \in T : \A n \in T : <<n, m>> \notin OpToRel(<, Nat)
  BY NatLessThanWellFounded, WFMin, Zenon
<1>2. \A n \in T : ~(n < m)
  BY <1>1, Zenon DEF OpToRel
<1> QED BY <1>2

USE QuorumAssumption, BlocksAssumption, AncestorsAssumption

(* Every nonempty set of blocks has one of the lowest round.               *)
LEMMA LowestBlock ==
    ASSUME NEW S \in SUBSET Blocks, S # {}
    PROVE  \E c \in S : \A d \in S : Round[c] <= Round[d]
<1> DEFINE T == {Round[c] : c \in S}
<1>1. T \in SUBSET Nat /\ T # {}
  OBVIOUS
<1>2. PICK m \in T : \A n \in T : m <= n
  BY <1>1, LeastNat, Zenon
<1> QED BY <1>2

(* A block is one of its ancestors, genesis is one of every block's, and   *)
(* an ancestor's ancestors are the block's too.                            *)
LEMMA OwnAncestor == \A b \in Blocks : b \in Ancestors[b]
OBVIOUS

LEMMA AncestorsTransitive ==
    \A b \in Blocks : \A a \in Ancestors[b] : Ancestors[a] \subseteq Ancestors[b]
<1> DEFINE Bad == {b \in Blocks : \E a \in Ancestors[b] : ~(Ancestors[a] \subseteq Ancestors[b])}
<1> SUFFICES ASSUME Bad # {} PROVE FALSE
  OBVIOUS
<1>1. PICK b \in Bad : \A d \in Bad : Round[b] <= Round[d]
  BY LowestBlock, Zenon
<1>2. b # Genesis
  OBVIOUS
<1>3. Parent[b] \notin Bad
  BY <1>1, <1>2
<1> QED BY <1>2, <1>3

LEMMA GenesisAncestor == \A b \in Blocks : Genesis \in Ancestors[b]
<1> DEFINE Bad == {b \in Blocks : Genesis \notin Ancestors[b]}
<1> SUFFICES ASSUME Bad # {} PROVE FALSE
  OBVIOUS
<1>1. PICK b \in Bad : \A d \in Bad : Round[b] <= Round[d]
  BY LowestBlock, Zenon
<1>2. b # Genesis
  OBVIOUS
<1>3. Parent[b] \notin Bad
  BY <1>1, <1>2
<1> QED BY <1>2, <1>3

----------------------------------------------------------------------------

(* Two certified blocks, neither of them genesis, have a common honest     *)
(* voter.                                                                  *)
LEMMA CommonVoter ==
    ASSUME NEW b, NEW c, Certified(b), Certified(c), b # Genesis, c # Genesis
    PROVE  \E h \in Honest : b \in voted[h] /\ c \in voted[h]
BY DEF Certified

LEMMA CertifiedParent ==
    ASSUME ProtocolIInv, NEW b \in CertifiedBlocks, b # Genesis
    PROVE  Parent[b] \in CertifiedBlocks
<1>1. PICK h \in Honest : b \in voted[h]
  BY CommonVoter DEF CertifiedBlocks
<1> QED BY <1>1 DEF ProtocolIInv, VotesExtendCertified, CertifiedBlocks

(* The first voting rule and quorum intersection.                          *)
LEMMA UniqueInRound == ProtocolIInv => OneCertifiedPerRound
<1> SUFFICES ASSUME ProtocolIInv, NEW b \in CertifiedBlocks, NEW c \in CertifiedBlocks,
                    Round[b] = Round[c]
             PROVE  b = c
  BY DEF OneCertifiedPerRound
<1>1. CASE b = Genesis \/ c = Genesis
  BY <1>1 DEF CertifiedBlocks
<1>2. CASE b # Genesis /\ c # Genesis
  <2>1. PICK h \in Honest : b \in voted[h] /\ c \in voted[h]
    BY <1>2, CommonVoter DEF CertifiedBlocks
  <2> QED BY <2>1 DEF ProtocolIInv, VotesObeyRules
<1> QED BY <1>1, <1>2

(* The heart of the argument.  Suppose certified blocks of the committed   *)
(* block's round or later do not all extend it, and take one, c, of the    *)
(* lowest round.  It is not in one of the three contiguous rounds, where   *)
(* only the chain of the commit is certified.  So it is later, and a       *)
(* validator that voted for both b and c was locked on the committed       *)
(* block's round: c's parent is certified, of that round or later, and     *)
(* lower than c, hence extends the committed block, and so does c.         *)
LEMMA CommitsAreFinal == ProtocolIInv => CertifiedExtendCommitted
<1> SUFFICES ASSUME ProtocolIInv, NEW b \in CertifiedBlocks, CommitsGrandparent(ProposalOf(b))
             PROVE  \A c \in CertifiedBlocks :
                       Round[c] >= Round[CommittedBy(b)] => CommittedBy(b) \in Ancestors[c]
  BY DEF CertifiedExtendCommitted
<1> DEFINE b1 == Parent[b]
           b0 == Parent[b1]
           Bad == {c \in CertifiedBlocks : Round[c] >= Round[b0] /\ b0 \notin Ancestors[c]}
<1>1. /\ b \in Blocks /\ b1 \in Blocks /\ b0 \in Blocks
      /\ Round[b1] = Round[b0] + 1 /\ Round[b] = Round[b0] + 2
      /\ b # Genesis /\ b1 # Genesis
  BY DEF CommitsGrandparent, ProposalOf, CertifiedBlocks
<1>2. b1 \in CertifiedBlocks /\ b0 \in CertifiedBlocks
  BY <1>1, CertifiedParent
<1>3. ASSUME Bad # {} PROVE FALSE
  <2>1. PICK c \in Bad : \A d \in Bad : Round[c] <= Round[d]
    BY <1>3, LowestBlock, Zenon DEF CertifiedBlocks
  <2>2. c \in CertifiedBlocks /\ c \in Blocks /\ Round[c] \in Nat
    BY DEF CertifiedBlocks
  <2>3. b0 \in Ancestors[b0] /\ b0 \in Ancestors[b1] /\ b0 \in Ancestors[b]
    BY <1>1, OwnAncestor
  <2>4. Round[c] > Round[b]
    <3>1. Round[c] # Round[b0] /\ Round[c] # Round[b1] /\ Round[c] # Round[b]
      BY <1>2, <2>2, <2>3, UniqueInRound DEF OneCertifiedPerRound
    <3> QED BY <1>1, <2>2, <3>1
  <2>5. c # Genesis
    BY <1>1, <2>4
  <2>6. PICK h \in Honest : b \in voted[h] /\ c \in voted[h]
    BY <1>1, <2>2, <2>5, CommonVoter DEF CertifiedBlocks
  <2>7. Round[Parent[c]] >= Round[b0]
    BY <2>4, <2>6 DEF ProtocolIInv, VotesObeyRules
  <2>8. Parent[c] \in CertifiedBlocks /\ Round[Parent[c]] < Round[c]
    BY <2>2, <2>5, CertifiedParent
  <2>9. Parent[c] \notin Bad
    BY <2>1, <2>2, <2>8 DEF CertifiedBlocks
  <2> QED BY <2>2, <2>5, <2>7, <2>8, <2>9
<1> QED BY <1>3 DEF CommittedBy

(* Two committed blocks, and so any two roots, never conflict.             *)
LEMMA CommittedComparable ==
    ASSUME ProtocolIInv, NEW b \in CertifiedBlocks, CommitsGrandparent(ProposalOf(b)),
           NEW c \in CertifiedBlocks, CommitsGrandparent(ProposalOf(c)),
           Round[CommittedBy(b)] <= Round[CommittedBy(c)]
    PROVE  CommittedBy(b) \in Ancestors[CommittedBy(c)]
<1>1. c \in Blocks /\ c # Genesis /\ Parent[c] # Genesis
  BY DEF CommitsGrandparent, ProposalOf, CertifiedBlocks
<1>2. CommittedBy(c) \in CertifiedBlocks
  BY <1>1, CertifiedParent DEF CommittedBy
<1> QED BY <1>2, CommitsAreFinal DEF CertifiedExtendCommitted, CommittedBy, CertifiedBlocks

LEMMA CommittedAndRoot ==
    ASSUME ProtocolIInv, NEW b \in CertifiedBlocks, CommitsGrandparent(ProposalOf(b)),
           NEW g \in Honest
    PROVE  CommittedBy(b) \in Ancestors[root[g]] \/ root[g] \in Ancestors[CommittedBy(b)]
<1>1. CommittedBy(b) \in Blocks /\ root[g] \in Blocks
  BY DEF ProtocolIInv, ProtocolTypeOK, CommittedBy, CertifiedBlocks
<1>2. CASE root[g] = Genesis
  BY <1>1, <1>2, GenesisAncestor
<1>3. CASE root[g] # Genesis
  <2>1. PICK c \in CertifiedBlocks :
          CommitsGrandparent(ProposalOf(c)) /\ root[g] = CommittedBy(c)
    BY <1>3 DEF ProtocolIInv, RootsCommitted
  <2>2. \/ Round[CommittedBy(b)] <= Round[CommittedBy(c)]
        \/ Round[CommittedBy(c)] <= Round[CommittedBy(b)]
    BY <1>1, <2>1
  <2> QED BY <2>1, <2>2, CommittedComparable
<1> QED BY <1>2, <1>3

LEMMA RootsAgree == ProtocolIInv => Agreement
<1> SUFFICES ASSUME ProtocolIInv, NEW h \in Honest, NEW g \in Honest
             PROVE  root[h] \in Ancestors[root[g]] \/ root[g] \in Ancestors[root[h]]
  BY DEF Agreement
<1>1. CASE root[h] = Genesis
  BY <1>1, GenesisAncestor DEF ProtocolIInv, ProtocolTypeOK
<1>2. CASE root[h] # Genesis
  BY <1>2, CommittedAndRoot DEF ProtocolIInv, RootsCommitted
<1> QED BY <1>1, <1>2

----------------------------------------------------------------------------

LEMMA ProtocolInitIInv == ProtocolInit => ProtocolIInv
BY DEF ProtocolInit, ProtocolIInv, ProtocolTypeOK, VotesObeyRules, VotesExtendCertified, RootsCommitted

(* What is certified stays certified.                                      *)
LEMMA CertifiedMonotone ==
    ASSUME ProtocolTypeOK, NEW h \in Honest, NEW b, NEW c,
           voted' = [voted EXCEPT ![h] = @ \cup {b}], Certified(c)
    PROVE  Certified(c)'
BY DEF ProtocolTypeOK, Certified

LEMMA CastStep ==
    ASSUME ProtocolIInv, NEW h \in Honest, NEW b \in Blocks, cast(h, b)
    PROVE  ProtocolIInv'
<1>0. /\ b # Genesis /\ Certified(Parent[b]) /\ UNCHANGED root
      /\ voted' = [voted EXCEPT ![h] = @ \cup {b}]
  BY DEF cast
<1>1. ProtocolTypeOK'
  BY <1>0 DEF ProtocolIInv, ProtocolTypeOK
<1>2. \A c \in voted[h] : /\ Round[c] < Round[b]
                          /\ Round[Parent[Parent[c]]] <= Round[Parent[b]]
  <2> SUFFICES ASSUME NEW c \in voted[h]
               PROVE  /\ Round[c] < Round[b]
                      /\ Round[Parent[Parent[c]]] <= Round[Parent[b]]
    OBVIOUS
  <2>1. MayFollow({VoteOf(h, d) : d \in voted[h]}, VoteOf(h, b))
    BY DEF cast
  <2>2. VoteOf(h, c) \in {VoteOf(h, d) : d \in voted[h]}
    OBVIOUS
  <2>3. /\ VoteOf(h, c).data = ProposalOf(c)
        /\ VoteOf(h, b).data = ProposalOf(b)
    BY DEF VoteOf, VoteFor
  <2>4. \/ ProposalOf(c).epoch < ProposalOf(b).epoch
        \/ /\ ProposalOf(c).round < ProposalOf(b).round
           /\ ProposalOf(c).two_chain_round <= ProposalOf(b).one_chain_round
    BY <2>1, <2>2, <2>3 DEF MayFollow
  <2> QED BY <2>4 DEF ProposalOf
<1>3. VotesObeyRules'
  <2> SUFFICES ASSUME NEW g \in Honest, NEW c \in voted'[g], NEW d \in voted'[g]
               PROVE  /\ Round[c] = Round[d] => c = d
                      /\ Round[c] < Round[d]
                            => Round[Parent[d]] >= Round[Parent[Parent[c]]]
    BY DEF VotesObeyRules
  <2>1. CASE c \in voted[g] /\ d \in voted[g]
    BY <2>1 DEF ProtocolIInv, VotesObeyRules
  <2>2. CASE c \notin voted[g] \/ d \notin voted[g]
    <3>1. /\ g = h
          /\ c = b \/ c \in voted[h]
          /\ d = b \/ d \in voted[h]
          /\ c \in Blocks /\ d \in Blocks
      BY <1>0, <2>2 DEF ProtocolIInv, ProtocolTypeOK
    <3> QED BY <1>2, <2>2, <3>1
  <2> QED BY <2>1, <2>2
<1>4. VotesExtendCertified'
  BY <1>0, CertifiedMonotone, Zenon DEF ProtocolIInv, ProtocolTypeOK, VotesExtendCertified
<1>5. RootsCommitted'
  <2>1. \A c \in CertifiedBlocks : c \in CertifiedBlocks'
    BY <1>0, CertifiedMonotone, Zenon DEF ProtocolIInv, CertifiedBlocks
  <2> QED BY <1>0, <2>1 DEF ProtocolIInv, RootsCommitted
<1> QED BY <1>1, <1>3, <1>4, <1>5 DEF ProtocolIInv

LEMMA CommitStep ==
    ASSUME ProtocolIInv, NEW h \in Honest, NEW b \in Blocks, commit(h, b)
    PROVE  ProtocolIInv'
<1>0. /\ b \in CertifiedBlocks /\ CommitsGrandparent(ProposalOf(b))
      /\ root' = [root EXCEPT ![h] = CommittedBy(b)] /\ UNCHANGED voted
  BY DEF commit, CertifiedBlocks
<1>1. ProtocolTypeOK'
  BY <1>0 DEF ProtocolIInv, ProtocolTypeOK, CommittedBy
<1>2. VotesObeyRules' /\ VotesExtendCertified'
  BY <1>0 DEF ProtocolIInv, VotesObeyRules, VotesExtendCertified, Certified
<1>3. CertifiedBlocks' = CertifiedBlocks
  BY <1>0 DEF CertifiedBlocks, Certified
<1>4. RootsCommitted'
  BY <1>0, <1>3 DEF ProtocolIInv, ProtocolTypeOK, RootsCommitted
<1> QED BY <1>1, <1>2, <1>4 DEF ProtocolIInv

LEMMA ProtocolNextIInv == ProtocolIInv /\ [ProtocolNext]_protocol_vars => ProtocolIInv'
<1> SUFFICES ASSUME ProtocolIInv, [ProtocolNext]_protocol_vars PROVE ProtocolIInv'
  OBVIOUS
<1>1. CASE UNCHANGED protocol_vars
  BY <1>1 DEF protocol_vars, ProtocolIInv, ProtocolTypeOK, VotesObeyRules, VotesExtendCertified, RootsCommitted,
     CertifiedBlocks, Certified
<1> QED BY <1>1, CastStep, CommitStep DEF ProtocolNext

(* The inductive invariant holds of every reachable state.                 *)
THEOREM ProtocolInvariant == Protocol => []ProtocolIInv
BY ProtocolInitIInv, ProtocolNextIInv, PTL DEF Protocol

(* Every reachable state is well typed.                                    *)
THEOREM ProtocolTypeCorrect == Protocol => []ProtocolTypeOK
<1>1. ProtocolIInv => ProtocolTypeOK
  BY DEF ProtocolIInv
<1> QED BY <1>1, ProtocolInvariant, PTL

(* No round ever has two certified blocks.                                 *)
THEOREM NeverTwoCertified == Protocol => []OneCertifiedPerRound
BY UniqueInRound, ProtocolInvariant, PTL

(* Every block certified in or after the round of a committed block        *)
(* extends it: a commit, once a QC for it can exist, is final.             *)
THEOREM CommitsFinal == Protocol => []CertifiedExtendCommitted
BY CommitsAreFinal, ProtocolInvariant, PTL

(* Honest validators never commit conflicting blocks.                      *)
THEOREM HonestAgree == Protocol => []Agreement
BY RootsAgree, ProtocolInvariant, PTL

(* A commit extends the validator's root.                                  *)
LEMMA CommitExtends ==
    ASSUME ProtocolIInv, NEW h \in Honest, NEW b \in Blocks, commit(h, b)
    PROVE  root[h] \in Ancestors[CommittedBy(b)]
<1>1. /\ b \in CertifiedBlocks /\ CommitsGrandparent(ProposalOf(b))
      /\ Round[CommittedBy(b)] > Round[root[h]]
      /\ CommittedBy(b) \in Blocks /\ root[h] \in Blocks
  BY DEF commit, CertifiedBlocks, CommittedBy, ProtocolIInv, ProtocolTypeOK
<1>2. CASE root[h] = Genesis
  BY <1>1, <1>2, GenesisAncestor
<1>3. CASE root[h] # Genesis
  <2>1. PICK c \in CertifiedBlocks :
          CommitsGrandparent(ProposalOf(c)) /\ root[h] = CommittedBy(c)
    BY <1>3 DEF ProtocolIInv, RootsCommitted
  <2> QED BY <1>1, <2>1, CommittedComparable
<1> QED BY <1>2, <1>3

(* BlockStore::commit always finds a path from its root.                   *)
THEOREM CommitsAlwaysExtendRoot == Protocol => CommitsExtendRoot
<1>1. ProtocolIInv /\ [ProtocolNext]_protocol_vars => [\A h \in Honest : root[h] \in Ancestors[root'[h]]]_protocol_vars
  <2> SUFFICES ASSUME ProtocolIInv, ProtocolNext, NEW g \in Honest
               PROVE  root[g] \in Ancestors[root'[g]]
    OBVIOUS
  <2>1. root[g] \in Blocks
    BY DEF ProtocolIInv, ProtocolTypeOK
  <2>2. ASSUME NEW h \in Honest, NEW b \in Blocks, cast(h, b)
        PROVE  root[g] \in Ancestors[root'[g]]
    BY <2>1, <2>2, OwnAncestor DEF cast
  <2>3. ASSUME NEW h \in Honest, NEW b \in Blocks, commit(h, b)
        PROVE  root[g] \in Ancestors[root'[g]]
    BY <2>1, <2>3, OwnAncestor, CommitExtends, Zenon DEF commit, ProtocolIInv, ProtocolTypeOK
  <2> QED BY <2>2, <2>3 DEF ProtocolNext
<1> QED BY <1>1, ProtocolInvariant, PTL DEF Protocol, CommitsExtendRoot

----------------------------------------------------------------------------

(* The committed log, before and after a commit.                           *)
LEMMA CommitIsDeliver ==
    ASSUME ProtocolIInv, NEW h \in Honest, NEW b \in Blocks, commit(h, b)
    PROVE  LedgerInterface!deliver(h, CommittedBy(b))
<1> DEFINE b0 == CommittedBy(b)
<1>1. /\ root' = [root EXCEPT ![h] = b0] /\ b0 \in Blocks
      /\ root \in [Honest -> Blocks]
  BY DEF commit, CommittedBy, ProtocolIInv, ProtocolTypeOK
<1>2. root[h] \in Ancestors[b0]
  BY CommitExtends
<1>3. CommittedLog' = CommittedLog \cup Ancestors[b0]
  <2>1. Ancestors[root[h]] \subseteq Ancestors[b0]
    BY <1>1, <1>2, AncestorsTransitive
  <2>2. \A x : x \in CommittedLog <=> \E g \in Honest : x \in Ancestors[root[g]]
    BY DEF CommittedLog
  <2>3. \A x : x \in CommittedLog' <=> \E g \in Honest : x \in Ancestors[root'[g]]
    BY DEF CommittedLog
  <2>4. root'[h] = b0 /\ \A g \in Honest : g # h => root'[g] = root[g]
    BY <1>1
  <2>5. ASSUME NEW x \in CommittedLog' PROVE x \in CommittedLog \cup Ancestors[b0]
    BY <2>2, <2>3, <2>4, <2>5
  <2>6. ASSUME NEW x \in CommittedLog \cup Ancestors[b0] PROVE x \in CommittedLog'
    BY <2>1, <2>2, <2>3, <2>4, <2>6
  <2> QED BY <2>5, <2>6
<1>4. b0 \in CommittedLog \/ CommittedLog \subseteq Ancestors[b0]
  <2>1. \A g \in Honest : b0 \in Ancestors[root[g]] \/ root[g] \in Ancestors[b0]
    BY CommittedAndRoot DEF commit, CertifiedBlocks
  <2>2. CASE \E g \in Honest : g # h /\ b0 \in Ancestors[root[g]]
    BY <2>2 DEF CommittedLog
  <2>3. CASE \A g \in Honest : g # h => root[g] \in Ancestors[b0]
    <3>1. \A g \in Honest : root[g] \in Ancestors[b0]
      BY <1>2, <2>3
    <3>2. \A g \in Honest : Ancestors[root[g]] \subseteq Ancestors[b0]
      BY <1>1, <3>1, AncestorsTransitive
    <3> QED BY <3>2 DEF CommittedLog
  <2> QED BY <1>1, <2>1, <2>2, <2>3
<1> QED BY <1>1, <1>2, <1>3, <1>4 DEF LedgerInterface!deliver

LEMMA LedgerStep ==
    ProtocolIInv /\ [ProtocolNext]_protocol_vars => [LedgerInterface!Next]_<<CommittedLog, root>>
<1> SUFFICES ASSUME ProtocolIInv, [ProtocolNext]_protocol_vars
             PROVE  LedgerInterface!Next \/ UNCHANGED <<CommittedLog, root>>
  OBVIOUS
<1>1. ASSUME NEW h \in Honest, NEW b \in Blocks, commit(h, b)
      PROVE  LedgerInterface!Next
  BY <1>1, CommitIsDeliver DEF LedgerInterface!Next, CommittedBy
<1>2. CASE UNCHANGED root
  BY <1>2 DEF CommittedLog
<1>3. ASSUME NEW h \in Honest, NEW b \in Blocks, cast(h, b)
      PROVE  UNCHANGED root
  BY <1>3 DEF cast
<1> QED BY <1>1, <1>2, <1>3 DEF ProtocolNext, protocol_vars

(* The protocol implements the append-only ledger.                         *)
THEOREM LibraBFTImplementsLedger == Protocol => ImplementsLedger
<1>1. Honest # {}
  BY QuorumAssumption
<1>2. ProtocolInit => LedgerInterface!Init
  BY <1>1 DEF ProtocolInit, LedgerInterface!Init, CommittedLog
<1> QED
  BY <1>2, ProtocolInvariant, LedgerStep, PTL DEF Protocol, ImplementsLedger, LedgerInterface!Spec

=============================================================================
