---------------------------- MODULE SafetyRules ----------------------------
(***************************************************************************)
(* One validator's SafetyRules: the component that holds the consensus key *)
(* and signs votes, proposals and timeouts, with the state it keeps in     *)
(* secure storage and the state it keeps in memory.                        *)
(*                                                                         *)
(* Each handler runs alone (behind a lock, a thread's queue or a serial    *)
(* process), so a handler is one action.  It may stop after any number of  *)
(* its writes: on a storage error, which its caller sees as Err, or in a   *)
(* crash, which also loses the memory.  Its reply may be lost, and the     *)
(* remote client then sends the request again.                             *)
(***************************************************************************)
EXTENDS VotingRules

CONSTANTS
    Epochs,         \* epochs that some epoch change reaches
    VoteProposals,  \* the proposals the validator may be asked to vote on
    TimeoutRounds,  \* the rounds it may be asked to sign a timeout for
    Keys,           \* consensus keys
    StoredKeys,     \* the keys that secure storage holds
    NoKey,          \* no signer
    ValidatorKey    \* epoch -> this validator's key in that validator set,
                    \*          or NoKey when it is not a member

ASSUME EpochsAssumption == Epochs \subseteq Nat \ {0} /\ 1 \in Epochs

ASSUME ProposalsAssumption ==
    /\ VoteProposals \subseteq [epoch : Epochs, round : Nat, id : Nat,
                                one_chain_round : Nat, two_chain_round : Nat]
    /\ \A p \in VoteProposals : WellFormed(p)

ASSUME TimeoutRoundsAssumption == TimeoutRounds \subseteq Nat

ASSUME KeysAssumption ==
    /\ NoKey \notin Keys
    /\ StoredKeys \subseteq Keys
    /\ ValidatorKey \in [Epochs -> Keys \cup {NoKey}]

VARIABLES
    epoch,        \* persisted: the epoch the rounds below belong to
    waypoint,     \* persisted: the epoch that the waypoint's LedgerInfo starts
    store,        \* persisted: last_voted_round, preferred_round, last_vote
    signer,       \* in memory: the key of validator_signer, or NoKey
    epoch_state,  \* in memory: the epoch of epoch_state, 0 for None
    ready,        \* initialize has succeeded since the caller (re)started
    votes,        \* history: the votes returned to the caller
    timeouts      \* history: the timeouts whose signature was returned

persistent == <<epoch, waypoint, store>>
memory == <<signer, epoch_state, ready>>
vars == <<epoch, waypoint, store, signer, epoch_state, ready, votes, timeouts>>

Votes == [data : VoteProposals, signer : Keys]

TypeOK ==
    /\ epoch \in Epochs
    /\ waypoint \in Epochs
    /\ store \in [last_voted_round : Nat, preferred_round : Nat,
                  last_vote : {{}} \cup {{v} : v \in Votes}]
    /\ signer \in Keys \cup {NoKey}
    /\ epoch_state \in Epochs \cup {0}
    /\ ready \in BOOLEAN
    /\ votes \subseteq Votes
    /\ timeouts \subseteq [epoch : Epochs, round : TimeoutRounds]

(* PersistentSafetyStorage::initialize: epoch 1 and a waypoint taken from  *)
(* the node's configuration, which may be that of a later epoch.           *)
Init ==
    /\ epoch = 1
    /\ waypoint \in Epochs
    /\ store = EmptyStore
    /\ signer = NoKey
    /\ epoch_state = 0
    /\ ready = FALSE
    /\ votes = {}
    /\ timeouts = {}

(* The process that runs SafetyRules is gone, and its memory with it.      *)
MemoryLost == signer' = NoKey /\ epoch_state' = 0 /\ ready' = FALSE

(* A handler that has n writes to make stopped after k of them.  Its reply *)
(* reaches the caller only if it made them all; otherwise it failed on     *)
(* storage, its reply was lost, or it crashed.                             *)
Replied(k, n) == k = n /\ UNCHANGED memory
Interrupted(k, n) == k \in 0..n /\ (UNCHANGED memory \/ MemoryLost)

----------------------------------------------------------------------------

(* Faulty variant: a proof that ends before the waypoint is not stale.     *)
VerifyEpochChangeProof_NoStaleCheck(first, last) == first <= waypoint

(* EpochChangeProof::verify against the waypoint.  The epoch-ending        *)
(* LedgerInfos form one chain, named by the epoch each starts; a proof is  *)
(* a segment of it that must hold the waypoint's LedgerInfo: its older     *)
(* part is skipped, and it is stale when it ends before the waypoint.      *)
VerifyEpochChangeProof(first, last) == first <= waypoint /\ waypoint <= last

(* Faulty variant: the waypoint is written after everything else.          *)
InitializeWrites_WaypointLast(last, k) ==
    /\ store' = [last_voted_round |-> IF k >= 1 THEN 0 ELSE store.last_voted_round,
                 preferred_round  |-> IF k >= 2 THEN 0 ELSE store.preferred_round,
                 last_vote        |-> IF k >= 3 THEN {} ELSE store.last_vote]
    /\ epoch' = IF k >= 4 THEN last ELSE epoch
    /\ waypoint' = IF k >= 5 THEN last ELSE waypoint

(* Faulty variant: the epoch after the one that the LedgerInfo starts.     *)
InitializeWrites_EpochOffByOne(last, k) ==
    /\ waypoint' = IF k >= 1 THEN last ELSE waypoint
    /\ store' = IF k >= 4 THEN EmptyStore ELSE store
    /\ epoch' = IF k >= 5 THEN last + 1 ELSE epoch

(* The five writes of initialize, in the order of the code.                *)
InitializeWrites(last, k) ==
    /\ waypoint' = IF k >= 1 THEN last ELSE waypoint
    /\ store' = [last_voted_round |-> IF k >= 2 THEN 0 ELSE store.last_voted_round,
                 preferred_round  |-> IF k >= 3 THEN 0 ELSE store.preferred_round,
                 last_vote        |-> IF k >= 4 THEN {} ELSE store.last_vote]
    /\ epoch' = IF k >= 5 THEN last ELSE epoch

(* The signer after initialize: the key that the new validator set expects *)
(* of this validator, which must be in storage, or none.                   *)
KeyFound(last) == ValidatorKey[last] \in StoredKeys \cup {NoKey}

(* Faulty variant: a signer already in memory is kept.                     *)
ReconciledSigner_Kept(last) ==
    IF signer = NoKey THEN ValidatorKey[last] ELSE signer

ReconciledSigner(last) == ValidatorKey[last]

(* Faulty variant: the caller carries on after a failed initialize.        *)
CallerStops_CarriesOn == UNCHANGED ready

(* The caller panics when initialize fails, so nothing is asked of         *)
(* SafetyRules until a later initialize succeeds.                          *)
CallerStops == ready' = FALSE

initialize_ok(first, last) ==
    /\ VerifyEpochChangeProof(first, last)
    /\ KeyFound(last)
    /\ IF epoch < last THEN InitializeWrites(last, 5) ELSE UNCHANGED persistent
    /\ signer' = ReconciledSigner(last)
    /\ epoch_state' = last
    /\ ready' = TRUE
    /\ UNCHANGED <<votes, timeouts>>

(* Storage fails, or the process crashes, before initialize is done.       *)
initialize_interrupted(first, last) ==
    /\ VerifyEpochChangeProof(first, last)
    /\ KeyFound(last)
    /\ \/ /\ epoch < last
          /\ \E k \in 0..5 : InitializeWrites(last, k)
       \/ epoch >= last /\ UNCHANGED persistent
    /\ \/ MemoryLost
       \/ signer' = ReconciledSigner(last) /\ CallerStops /\ UNCHANGED epoch_state
    /\ UNCHANGED <<votes, timeouts>>

(* The expected key is not the one in memory, and reading it from storage  *)
(* fails: it is missing, or storage is unavailable.                        *)
initialize_without_key(first, last) ==
    /\ VerifyEpochChangeProof(first, last)
    /\ ValidatorKey[last] \notin {NoKey, signer}
    /\ signer' = NoKey
    /\ CallerStops
    /\ UNCHANGED <<persistent, epoch_state, votes, timeouts>>

(* The validator's consensus process restarts, alone or with SafetyRules.  *)
restart ==
    /\ MemoryLost \/ (ready' = FALSE /\ UNCHANGED <<signer, epoch_state>>)
    /\ UNCHANGED <<persistent, votes, timeouts>>

----------------------------------------------------------------------------

(* The checks that open every signing handler: a signer, the right epoch   *)
(* (verify_epoch) and, where there is a QC, signatures of epoch_state's    *)
(* validators on it (verify_qc).                                           *)
MaySign(e) == ready /\ signer # NoKey /\ e = epoch
verify_qc(p) == epoch_state = p.epoch

MayVote(p) == MaySign(p.epoch) /\ verify_qc(p) /\ VerifyPreferredRound(store, p)

vote_again(p) ==
    /\ MayVote(p)
    /\ IsLastVotedRound(store, p)
    /\ \E k \in 0..ResentVoteWrites :
          /\ store' = StoreAfterResentVote(store, p, k)
          /\ \/ /\ Replied(k, ResentVoteWrites)
                /\ votes' = votes \cup store.last_vote
             \/ Interrupted(k, ResentVoteWrites) /\ UNCHANGED votes
    /\ UNCHANGED <<epoch, waypoint, timeouts>>

vote_new(p) ==
    /\ MayVote(p)
    /\ ~IsLastVotedRound(store, p)
    /\ verify_last_vote_round(store, p)
    /\ \E k \in 0..NewVoteWrites :
          /\ store' = StoreAfterNewVote(store, p, signer, k)
          /\ \/ /\ Replied(k, NewVoteWrites)
                /\ votes' = votes \cup {VoteFor(p, signer)}
             \/ Interrupted(k, NewVoteWrites) /\ UNCHANGED votes
    /\ UNCHANGED <<epoch, waypoint, timeouts>>

(* Refused by the first voting rule, after preferred_round was written:    *)
(* whatever the reply, the caller gets no vote.                            *)
vote_refused(p) ==
    /\ MayVote(p)
    /\ ~IsLastVotedRound(store, p)
    /\ ~verify_last_vote_round(store, p)
    /\ \E k \in 0..1 : /\ store' = StoreAfterPreferredRound(store, p, k)
                       /\ Interrupted(k, 1)
    /\ UNCHANGED <<epoch, waypoint, votes, timeouts>>

construct_and_sign_vote(p) == vote_again(p) \/ vote_new(p) \/ vote_refused(p)

(* The signed block is not needed below, so a proposal that is signed and  *)
(* one whose signing was interrupted look alike.                           *)
sign_proposal(p) ==
    /\ MaySign(p.epoch)
    /\ verify_last_vote_round(store, p)
    /\ verify_qc(p)
    /\ VerifyPreferredRound(store, p)
    /\ \E k \in 0..1 : /\ store' = StoreAfterPreferredRound(store, p, k)
                       /\ Interrupted(k, 1)
    /\ UNCHANGED <<epoch, waypoint, votes, timeouts>>

sign_timeout(e, round) ==
    /\ MaySign(e)
    /\ TimeoutAllowed(store, round)
    /\ \E k \in 0..1 :
          /\ store' = StoreAfterTimeout(store, round, k)
          /\ \/ /\ Replied(k, 1)
                /\ timeouts' = timeouts \cup {[epoch |-> e, round |-> round]}
             \/ Interrupted(k, 1) /\ UNCHANGED timeouts
    /\ UNCHANGED <<epoch, waypoint, votes>>

Next ==
    \/ \E first, last \in Epochs : \/ initialize_ok(first, last)
                                   \/ initialize_interrupted(first, last)
                                   \/ initialize_without_key(first, last)
    \/ \E p \in VoteProposals : construct_and_sign_vote(p) \/ sign_proposal(p)
    \/ \E e \in Epochs, round \in TimeoutRounds : sign_timeout(e, round)
    \/ restart

Spec == Init /\ [][Next]_vars

(* What SafetyRules promises to the protocol.                              *)
VoterInterface == INSTANCE Voter

----------------------------------------------------------------------------

(* Whatever crashes, storage errors, lost replies and epoch changes happen *)
(* between two requests, construct_and_sign_vote never hands out two       *)
(* different votes for one round of one epoch.                             *)
OneVotePerRound ==
    \A v, w \in votes :
        v.data.epoch = w.data.epoch /\ v.data.round = w.data.round => v = w

(* The lock of the second voting rule survives restarts and partial        *)
(* writes: a vote in a later round is for a block whose parent is at least *)
(* as high as the grandparent of every block voted for earlier.            *)
LockRespected ==
    \A v, w \in votes :
        v.data.epoch = w.data.epoch /\ v.data.round < w.data.round
            => w.data.one_chain_round >= v.data.two_chain_round

(* Every vote handed out bears the key that the validator set of its epoch *)
(* expects, although initialize changes the key, the validator set and the *)
(* persisted epoch in separate steps.                                      *)
SignedWithEpochKey ==
    \A v \in votes : v.signer = ValidatorKey[v.data.epoch]

(* A SafetyRules that may sign verifies QCs with the validator set of the  *)
(* epoch it has persisted, and that epoch is the one its waypoint starts:  *)
(* what the order of the writes in initialize is for.                      *)
ReadyInWaypointEpoch ==
    ready => epoch_state = epoch /\ epoch = waypoint

(* SafetyRules implements a Voter: seen from outside, across all crashes   *)
(* and epoch changes, it casts votes in growing (epoch, round) order and   *)
(* never below its lock, and does nothing else.                            *)
ImplementsVoter == VoterInterface!Spec

(* Once a timeout is signed for a round no timeout is signed for an older  *)
(* round of that epoch, as the test of sign_timeout has it.                *)
TimeoutsNeverGoBack ==
    [][\A t \in timeouts' \ timeouts : \A u \in timeouts :
          t.epoch = u.epoch => t.round > u.round]_vars

=============================================================================
