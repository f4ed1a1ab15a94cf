# A Libra validator in TLA+

A verification project for this repository: TLA+ modules for the parts of a
Libra validator whose correctness depends on interleavings, failures and
messages, TLC configurations that check them on small instances, and TLAPS
proofs of their main properties for every value of the constants.

The core is consensus safety, from the bytes a validator keeps in secure storage
to the agreement of all validators. Around it are the liveness of rounds, the block
store and its recovery, state synchronization, and the mempool:

```
 ValidatorVerifier ---- quorum arithmetic ----+----------------+
                                              v                v
 VotingRules ----> SafetyRules            PendingVotes      LibraBFT ----> Ledger
      |                 | implements      (votes of one        ^ implements
      |                 v                  round -> QC, TC)    |
      +-------------> Voter  ---- MayFollow, for each honest --+
                                   validator

 RoundManager  rounds of all validators: timers, votes, sync infos, crashes
 BlockStore    one validator's block tree, consensus DB and ledger, crashes
 StateSync     a node and the upstream peers that it catches up with
 Mempool       one node's transactions and their indexes
```

## The system

A validator runs these parts (directories under `src/`).

| Part | Where | Role |
|---|---|---|
| SafetyRules | `consensus/safety-rules` | holds the consensus key; signs votes, proposals, timeouts by two voting rules kept in secure storage |
| RoundManager, RoundState, PendingVotes, ProposalGenerator | `consensus/src`, `consensus/src/liveness` | events of a round: proposals, votes, timeouts, certificates |
| BlockStore, BlockTree, SyncManager | `consensus/src/block_storage` | blocks and certificates, commit, pruning, catching up |
| ConsensusDB, recovery | `consensus/src/persistent_liveness_storage.rs`, `consensusdb` | what consensus recovers from after a crash |
| EpochManager | `consensus/src/epoch_manager.rs` | starts a round manager for each epoch |
| Types of certificates, validator sets, epoch changes | `consensus/consensus-types`, `types` | QCs, TCs, SyncInfo, ValidatorVerifier, EpochChangeProof, Waypoint |
| Executor | `execution` | speculative execution, commit to storage |
| State synchronizer | `state-synchronizer` | catches up with committed state by chunks |
| Mempool | `mempool` | transactions waiting, indexes, broadcast to peers |
| Network, channels | `network`, `common/channel` | connections, bounded queues |
| Storage | `storage` | LibraDB, Merkle structures, pruner, backup |
| Key manager, secure storage | `secure` | key rotation, back ends |
| VM, Move, JSON-RPC, configuration, tools, tests | `language`, `vm-validator`, `json-rpc`, `client`, `config`, `devtools`, `testsuite`, ... | not protocols |

`PROJECT.json` lists each with its status and the hazards of the code at their
lines. RoundManager calls SafetyRules for every vote, proposal and timeout
signature, gives received votes to PendingVotes (through RoundState), and gives
the certificates that come out to BlockStore, which commits through the executor
and falls back on the state synchronizer. EpochManager initializes SafetyRules
with an epoch change proof whenever an epoch starts.

## Modules

**VotingRules** has the two voting rules and the writes of each handler as
operators on a store `[last_voted_round, preferred_round, last_vote]`. A proposal is what the
rules see of a block: epoch, round, id, the round of its parent
(`one_chain_round`) and of its grandparent (`two_chain_round`). Each setter of
`PersistentSafetyStorage` is durable when it returns, so the operators that write
take `k`, the number of writes done.

**SafetyRules** is one validator's `SafetyRules`, with an action for each way a
handler can go:

| Code | Actions |
|---|---|
| `initialize` | `initialize_ok`, `initialize_interrupted` (crash or storage error after any write), `initialize_without_key` |
| `construct_and_sign_vote` | `vote_again` (last vote given again), `vote_new`, `vote_refused` (first rule, after `preferred_round` was written) |
| `sign_proposal`, `sign_timeout` | the same names |
| process restarts | `restart` |

`epoch`, `waypoint` and `store` are persistent, `signer` and `epoch_state` are
memory, `ready` is the caller's knowledge that `initialize` succeeded, `votes` and
`timeouts` record what callers got. `Interrupted` is a storage error, a lost reply
(the remote client then resends: the same request is enabled again) or a crash.
Errors returned before any write change nothing and are no actions. An epoch
change proof is a segment of the one chain of epoch-ending LedgerInfos.
`consensus_state` only reads.

**Voter** is the abstract promise of an honest validator: the next vote is in a
later epoch, or in a later round and not below any earlier vote's lock
(`MayFollow`).

**LibraBFT** is one epoch of all validators. `cast` is a vote of an honest
validator as Voter allows it; Byzantine validators sign anything, so `Certified`
asks only the honest members of a quorum; `commit` is `BlockStore::commit` of the
block that a QC's LedgerInfo names. Messages need no variable: anything signed may
reach anybody at any time, in any order, repeatedly or never.

**Ledger** is the abstract promise of the protocol: one chain that is only
extended, of which each honest validator delivers a growing prefix.

**ValidatorVerifier** has the quorum arithmetic; **MCValidatorVerifier** walks
through validator sets by reconfigurations.

**PendingVotes** is the aggregation of one round's votes by `insert_vote`, with an
action for each result. Votes come from any author in any order and number;
honest authors stick to one LedgerInfo, with or without a timeout signature.
RoundManager drops some votes before (not the next proposer, block already
certified), so what it hands over is one of the sequences checked.

**RoundManager** is the round managers and round states of the validators of an
epoch. `node` is a validator's `RoundState` (current round, timer, pending votes, vote
sent), its highest certificates, and what survives a crash: SafetyRules'
`last_voted_round` and `last_vote`, and the vote in the consensus DB. `channel` is the
inbound queue, which keeps the newest message of each sender and kind.

| Code | Actions |
|---|---|
| `process_proposal_msg` | `proposal_vote`, `proposal_no_vote`, `proposal_crash` (inside `execute_and_vote`) |
| `process_vote_msg`, `process_sync_info_msg` | the same names; `SyncUp`, `insert_vote`, `Certified`, `process_certificates` inside |
| `process_local_timeout` | `timeout_vote`, `timeout_refused`, `timeout_crash` |
| `RoundManager::start` after a crash | `crash`, and the last part of the other crashes |
| network | `lose` |

A handler is one action, as a validator handles one event at a time; the
proposal of a round that begins is sent by the action that begins it.

**BlockStore** is the tree in memory, the consensus DB and the ledger of one
validator. Each write to the DB or the ledger, with the change in memory that
follows it, is an action, and `crash` can come between any two.

| Code | Actions |
|---|---|
| `RoundManager::process_proposal`, `new_qc_aggregated`, `sync_up` | the same names; they begin a handler |
| `BlockStore::insert_quorum_cert`, `fetch_quorum_cert` | `insert_quorum_cert`; `fetch_quorum_cert` and `insert_fetched`, in turns |
| `commit`, `prune_tree` | `commit` (the ledger), `prune_tree` (the DB, then the tree) |
| `fast_forward_sync`, `rebuild` | `sync_up` or `recover` (the 3-chain is saved), `sync_to`, `start`, `rebuild`, then `commit` again |
| `StorageWriteProxy::start`, `BlockStore::new`, RecoveryManager | `restart`, `new`; `recover` when no root is found |
| a failed fetch, write or state sync | `fail`, or the parameter `fails` where the code goes on |

`pc` is the write that comes next, `certs` the certificates that the handler has yet to
insert. The blocks, their certificates and their commits are given, and satisfy what
LibraBFT shows of them (`AgreementAssumption`). The walk of `find_blocks_to_prune` meets
children in any order (`Walks`).

**StateSync** is the coordinator of a node that catches up, and its upstream peers.
A version stands for its transaction and its LedgerInfo. `node` has the storage (`li`,
`synced`) and the coordinator (pending LedgerInfos, sync request); `requests`,
`responses` and `subscriptions` are what is under way to and from each peer, and the long polls
they hold. Actions are the handlers of the event loop of `SyncCoordinator::start`,
the peers' `process_chunk_request` and `check_subscriptions`, and failures: `lose`,
`lost_peer`, `restart`.

**Mempool** is `Mempool` and `TransactionStore` under the lock that they share. `store` is one
record with the transactions and the five indexes; the methods are operators on
it, and `add_txn` has an action for each status. Sequence numbers given by callers were
read earlier, so they are arbitrary. `get_block` reads only: it is an operator that
`BlockInOrder` evaluates in every state, for every order of the queue and every
set of transactions sent before.

Definitions whose comment starts with "Faulty variant" are wrong on purpose. They
replace the definition after them when one checks that a property can fail.

## Runs

| Run | Configuration | Shows |
|---|---|---|
| `safety_rules` | `SafetyRules.cfg` | both voting rules and the key of the epoch survive crashes between any two writes, storage errors, resent requests, restarts and epoch changes; SafetyRules implements Voter |
| `timeouts_go_back` | `SafetyRulesTimeouts.cfg` | a counterexample, see Findings |
| `libra_bft` | `LibraBFT.cfg` | no two certified blocks of a round; committed blocks are final; honest validators agree; each commit extends the previous one; LibraBFT implements Ledger |
| `validator_verifier` | `ValidatorVerifier.cfg` | two quorums share an honest validator, and the honest validators are a quorum, for all small power distributions |
| `pending_votes` | `PendingVotes.cfg` | certificates are sound, one LedgerInfo per round gets a QC, no order of arrival loses a certificate, honest timeouts suffice |
| `round_manager` | `RoundManager.cfg` | rounds follow certificates across restarts, no round gets two votes of a validator, every round ends as long as a quorum can vote |
| `timeout_without_vote` | `RoundManagerTimeout.cfg` | a counterexample, see Findings |
| `block_store` | `BlockStore.cfg` | with a crash after any write, the DB gives the tree back, the ledger only extends, memory is bounded |
| `state_sync` | `StateSync.cfg` | requests name the right epoch, the assertion of `process_commit` holds, a completed sync request has committed its target, a node catches up |
| `state_sync_waypoint` | `StateSyncWaypoint.cfg` | a counterexample, see Findings |
| `mempool` | `Mempool.cfg` | indexes agree, capacities hold, `get_block` is complete and in order |
| `mempool_timeline` | `MempoolTimeline.cfg` | a counterexample, see Findings |

Run one with `tlc -workers 2 -config SafetyRules.cfg MCSafetyRules`.

Bounds, and why they are enough for the cases to happen:

- SafetyRules: epochs 1 to 3, the key changing in epoch 2 and the validator leaving
  in epoch 3. `MaxRound = 4` in epoch 1: a vote in round 3 on a chain 1-2-3 locks
  round 1, and only a proposal in round 4 can violate it. `MaxTimeout` is 1, or 2 in
  `timeouts_go_back`, which needs an older round to go back to.
- LibraBFT: four validators, one Byzantine, three honest ones that are symmetric,
  and every tree of blocks over four rounds with one block for each ancestry. A
  commit takes three contiguous rounds, and the fourth leaves room for a competing
  branch. Two blocks with the same ancestry differ in nothing the rules see, except
  that both could be certified, for which the blocks of different ancestry in a
  round stand.
- ValidatorVerifier: four addresses, powers 0 to 4, so all remainders of the
  total modulo 3 and all kinds of imbalance.
- PendingVotes: powers 2, 1, 1, 1 with the last Byzantine, two LedgerInfos. A third
  LedgerInfo would only take votes away from quorums.

- RoundManager: validators a and b are a quorum, and so are a and c, but c is silent, so
  that a round without a leader happens and each round needs both. They start from
  genesis, or from a round that a left by a TC and b by a QC, which is when sync infos
  are sent. Rounds 1 to 3, one crash of b and one lost message besides the overwritten
  ones: the crash can hit every point of a vote in every round.
- BlockStore: a chain of five blocks that commits three of them, a certified fork
  after a timeout and a fork without a certificate; two pruned blocks kept, so that
  the third is removed; two crashes, so that one can hit a recovery from the first.
- StateSync: versions up to 10 in four epochs of one to four versions, chunks of 2, so
  that chunks end before, at and across LedgerInfos and epochs; two peers of different
  preference; one failure of any kind. In `StateSyncWaypoint.cfg` the first
  epoch has three versions, one more than a chunk, and nothing fails.
- Mempool: two accounts, six different submissions with two gas prices, capacity for four
  and for three of an account, so that evictions, refusals, gaps and updates happen;
  any set of transactions expires at once.

`libra_bft` does not check deadlock: with finitely many blocks it stops when all are
used. The others cannot stop.

### Fairness

Two runs check liveness, under weak fairness only.

- `round_manager`: a timer that is set expires (`RoundState` schedules it with the
  time service, and `process_local_timeout` sets the next one), and a message in the
  inbound queue is handled unless it is replaced: `EpochManager::start` takes events
  from its queues in a loop. Nothing is assumed of the network except that
  it loses finitely many messages, of crashes except that there are finitely many,
  or of leaders.
- `state_sync`: the event loop of `SyncCoordinator::start` handles a message that has
  come in and ticks (`check_progress`), on the node and its peers, and the network
  reports peers that are connected. Peers need not commit anything more, and no
  failure is assumed to be repaired except by these.

`Progress` gives way only when too many validators have lost their vote (see
Findings). `CatchesUp` and `SyncRequestsProgress` are about a peer that stays the preferred one,
since a node asks no other.

## Findings

`timeouts_go_back`: `tests/suite.rs:328` of safety-rules says of a signed timeout
"Verify cannot sign round older rounds now". When `construct_and_sign_vote` gives
the last vote again it sets `last_voted_round` to that vote's round
(`safety_rules.rs:297`), also if a timeout has raised it since. Vote in round 1,
timeout of round 2, the vote of round 1 again: now a timeout of round 1 is signed.
The votes are not affected, as `OneVotePerRound` and `LockRespected` are proved for
the same model. The run is about SafetyRules as a component. RoundManager asks for
votes of its current round only, and is not shown to make these calls.

`timeout_without_vote`: `round_manager.rs:391-394` gives two ways to time out of a
round: repeat the vote of the round, or vote for a NIL block.
`construct_and_sign_vote` writes `last_voted_round` (`safety_rules.rs:306`) before
`last_vote` (line 315). After a crash between the two, SafetyRules has no vote to give
again and refuses any other in that round, so the validator sends no timeout until
others end the round. Safety needs this order of writes; `Progress` holds as
long as a quorum is not affected.

`mempool_timeline`: the comment of `process_ready_transactions`
(`transaction_store.rs:219-221`) says that sequential transactions are in both the
priority index and the timeline. Garbage collection (`gc`, lines 377-381) takes the
followers of an expired transaction out of both but leaves them `Ready`, and only
`NotReady` ones are added to the timeline: once the gap is filled they are offered
to consensus but not broadcast.

`state_sync_waypoint`: `wait_until_initialized` (`synchronizer.rs:119-120`) is
"fulfilled when the state synchronizer is caught up with the waypoint". For a node
below its waypoint, `process_request_waypoint` (`coordinator.rs:629-638`) sends the LedgerInfo that ends
the epoch with every chunk of the epoch; `find_chunk_li` (`execution/executor/src/lib.rs:126`) refuses it unless
the chunk ends there. If an epoch below the waypoint is longer than a chunk, the node
asks for the same chunk for ever. The run `state_sync` has epochs of at most one chunk below
its waypoint, and of two above it.

## Proofs

All are checked by TLAPS; run `tlapm LibraBFTProofs.tla` and so on.

**LibraBFTProofs** has the safety of consensus in two steps. For one validator, it
proves `Spec => []IInv` of SafetyRules, and from it every property of the
run. `OneVotePerRound` is not inductive: the next vote depends on the store. `IInv`
says that, while the persisted epoch is the one the waypoint starts, the store
covers the votes of that epoch: each vote handed out is the persisted `last_vote`, or
is in an earlier round and sets a lock that `last_vote` respects; `preferred_round` is at least
every vote's lock, and `last_voted_round` at least the round of `last_vote` (no more is true, as a
resend lowers it). It also says that no vote is of a later epoch, and that when `ready`, memory, epoch
and waypoint are in step. While `initialize` resets the store, step by step, the
covering is lost, but the waypoint already names the later epoch and nothing can be
signed: this is what the order of its writes is for. With the waypoint written
last (`InitializeWrites_WaypointLast`) a round gets a second vote. `SafetyRulesImplementsVoter` is the refinement: each step
casts one vote that may follow, or stutters. Assumptions: epochs, rounds and keys are of
the right type, proposals are well formed. The lemmas on VotingRules' operators come
first: a new vote follows all votes that the store `Covers`, the writes of a handler,
however many are done, keep the store covering them, and a set of votes built by
`MayFollow` is `PairwiseSafe`.

For all validators together (`Protocol`, the specification of LibraBFT), it proves for
any validators, quorums, rounds and blocks that each honest validator's votes are pairwise safe and only on certified parents, and from
it the argument of the protocol. Two certified blocks of a round share an honest
voter, so they are equal. Suppose a QC commits `b0`, and `c` is the certified block of
least round, not below `b0`'s, that does not extend `b0`. The quorums of `c` and of the
three-chain's last block share an honest validator, whose lock makes `c`'s parent at least
as high as `b0`; the parent extends `b0` by minimality, and so does `c`. Least
counterexamples come from the well-foundedness of the naturals, without induction
over an operator. Agreement, the action property and the refinement of Ledger follow.
Assumptions: any two quorums share an honest validator, rounds grow along the
chain, `Ancestors` is the ancestry.

**PendingVotesProofs** first proves that assumption about quorums, and both invariants
of the run `validator_verifier`, for any finite set of validators and any voting powers of which the faulty ones have
less than a third (`PowerQuorumsIntersect`, `PowerQuorumExists`, `PowerQuorumsGrow`). The
aggregated power is a fold over a set; that it is additive and monotone is proved by
a least counterexample in the size of the set, from the one-step equation of the fold.
The rest is the arithmetic of `total * 2 / 3 + 1` (`Threshold`). `EqualPowerQuorums` is the
case of power 1 for each, counted by cardinality.

Then it proves every property of the run `pending_votes`. `IInv` says that the
signatures kept are those of the votes kept, that a kept timeout is in the partial
TC unless a QC was returned, that an honest timeout is never forgotten, and that a
certificate was returned as soon as its signatures were a quorum. Of the powers it assumes
only that the faulty validators have less than a third (`PowerAssumption`); what it needs of
quorums is `QuorumFacts`.

**RoundManagerProofs** proves `RoundsAreCertified` and `OneBlockPerRound` for any
validators, leaders, certificates to start with, and any number of rounds, crashes
and losses. `IInv` says that a validator is in the round after its highest
certificate, which neither action property says of the state before a step, and that
the messages waiting carry certificates and votes of the right type. Every handler is first shown to sync
up without touching the last vote (`Synced`), then to vote by `SignedVote` only, which gives
back the vote kept for a round. Assumptions: those of the module on the constants.

**MempoolProofs** proves the three invariants of its run for any accounts,
capacities and sequence of calls. For the indexes, two strengthenings are needed: the timeline has only
`Ready` transactions, or promotion, which changes the TimelineState, would leave entries
behind; and the transactions are finite. That new timeline ids are distinct is a lemma on the
ranks of a finite set (`NewIds`). Promotion is a map of transactions that keeps
account, number and gas price, so it cannot add any. The capacity is checked on the
TTL index, which has the size of the store because the indexes agree (`SizeOfIndex`).
`BlockInOrder` is about the loop of `get_block`, whose invariant (`WalkInv`) says that what was
walked is in the result or skipped, and that a skipped transaction has been taken exactly
when its predecessor has (`Rechecked`). So the transactions taken in one turn were not taken
before (`SegmentUnseen`), and at the end nothing that could be executed is left among the
skipped (`WalkComplete`). The loop is a recursive function; that it exists and keeps its
invariant is shown by least counterexamples (`IteratesExist`, `WalkKeeps`).

**StateSyncProofs** proves `RequestsNameTheirEpoch`, `NeverBeyondTarget` and
`CompleteMeansCommitted` for any history of LedgerInfos and epochs, any waypoint,
chunk size and peers, and any number of failures. `IInv` says of the node
that the synced version, which may be past the last LI, is in the trusted epoch, and
that there is no sync request below the waypoint; of requests, that they name their
epoch; of chunks, that they do not go past their LI, and that one on the way to the waypoint
ends its epoch exactly when the LI that comes along is at its end. Epochs are counted by the
cardinality of a finite set: they grow with versions (`EpochMonotone`) by one
after each end (`EpochStep`). A chunk that verifies starts and has its LI in the trusted
epoch, so it lies in it, and the epoch guessed for the next one is right.

**BlockTreeProofs**, **BlockStoreProofs** and **BlockRecoveryProofs**, each building
on the one before, prove the five properties of the run `block_store` for any blocks, finite
in number or not, any number of crashes and any `max_pruned_blocks_in_mem`, from
`BlocksAssumption` (rounds grow along the chain, parents are certified) and
`AgreementAssumption`, which is what LibraBFTProofs proves of certified and committed blocks.
`Inv` has three parts, for the disk, the memory and the relation of the two.

- The disk (`DiskOK`) is all that a crash leaves, so it must do by itself: the block of
  the ledger is `Anchored`, that is, it is on disk with a QC that commits it and the two
  blocks in between. Without these blocks `storage_start` would take the QC for loose
  and delete it.
- The memory (`TreeOK`, `PrunedOK`, `CertsOK`): the tree has no gaps between the root and
  its blocks, pruned blocks are listed once and are not in the tree, a highest commit
  cert that commits something new is in memory, and the highest QC is in the tree.
- The relation (`SavedOK`, `LedgerOK`): the tree is on disk, except between state sync and the end
  of `rebuild`, and how far the ledger is ahead of the root at each `pc`. While it is
  ahead after state sync, no block in memory extends it (`AheadOfTree`): so `rebuild`, which deletes
  all blocks of the old tree from the DB, deletes none of the new one.

There is a lemma for each operator (`Save`, `Delete`, `Start`, `Build`, `Rebuild`, `Prune`, ...) and
for each action. The ancestry is a recursive function; that it exists and what it
contains is proved by blocks of least round (`ChainsExist`, `AncestorsOf`, `ChainParts`).
`RestartAlwaysKeepsTree` then follows as the blocks in memory that extend the ledger are on
disk without gaps (`CommitsTreeOnDisk`), and `storage_start` keeps what is connected.

`SyncInfoAlwaysServed` needs a fourth part, which `Inv` does without (`ServedOK`): the highest
commit certificate commits at least the root and at least what any other certificate in
memory commits, and is itself a 3-chain in the tree. Pruning keeps it, as a new root is never
above what that certificate commits; `build` keeps it because a certificate that only ties
with the root's does not replace it. `PeerServesFetch` relates two stores: a validator that
gets a peer's SyncInfo and need not jump has a committed block, its own root or the one that
the peer's certificate commits, at or above the peer's root, and stops fetching there. So it
never asks for a block that the peer has pruned, as long as the peer is in the state it
announced.

Only model-checked: liveness (`Progress`, `CatchesUp`, `SyncRequestsProgress`), which is
beyond this prover. Every other property of a passing run is also a theorem.

## Abstractions

- Signatures are unforgeable and hashes do not collide: a block is its hash, a QC
  for a block exists when a quorum signed it.
- Execution is deterministic: honest validators that vote for a block vote for the
  same VoteData, so a vote names a block.
- LibraBFT is one epoch. Votes of different epochs are signed under different
  validator sets and never meet in a quorum.
- Epoch-ending LedgerInfos form one chain, which agreement within each epoch gives.
- A secure storage write is durable when it returns, and one at a time.
- Integers are unbounded: rounds and powers stay far below 2^64.

- RoundManager knows certificates by their rounds, and a validator may refuse any
  proposal: what may be voted for is SafetyRules' matter. Blocks below a certificate
  can be fetched, or the message that carried it counts as lost.
- Message channels hold one message for each sender and kind, as the code configures them.
- Times are left out: a timer that is set may expire at any moment, before or after
  anything else, and any set of transactions may expire at once.
- StateSync's peers are correct; that wrong chunks are refused is cryptography.

## Not modelled

The project covers the protocols of a validator. It is a small part of the
repository, most of which is no protocol: the Move compiler, prover, VM and standard
library (`language`), tests and test tooling, clients, JSON-RPC, configuration,
Merkle structures, cryptography and serialisation. These are functions of large data
or I/O, for which a model would only repeat the code.

Protocol code that is left out, and why:

- EpochManager's changes of epoch in a running node: RoundManager and BlockStore are
  one epoch, and their state in several would be out of TLC's reach at the bounds
  that make their cases happen. SafetyRules covers its own epochs.
- Leader reputation: a function of the history of blocks. Progress does not depend
  on who leads.
- Block retrieval requests, as a server: read only.
- The executor's speculation cache, and commits of consensus between two requests to
  state sync: the composition of BlockStore, executor and StateSync.
- Shared mempool's broadcast, acknowledgement and retry to peers.
- StateSync's peer scores, chunks that do not verify, and the node as a server of
  others: the peers' side is modelled once, at the peers.
- The network's connection management, libra_channel with longer queues, the key
  manager, storage back ends and the pruner: protocols of their own with little state in common
  with the ones above.
