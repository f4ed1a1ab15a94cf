----------------------------- MODULE BlockStore -----------------------------
(***************************************************************************)
(* The block store of a validator: the tree of blocks and certificates in  *)
(* memory, the consensus DB behind it, and the ledger that it commits to.  *)
(* Proposals and certificates come in any order; missing blocks are        *)
(* fetched, and the store jumps ahead by state sync when it has fallen     *)
(* behind.  The validator may crash between any two writes of a handler    *)
(* and then rebuilds the tree from what is on disk.                        *)
(*                                                                         *)
(* The blocks of the epoch are given; a QC is known by the block that it   *)
(* certifies, which fixes the block that it commits.  A peer has any block *)
(* that it offers a certificate for.  Timeout certificates and votes are   *)
(* in module RoundManager.                                                 *)
(***************************************************************************)
EXTENDS Integers, Sequences, FiniteSets, Functions

CONSTANTS
    Genesis,
    Round,          \* block -> its round
    Parent,         \* block -> the block that its QC certifies
    Certified,      \* the blocks that get a QC
    max_pruned_blocks_in_mem,
    MaxCrashes

Blocks == DOMAIN Round

(* A block and the blocks that it extends.                                 *)
Ancestors[b \in Blocks] == IF b = Genesis THEN {b} ELSE {b} \cup Ancestors[Parent[b]]

(* The block that a QC for b commits (construct_ledger_info): Genesis when *)
(* the three rounds are not contiguous.                                    *)
CommitOf ==
    [b \in Blocks |->
        IF /\ b # Genesis /\ Parent[b] # Genesis
           /\ Round[b] = Round[Parent[b]] + 1
           /\ Round[Parent[b]] = Round[Parent[Parent[b]]] + 1
        THEN Parent[Parent[b]] ELSE Genesis]

ASSUME BlocksAssumption ==
    /\ Round \in [Blocks -> Nat]
    /\ Round[Genesis] = 0 /\ Genesis \in Certified /\ Certified \subseteq Blocks
    /\ \A b \in Blocks \ {Genesis} :
          Parent[b] \in Certified /\ Round[b] > Round[Parent[b]]
    /\ max_pruned_blocks_in_mem \in Nat

(* What module LibraBFT gives: a round has one certified block, and the    *)
(* certified blocks from a committed block's round on extend it.           *)
ASSUME AgreementAssumption ==
    \A b, c \in Certified :
        /\ Round[b] = Round[c] => b = c
        /\ Round[c] >= Round[CommitOf[b]] => CommitOf[b] \in Ancestors[c]

VARIABLES
    store,      \* the tree in memory, the consensus DB and the ledger
    pc,         \* what the running handler does next, "idle" if none runs
    certs,      \* the certificates that it has yet to insert
    running,    \* FALSE from a crash until the tree is built again
    crashes

vars == <<store, pc, certs, running, crashes>>

----------------------------------------------------------------------------
(* BlockTree                                                               *)

Root(s) == s.root_id

(* The blocks that a walk from the root over child links meets.            *)
Subtree(s, b) == {c \in s.id_to_block : b \in Ancestors[c]}

Tree(s) == Subtree(s, Root(s))

CommitRound(q) == Round[CommitOf[q]]

(* The highest certificates after those of qcs were inserted.  The one of  *)
(* the root is replaced only by one that commits a higher round.           *)
HighestQC(qcs) == CHOOSE q \in qcs : \A p \in qcs : Round[p] <= Round[q]
HighestCommitCert(root_li, qcs) ==
    IF \E q \in qcs : CommitRound(root_li) < CommitRound(q)
    THEN CHOOSE q \in qcs : \A p \in qcs : CommitRound(p) <= CommitRound(q)
    ELSE root_li

insert_block(s, b) == [s EXCEPT !.id_to_block = @ \cup {b}]

(* Faulty variant: a QC that commits no more than the last also replaces   *)
(* it as the highest commit certificate.                                   *)
insert_quorum_cert_in_tree_Latest(s, q) ==
    [s EXCEPT
        !.highest_quorum_cert = IF Round[q] > Round[@] THEN q ELSE @,
        !.id_to_quorum_cert = @ \cup {q},
        !.highest_commit_cert = IF CommitRound(@) <= CommitRound(q) THEN q ELSE @]

insert_quorum_cert_in_tree(s, q) ==
    [s EXCEPT
        !.highest_quorum_cert = IF Round[q] > Round[@] THEN q ELSE @,
        !.id_to_quorum_cert = @ \cup {q},
        !.highest_commit_cert = IF CommitRound(@) < CommitRound(q) THEN q ELSE @]

(* Faulty variant: only the path to the next root is pruned.               *)
find_blocks_to_prune_Path(s, next_root) ==
    (Tree(s) \cap Ancestors[next_root]) \ {next_root}

(* Everything from the root, but not the tree of the next root.            *)
find_blocks_to_prune(s, next_root) ==
    IF next_root = Root(s) THEN {} ELSE Tree(s) \ Subtree(s, next_root)

(* The orders in which the walk of find_blocks_to_prune can meet blocks: a *)
(* block comes right before its subtree, children in any order.            *)
Walks(ids) ==
    {w \in [1 .. Cardinality(ids) -> ids] : Range(w) = ids /\
        \A i, j \in DOMAIN w : i < j =>
            /\ w[j] \notin Ancestors[w[i]]
            /\ \A k \in i .. j : w[i] \in Ancestors[w[j]] => w[i] \in Ancestors[w[k]]}

(* Pruned blocks stay in memory until there are too many of them.          *)
process_pruned_blocks(s, next_root, newly) ==
    LET all == s.pruned_block_ids \o newly
        excess == IF Len(all) > max_pruned_blocks_in_mem
                  THEN Len(all) - max_pruned_blocks_in_mem ELSE 0
        removed == Range(SubSeq(all, 1, excess))
    IN  [s EXCEPT !.root_id = next_root,
                  !.pruned_block_ids = SubSeq(all, excess + 1, Len(all)),
                  !.id_to_block = @ \ removed,
                  !.id_to_quorum_cert = @ \ removed]

----------------------------------------------------------------------------
(* The consensus DB                                                        *)

save_tree(s, blocks, qcs) == [s EXCEPT !.db_blocks = @ \cup blocks, !.db_qcs = @ \cup qcs]

DeleteFromDB(s, ids) == [s EXCEPT !.db_blocks = @ \ ids, !.db_qcs = @ \ ids]

(* find_root: the block of the latest ledger info, its QC, and a QC that   *)
(* commits it.  The genesis block of the epoch is made from the ledger.    *)
FindsRoot(s) ==
    s.ledger = Genesis
        \/ /\ s.ledger \in s.db_blocks \cap s.db_qcs
           /\ \E q \in s.db_qcs : CommitOf[q] = s.ledger

(* RecoveryData::find_blocks_to_prune keeps the blocks that are connected  *)
(* to the root.                                                            *)
Connected(s) ==
    {b \in s.db_blocks : /\ s.ledger \in Ancestors[b]
                         /\ \A a \in Ancestors[b] \ Ancestors[s.ledger] : a \in s.db_blocks}

RecoveredTree(s) == Connected(s) \cup {s.ledger}

(* storage.start(): what hangs loose is deleted from the DB.               *)
storage_start(s) == DeleteFromDB(s, s.db_blocks \ RecoveredTree(s))

(* BlockStore::build, from the recovery data.  It saves the certificates   *)
(* again, with that of the genesis block.                                  *)
build(s) ==
    LET qcs == (s.db_qcs \cap RecoveredTree(s)) \cup {s.ledger}
        root_li == IF s.ledger = Genesis THEN Genesis
                   ELSE CHOOSE q \in s.db_qcs : CommitOf[q] = s.ledger
    IN  [s EXCEPT !.db_qcs = @ \cup qcs,
                  !.root_id = s.ledger,
                  !.id_to_block = RecoveredTree(s),
                  !.id_to_quorum_cert = qcs,
                  !.pruned_block_ids = <<>>,
                  !.highest_quorum_cert = HighestQC(qcs),
                  !.highest_commit_cert = HighestCommitCert(root_li, qcs)]

(* Faulty variant: the blocks to delete are read from the new tree.        *)
Rebuilt_NewTree(s, fails) ==
    IF fails THEN build(s) ELSE DeleteFromDB(build(s), build(s).id_to_block)

(* rebuild: the new tree replaces the old one, whose blocks are deleted.   *)
Rebuilt(s, fails) ==
    IF fails THEN build(s) ELSE DeleteFromDB(build(s), s.id_to_block)

(* Faulty variant: the certificate is not saved.                           *)
insert_single_quorum_cert_MemoryOnly(s, q) == insert_quorum_cert_in_tree(s, q)

(* The QC is saved before it is inserted.                                  *)
insert_single_quorum_cert(s, q) == insert_quorum_cert_in_tree(save_tree(s, {}, {q}), q)

(* A new block is executed on a parent with a path from the root, which    *)
(* the executor is given again if it has lost it.                          *)
Executes(s, b) == Round[Root(s)] < Round[b] /\ Parent[b] \in Tree(s)

execute_and_insert_block(s, b) == insert_block(save_tree(s, {b}, {}), b)

need_sync_for_quorum_cert(s, q) ==
    CommitOf[q] \notin s.id_to_block /\ Round[Root(s)] < CommitRound(q)

(* need_fetch_for_quorum_cert: QCRoundBeforeRoot or QCAlreadyExist.        *)
NothingToInsert(s, q) == Round[q] < Round[Root(s)] \/ q \in s.id_to_quorum_cert

(* The next block for a QC that is fetched: the oldest after the last      *)
(* block of the QC's chain that is in memory.                              *)
NextMissing(s, q, b) ==
    /\ b \in Ancestors[q] /\ Parent[b] \in s.id_to_block
    /\ \A a \in Ancestors[q] \cap s.id_to_block : Round[a] < Round[b]

(* Faulty variant: a commit need not be new.                               *)
IsNewCommit_Any(s, q) == CommitOf[q] \in s.id_to_block

IsNewCommit(s, q) == Round[Root(s)] < CommitRound(q)

----------------------------------------------------------------------------
(* The handlers.  Each writes to the DB or the ledger in one step, with    *)
(* the change to the memory that follows it.                               *)

Cert == Head(certs)

Goto(label) == pc' = label /\ UNCHANGED <<certs, running, crashes>>

(* The handler goes on with its next certificate, if it has another.       *)
NextCert ==
    /\ certs' = Tail(certs)
    /\ pc' = IF Tail(certs) = <<>> THEN "idle" ELSE "insert_quorum_cert"
    /\ UNCHANGED <<running, crashes>>

(* The handler returns an error.                                           *)
Abort == pc' = "idle" /\ certs' = <<>> /\ UNCHANGED <<running, crashes>>

(* A proposal carries the QC of its parent, which sync_up has inserted.    *)
process_proposal(b) ==
    /\ running /\ pc = "idle"
    /\ Parent[b] \in store.id_to_quorum_cert
    /\ b \notin store.id_to_block /\ Executes(store, b)
    /\ store' = execute_and_insert_block(store, b)
    /\ UNCHANGED <<pc, certs, running, crashes>>

(* A QC is completed by a vote for the current round.                      *)
new_qc_aggregated(q) ==
    /\ running /\ pc = "idle"
    /\ Round[q] > Round[store.highest_quorum_cert]
    /\ pc' = "insert_quorum_cert" /\ certs' = <<q>>
    /\ UNCHANGED <<store, running, crashes>>

(* A highest commit certificate must commit something, be it the genesis   *)
(* block.                                                                  *)
CommitCerts == {q \in Certified : CommitOf[q] # Genesis} \cup {Genesis}

(* SyncInfo::verify lets any such certificate through with any highest QC  *)
(* that is not older.                                                      *)
SyncInfos == {si \in CommitCerts \X Certified : Round[si[1]] <= Round[si[2]]}

(* fast_forward_sync saves the 3-chain before state sync begins.           *)
SaveThreeChain(q) == store' = save_tree(store, {CommitOf[q], Parent[q], q}, {CommitOf[q], Parent[q], q})

(* add_certs, for a peer's SyncInfo: something in it is newer, its timeout *)
(* certificate perhaps, even if its quorum certificates are not.           *)
sync_up(si) ==
    /\ running /\ pc = "idle"
    /\ certs' = si
    /\ \/ /\ need_sync_for_quorum_cert(store, si[1])
          /\ SaveThreeChain(si[1])
          /\ pc' = "sync_to"
       \/ /\ ~need_sync_for_quorum_cert(store, si[1])
          /\ pc' = "insert_quorum_cert"
          /\ UNCHANGED store
    /\ UNCHANGED <<running, crashes>>

insert_quorum_cert ==
    /\ pc = "insert_quorum_cert"
    /\ \/ NothingToInsert(store, Cert) /\ UNCHANGED store
       \/ /\ ~NothingToInsert(store, Cert) /\ Cert \in store.id_to_block
          /\ store' = insert_single_quorum_cert(store, Cert)
    /\ Goto("commit")

(* fetch_quorum_cert inserts the QC of a fetched block's parent ...        *)
fetch_quorum_cert(b) ==
    /\ pc = "insert_quorum_cert"
    /\ ~NothingToInsert(store, Cert) /\ NextMissing(store, Cert, b)
    /\ store' = insert_single_quorum_cert(store, Parent[b])
    /\ Goto("fetched")

(* ... and the block, until it comes to the block of the QC itself.        *)
insert_fetched(b) ==
    /\ pc = "fetched"
    /\ NextMissing(store, Cert, b) /\ Executes(store, b)
    /\ store' = execute_and_insert_block(store, b)
    /\ Goto("insert_quorum_cert")

(* commit, at the end of insert_quorum_cert and of rebuild, which goes on  *)
(* after an error.                                                         *)
commit ==
    /\ pc \in {"commit", "recommit"}
    /\ IF ~IsNewCommit(store, Cert)
       THEN NextCert /\ UNCHANGED store
       ELSE IF CommitOf[Cert] \in store.id_to_block
       THEN store' = [store EXCEPT !.ledger = CommitOf[Cert]] /\ Goto("prune_tree")
       ELSE (IF pc = "commit" THEN Abort ELSE NextCert) /\ UNCHANGED store

(* The blocks are deleted from the DB, which may fail, and from the tree.  *)
prune_tree(fails) ==
    /\ pc = "prune_tree"
    /\ LET ids == find_blocks_to_prune(store, CommitOf[Cert])
           pruned == IF fails THEN store ELSE DeleteFromDB(store, ids)
       IN  \E newly \in Walks(ids) :
              store' = process_pruned_blocks(pruned, CommitOf[Cert], newly)
    /\ NextCert

(* State sync refuses a peer's commit that is behind the ledger.           *)
sync_to ==
    /\ pc = "sync_to"
    /\ CommitRound(Cert) >= Round[store.ledger]
    /\ store' = [store EXCEPT !.ledger = CommitOf[Cert]]
    /\ Goto("start")

start ==
    /\ pc = "start"
    /\ store' = storage_start(store)
    /\ Goto(IF running THEN "rebuild" ELSE "new")

(* The new tree is followed by the commit of its highest commit cert.      *)
rebuild(fails) ==
    /\ pc = "rebuild"
    /\ store' = Rebuilt(store, fails)
    /\ certs' = <<store'.highest_commit_cert>> \o certs
    /\ pc' = "recommit"
    /\ UNCHANGED <<running, crashes>>

(* BlockStore::new                                                         *)
new ==
    /\ pc = "new"
    /\ store' = build(store)
    /\ running' = TRUE /\ pc' = "idle" /\ certs' = <<>>
    /\ UNCHANGED crashes

(* A fetch, state sync or a write to the DB fails.                         *)
fail ==
    /\ pc \in {"insert_quorum_cert", "fetched", "sync_to"}
    /\ pc = "insert_quorum_cert" => ~NothingToInsert(store, Cert)
    /\ Abort /\ UNCHANGED store

(* The tree in memory is lost.                                             *)
Disk(s) ==
    [s EXCEPT !.id_to_block = {}, !.root_id = Genesis, !.highest_quorum_cert = Genesis,
              !.highest_commit_cert = Genesis, !.id_to_quorum_cert = {}, !.pruned_block_ids = <<>>]

crash ==
    /\ crashes < MaxCrashes
    /\ running \/ pc # "idle"
    /\ store' = Disk(store)
    /\ running' = FALSE /\ pc' = "idle" /\ certs' = <<>>
    /\ crashes' = crashes + 1

(* StorageWriteProxy::start and BlockStore::new, when the root is found.   *)
Restarted(s) == build(storage_start(s))

restart ==
    /\ ~running /\ pc = "idle"
    /\ FindsRoot(store)
    /\ store' = storage_start(store)
    /\ Goto("new")

(* RecoveryManager: no root is found, and a peer's SyncInfo gives one.     *)
recover(hcc) ==
    /\ ~running /\ pc = "idle"
    /\ ~FindsRoot(store) /\ CommitOf[hcc] # Genesis
    /\ SaveThreeChain(hcc)
    /\ pc' = "sync_to" /\ certs' = <<hcc>>
    /\ UNCHANGED <<running, crashes>>

Init ==
    /\ store = [id_to_block |-> {Genesis}, root_id |-> Genesis,
                highest_quorum_cert |-> Genesis, highest_commit_cert |-> Genesis,
                id_to_quorum_cert |-> {Genesis}, pruned_block_ids |-> <<>>,
                db_blocks |-> {}, db_qcs |-> {Genesis}, ledger |-> Genesis]
    /\ pc = "idle" /\ certs = <<>> /\ running = TRUE /\ crashes = 0

Next ==
    \/ insert_quorum_cert \/ commit \/ sync_to \/ start \/ new
    \/ fail \/ crash \/ restart
    \/ \E fails \in BOOLEAN : prune_tree(fails) \/ rebuild(fails)
    \/ \E b \in Blocks \ {Genesis} :
          process_proposal(b) \/ fetch_quorum_cert(b) \/ insert_fetched(b)
    \/ \E q \in Certified : new_qc_aggregated(q) \/ recover(q)
    \/ \E si \in SyncInfos : sync_up(si)

Spec == Init /\ [][Next]_vars

----------------------------------------------------------------------------

(* Wherever a handler is cut off, the DB has the block of the latest       *)
(* ledger info and a QC that commits it.  The QC that certifies it can be  *)
(* missing: then the restart needs the RecoveryManager.  After state sync  *)
(* it never is, as expect_recovery_data says.                              *)
RootOnDisk ==
    /\ store.ledger # Genesis =>
        store.ledger \in store.db_blocks /\ \E q \in store.db_qcs : CommitOf[q] = store.ledger
    /\ pc = "start" => FindsRoot(store)

(* The DB is never behind the memory: wherever a handler is cut off, a     *)
(* restart gives the tree of the latest commit back, and a highest QC and  *)
(* a highest commit that are at least as high.                             *)
RestartKeepsTree ==
    running /\ FindsRoot(store) =>
        LET s == Restarted(store)
        IN  /\ pc = "idle" => Root(s) = Root(store)
            /\ Subtree(store, Root(s)) \subseteq Tree(s)
            /\ Round[s.highest_quorum_cert] >= Round[store.highest_quorum_cert]
            /\ CommitRound(s.highest_commit_cert) >= CommitRound(store.highest_commit_cert)

(* The memory holds the tree of the root and at most so many pruned        *)
(* blocks, and never prunes the highest certified block.                   *)
MemoryBounded ==
    running =>
        /\ store.id_to_block = Tree(store) \cup Range(store.pruned_block_ids)
        /\ Len(store.pruned_block_ids) <= max_pruned_blocks_in_mem
        /\ store.highest_quorum_cert \in Tree(store)

(* What a validator announces in its SyncInfo passes SyncInfo::verify at   *)
(* every peer, and it has the 3-chain that fast_forward_sync of a peer     *)
(* will ask it for, in the middle of every handler and after a restart.    *)
SyncInfoServed ==
    running =>
        LET hcc == store.highest_commit_cert
        IN  /\ <<hcc, store.highest_quorum_cert>> \in SyncInfos
            /\ hcc # Genesis =>
                  {CommitOf[hcc], Parent[hcc], hcc} \subseteq store.id_to_block

(* The ledger only ever moves to a block that extends the last one, by a   *)
(* commit or a jump, before or after a crash.                              *)
LedgerExtends == [][store.ledger \in Ancestors[store'.ledger]]_vars

=============================================================================
