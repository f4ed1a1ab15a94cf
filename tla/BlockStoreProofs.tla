-------------------------- MODULE BlockStoreProofs --------------------------
(***************************************************************************)
(* The safety of the block store, for every tree of blocks for which the   *)
(* assumptions of module BlockStore hold, any number of crashes and any    *)
(* number of pruned blocks kept in memory.                                 *)
(***************************************************************************)
EXTENDS BlockTreeProofs

(* More time for a step than the provers take by default.                  *)
USE SMTT(20), ZenonT(20)

----------------------------------------------------------------------------
(* What pruning keeps                                                      *)

(* t forgets some pruned blocks, and keeps the tree of the next root.      *)
PrunesTo(s, b, t, gone, rest) ==
    /\ t = [s EXCEPT !.root_id = b, !.pruned_block_ids = rest,
                     !.id_to_block = s.id_to_block \ gone,
                     !.id_to_quorum_cert = s.id_to_quorum_cert \ gone]
    /\ rest \in BlockSeqs /\ Len(rest) <= max_pruned_blocks_in_mem /\ NoRepeats(rest)
    /\ \A p \in gone \cup Range(rest) : p \in s.id_to_block /\ b \notin Ancestors[p]
    /\ s.id_to_block \ gone = Subtree(s, b) \cup Range(rest)

LEMMA PruneParts ==
    ASSUME NEW s \in Stores, Memory(s), IsFiniteSet(s.id_to_block),
           NEW b \in Committed, b \in s.id_to_block, Round[Root(s)] < Round[b],
           NEW w \in Walks(find_blocks_to_prune(s, b))
    PROVE  \E gone, rest : PrunesTo(s, b, process_pruned_blocks(s, b, w), gone, rest)
<1> DEFINE r == Root(s)
           P == s.pruned_block_ids
           ids == find_blocks_to_prune(s, b)
           all == P \o w
           k == IF Len(all) > max_pruned_blocks_in_mem
                THEN Len(all) - max_pruned_blocks_in_mem ELSE 0
           front == SubSeq(all, 1, k)
           rest == SubSeq(all, k + 1, Len(all))
           M == s.id_to_block \ Range(front)
<1>1. /\ s.id_to_block \subseteq Blocks /\ P \in Seq(Blocks)
      /\ b \in Blocks /\ r \in Blocks /\ r \in Committed
  BY CommittedExtended DEF Stores, BlockSets, BlockSeqs, Root, Memory, TreeOK
<1>2. r \in Ancestors[b] /\ b # r
  BY <1>1, CommittedExtended, BlockFacts
<1>3. ids = Tree(s) \ Subtree(s, b)
  BY <1>2 DEF find_blocks_to_prune
<1>4. ids \subseteq s.id_to_block /\ IsFiniteSet(ids)
  BY <1>3, FS_Subset DEF Tree, Subtree
<1>5. w \in Seq(Blocks) /\ Range(w) = ids /\ NoRepeats(w)
  <2> HIDE DEF ids
  <2>1. ids \in SUBSET Blocks /\ w \in Walks(ids)
    BY <1>1, <1>4 DEF ids
  <2> QED BY <1>4, <2>1, WalkFacts
<1>6. /\ NoRepeats(P) /\ s.id_to_block = Tree(s) \cup Range(P)
      /\ \A p \in Range(P) : r \notin Ancestors[p] /\ p \in s.id_to_block
  BY DEF Memory, TreeOK, PrunedOK, Range
<1>7. Range(P) \cap Range(w) = {}
  BY <1>3, <1>5, <1>6 DEF Tree, Subtree
<1>8. all \in Seq(Blocks) /\ NoRepeats(all) /\ Range(all) = Range(P) \cup ids
  BY <1>1, <1>5, <1>6, <1>7, AppendPruned
<1>9. /\ k \in 0 .. Len(all) /\ Len(all) - k <= max_pruned_blocks_in_mem
  BY <1>8, BlocksAssumption
<1>10. process_pruned_blocks(s, b, w) =
           [s EXCEPT !.root_id = b, !.pruned_block_ids = rest, !.id_to_block = M,
                     !.id_to_quorum_cert = s.id_to_quorum_cert \ Range(front)]
  BY DEF process_pruned_blocks, Stores
<1> HIDE DEF ids, all, k
<1>11. rest \in Seq(Blocks) /\ Len(rest) = Len(all) - k /\ SplitsInto(all, front, rest)
  BY <1>8, <1>9, SplitSeq, ZenonT(30)
<1> HIDE DEF front, rest
<1>12. rest \in BlockSeqs /\ Len(rest) <= max_pruned_blocks_in_mem
  BY <1>9, <1>11 DEF BlockSeqs
<1>13. \A p \in Range(all) : p \in s.id_to_block /\ b \notin Ancestors[p]
  <2>1. ASSUME NEW p \in Range(P) PROVE b \notin Ancestors[p]
    <3>1. p \in Blocks /\ r \notin Ancestors[p]
      BY <1>1, <1>6
    <3> QED BY <1>2, <3>1, ChainParts
  <2> QED BY <1>3, <1>4, <1>6, <1>8, <2>1 DEF Subtree
<1>14. Range(front) \subseteq Range(all) /\ Range(rest) \subseteq Range(all) /\ NoRepeats(rest)
  BY <1>11 DEF SplitsInto
<1>15. Subtree(s, b) \subseteq M
  BY <1>13, <1>14 DEF Subtree
<1>16. M = Subtree(s, b) \cup Range(rest)
  <2>1. \A x \in s.id_to_block : x \in Subtree(s, b) \/ x \in Range(all)
    BY <1>3, <1>6, <1>8
  <2>2. \A x \in M : x \in Subtree(s, b) \/ x \in Range(rest)
    BY <1>11, <2>1 DEF SplitsInto
  <2>3. \A x \in Range(rest) : x \in M
    BY <1>11, <1>13, <1>14 DEF SplitsInto
  <2> QED BY <1>15, <2>2, <2>3
<1>17. \A p \in Range(front) \cup Range(rest) : p \in s.id_to_block /\ b \notin Ancestors[p]
  BY <1>13, <1>14
<1> HIDE DEF M
<1>18. PrunesTo(s, b, process_pruned_blocks(s, b, w), Range(front), rest)
  BY <1>10, <1>12, <1>14, <1>16, <1>17 DEF M, PrunesTo
<1> QED BY <1>18, Zenon

(* prune_tree leaves the tree of the next root and the last few pruned     *)
(* blocks.                                                                 *)
LEMMA Prune ==
    ASSUME NEW s \in Stores, Memory(s), IsFiniteSet(s.id_to_block),
           NEW b \in Committed, b \in s.id_to_block, Round[Root(s)] < Round[b],
           Round[s.highest_quorum_cert] >= Round[b],
           NEW w \in Walks(find_blocks_to_prune(s, b)), NEW t, t = process_pruned_blocks(s, b, w)
    PROVE  /\ t \in Stores /\ Memory(t) /\ IsFiniteSet(t.id_to_block)
           /\ t.root_id = b /\ t.ledger = s.ledger /\ Tree(t) = Subtree(s, b)
           /\ t.db_blocks = s.db_blocks /\ t.db_qcs = s.db_qcs
           /\ t.id_to_quorum_cert \subseteq s.id_to_quorum_cert
           /\ t.highest_quorum_cert = s.highest_quorum_cert
           /\ t.highest_commit_cert = s.highest_commit_cert
<1> DEFINE r == Root(s)
<1>1. PICK gone, rest : PrunesTo(s, b, t, gone, rest)
  BY PruneParts, Zenon
<1> DEFINE M == s.id_to_block \ gone
           Q == s.id_to_quorum_cert \ gone
<1>2. /\ s.id_to_block \subseteq Blocks /\ s.highest_quorum_cert \in Certified
      /\ s.id_to_quorum_cert \subseteq Certified /\ s.highest_commit_cert \in Certified
      /\ b \in Blocks /\ r \in Blocks /\ r \in Ancestors[b]
  BY CommittedExtended, BlockFacts DEF Stores, BlockSets, CertSets, Root, Memory, TreeOK
<1>3. M \in BlockSets /\ Q \in CertSets
  BY <1>2 DEF BlockSets, CertSets
<1>4. /\ b \in Subtree(s, b) /\ Subtree(s, b) \subseteq M
      /\ \A p \in M : b \in Ancestors[p] => p \in Subtree(s, b)
  BY <1>1, <1>2, ChainFacts DEF Subtree, PrunesTo
<1> HIDE DEF M, Q
<1>5. t \in Stores
  BY <1>1, <1>2, <1>3, ZenonT(60) DEF Stores, M, Q, PrunesTo
<1>6. /\ t.root_id = b /\ t.pruned_block_ids = rest /\ t.id_to_block = M /\ t.id_to_quorum_cert = Q
      /\ t.ledger = s.ledger /\ t.db_blocks = s.db_blocks /\ t.db_qcs = s.db_qcs
      /\ t.highest_quorum_cert = s.highest_quorum_cert
      /\ t.highest_commit_cert = s.highest_commit_cert
  BY <1>1 DEF Stores, M, Q, PrunesTo
<1>7. Root(t) = b /\ Tree(t) = Subtree(s, b)
  BY <1>4, <1>6 DEF Root, Tree, Subtree
<1>8. IsFiniteSet(M) /\ Q \subseteq s.id_to_quorum_cert
  BY FS_Subset DEF M, Q
<1>9. TreeOK(t)
  <2>1. ASSUME NEW c \in Subtree(s, b), NEW a \in Ancestors[c], b \in Ancestors[a] PROVE a \in M
    <3>1. c \in Blocks /\ b \in Ancestors[c] /\ c \in s.id_to_block /\ r \in Ancestors[c]
      BY <1>2, ChainParts DEF Subtree
    <3>2. a \in Blocks
      BY <3>1, ChainFacts
    <3>3. r \in Ancestors[a]
      BY <1>2, <2>1, <3>2, ChainParts
    <3>4. a \in s.id_to_block
      BY <2>1, <3>1, <3>3 DEF Memory, TreeOK, Tree, Subtree
    <3> QED BY <1>4, <2>1, <3>4 DEF Subtree
  <2> QED BY <1>1, <1>4, <1>6, <1>7, <2>1 DEF TreeOK, PrunesTo, M
<1>10. PrunedOK(t)
  <2>1. \A i \in DOMAIN rest : rest[i] \in Range(rest)
    BY DEF Range
  <2> QED BY <1>1, <1>6, <1>7, <2>1 DEF PrunedOK, PrunesTo, M
<1>11. ASSUME NEW q \in s.id_to_quorum_cert, Round[q] >= Round[b] PROVE q \in Tree(t) \cap Q
  <2>1. b \in Ancestors[q] /\ q \in s.id_to_block
    BY <1>2, <1>11, CommittedExtended DEF Memory, CertsOK
  <2>2. q \in Subtree(s, b) /\ q \notin gone
    BY <1>1, <2>1 DEF Subtree, PrunesTo
  <2> QED BY <1>7, <2>2 DEF Q
<1>12. CertsOK(t)
  <2>1. Q \subseteq M
    BY DEF Q, M, Memory, CertsOK
  <2>2. s.highest_quorum_cert \in Tree(t) \cap Q
    BY <1>11 DEF Memory, CertsOK
  <2>3. \A q \in Q : Round[q] <= Round[s.highest_quorum_cert]
    BY DEF Q, Memory, CertsOK
  <2>4. IsNewCommit(t, s.highest_commit_cert) => s.highest_commit_cert \in Q
    <3> DEFINE c == s.highest_commit_cert
    <3> SUFFICES ASSUME Round[b] < CommitRound(c) PROVE c \in Q
      BY <1>7 DEF IsNewCommit
    <3>1. CommitOf[c] \in Blocks /\ CommitRound(c) <= Round[c] /\ c \in Blocks
      BY <1>2, CommitFacts, BlockFacts
    <3>2. Round[r] < CommitRound(c) /\ Round[c] >= Round[b]
      BY <1>2, <3>1, BlockFacts DEF CommitRound
    <3>3. c \in s.id_to_quorum_cert
      BY <3>2 DEF Memory, CertsOK, IsNewCommit
    <3> QED BY <1>11, <3>2, <3>3
  <2> QED BY <1>6, <2>1, <2>2, <2>3, <2>4 DEF CertsOK
<1> QED BY <1>5, <1>6, <1>7, <1>8, <1>9, <1>10, <1>12 DEF Memory, Q

----------------------------------------------------------------------------
(* The inductive invariant                                                 *)

InMemory == {"insert_quorum_cert", "fetched", "commit", "recommit", "prune_tree", "rebuild"}

TypeOK ==
    /\ store \in Stores
    /\ IsFiniteSet(store.id_to_block) /\ IsFiniteSet(store.db_blocks) /\ IsFiniteSet(store.db_qcs)
    /\ pc \in InMemory \cup {"idle", "sync_to", "start", "new"}
    /\ certs \in Seq(Certified) /\ (pc \notin {"idle", "new"} => certs # <<>>)
    /\ running \in BOOLEAN
    /\ pc \in InMemory => running
    /\ pc = "new" => ~running

DiskOK ==
    /\ store.ledger # Genesis => Anchored(store, store.ledger)
    /\ pc = "sync_to" => /\ CommitOf[Cert] # Genesis
                         /\ {CommitOf[Cert], Parent[Cert], Cert} \subseteq store.db_blocks \cap store.db_qcs
    /\ pc \in {"start", "rebuild", "new"} => FindsRoot(store)

(* How far the ledger is ahead of the root while a handler runs.           *)
LedgerOK ==
    /\ pc \notin {"prune_tree", "start", "rebuild"} => Root(store) = store.ledger
    /\ pc \in {"commit", "recommit"} /\ IsNewCommit(store, Cert) => Cert \in store.id_to_quorum_cert
    /\ pc = "prune_tree" =>
          /\ IsNewCommit(store, Cert) /\ store.ledger = CommitOf[Cert]
          /\ Cert \in store.id_to_quorum_cert /\ CommitOf[Cert] \in store.id_to_block
    /\ pc = "sync_to" => need_sync_for_quorum_cert(store, Cert)
    /\ pc \in {"start", "rebuild"} =>
          store.ledger \notin store.id_to_block /\ Round[Root(store)] < Round[store.ledger]

Inv ==
    /\ TypeOK
    /\ DiskOK
    /\ running => /\ Memory(store) /\ LedgerOK
                  /\ pc \notin {"start", "rebuild"} => SavedOK(store)

----------------------------------------------------------------------------
(* Every action keeps the invariant.                                       *)

(* What the invariant says between two writes of the memory.               *)
LEMMA Settled ==
    ASSUME Inv, running, pc \notin {"prune_tree", "start", "rebuild"}
    PROVE  /\ store \in Stores /\ Memory(store) /\ SavedOK(store) /\ Root(store) = store.ledger
           /\ Root(store) \in Committed /\ Root(store) \in Blocks
BY CommittedExtended DEF Inv, TypeOK, LedgerOK, Memory, TreeOK

LEMMA CertFacts ==
    ASSUME TypeOK, pc \notin {"idle", "new"}
    PROVE  Cert \in Certified /\ Cert \in Blocks /\ certs \in Seq(Certified) /\ certs # <<>>
           /\ Tail(certs) \in Seq(Certified)
<1>1. certs \in Seq(Certified) /\ certs # <<>>
  BY DEF TypeOK
<1>2. Cert \in Certified /\ Tail(certs) \in Seq(Certified)
  BY <1>1 DEF Cert
<1> QED BY <1>1, <1>2, BlockFacts

(* A handler begins, goes on with a certificate or ends.                   *)
LEMMA OnlyControl ==
    ASSUME Inv, pc \notin {"prune_tree", "start", "rebuild", "new"},
           store' = store, running' = running, certs' \in Seq(Certified),
           \/ pc' = "idle"
           \/ pc' = "insert_quorum_cert" /\ running /\ certs' # <<>>
    PROVE  Inv'
<1>1. TypeOK'
  BY DEF Inv, TypeOK, InMemory
<1>2. DiskOK'
  BY DEF Inv, DiskOK, Anchored
<1>3. running' => Memory(store') /\ SavedOK(store') /\ LedgerOK'
  BY Settled DEF LedgerOK, Root
<1> QED BY <1>1, <1>2, <1>3 DEF Inv

LEMMA ProcessProposal ==
    ASSUME Inv, NEW b \in Blocks \ {Genesis}, Executes(store, b), running,
           store' = execute_and_insert_block(store, b), running' = running, certs' = certs,
           \/ pc = "idle" /\ pc' = "idle"
           \/ pc = "fetched" /\ pc' = "insert_quorum_cert"
    PROVE  Inv'
<1>1. store \in Stores /\ Memory(store) /\ SavedOK(store) /\ Root(store) = store.ledger
  BY Settled
<1>2. /\ store' \in Stores /\ Memory(store') /\ SavedOK(store')
      /\ store'.id_to_block = store.id_to_block \cup {b} /\ store'.root_id = store.root_id
      /\ store'.db_blocks = store.db_blocks \cup {b} /\ store'.db_qcs = store.db_qcs
      /\ store'.ledger = store.ledger
  BY <1>1, InsertBlock
<1>3. TypeOK'
  <2>1. IsFiniteSet(store.id_to_block) /\ IsFiniteSet(store.db_blocks) /\ IsFiniteSet(store.db_qcs)
    BY DEF Inv, TypeOK
  <2>2. IsFiniteSet(store.id_to_block \cup {b}) /\ IsFiniteSet(store.db_blocks \cup {b})
    BY <2>1, FS_AddElement
  <2> QED BY <1>2, <2>1, <2>2 DEF Inv, TypeOK, InMemory
<1>4. DiskOK'
  BY <1>2 DEF Inv, DiskOK, Anchored
<1>5. LedgerOK'
  BY <1>1, <1>2 DEF LedgerOK, Root
<1> QED BY <1>2, <1>3, <1>4, <1>5 DEF Inv

LEMMA InsertSingle ==
    ASSUME Inv, pc = "insert_quorum_cert", NEW q \in Certified \cap store.id_to_block,
           store' = insert_single_quorum_cert(store, q), running' = running, certs' = certs,
           \/ pc' = "fetched"
           \/ pc' = "commit" /\ q = Cert
    PROVE  Inv'
<1>1. /\ store \in Stores /\ Memory(store) /\ SavedOK(store) /\ Root(store) = store.ledger
      /\ running
  BY Settled DEF Inv, TypeOK, InMemory
<1>2. /\ store' \in Stores /\ Memory(store') /\ SavedOK(store')
      /\ store'.id_to_block = store.id_to_block /\ store'.root_id = store.root_id
      /\ store'.id_to_quorum_cert = store.id_to_quorum_cert \cup {q}
      /\ store'.db_blocks = store.db_blocks /\ store'.db_qcs = store.db_qcs \cup {q}
      /\ store'.ledger = store.ledger
  BY <1>1, InsertCert
<1>3. TypeOK'
  <2>1. IsFiniteSet(store.id_to_block) /\ IsFiniteSet(store.db_blocks) /\ IsFiniteSet(store.db_qcs)
    BY DEF Inv, TypeOK
  <2>2. IsFiniteSet(store.db_qcs \cup {q})
    BY <2>1, FS_AddElement, Zenon
  <2> QED BY <1>1, <1>2, <2>1, <2>2 DEF Inv, TypeOK, InMemory
<1>4. DiskOK'
  BY <1>2 DEF Inv, DiskOK, Anchored
<1>5. LedgerOK'
  BY <1>1, <1>2 DEF LedgerOK, Root, Cert
<1> QED BY <1>2, <1>3, <1>4, <1>5 DEF Inv

(* A certificate that is not inserted has nothing new to commit.           *)
LEMMA NothingInserted ==
    ASSUME Inv, pc = "insert_quorum_cert", NothingToInsert(store, Cert),
           store' = store, running' = running, certs' = certs, pc' = "commit"
    PROVE  Inv'
<1>1. /\ store \in Stores /\ Memory(store) /\ SavedOK(store) /\ Root(store) = store.ledger
      /\ running /\ Root(store) \in Blocks
  BY Settled DEF Inv, TypeOK, InMemory
<1>2. Cert \in Certified /\ Cert \in Blocks
  BY CertFacts DEF Inv
<1>3. IsNewCommit(store, Cert) => Cert \in store.id_to_quorum_cert
  <2>1. CommitOf[Cert] \in Blocks /\ CommitRound(Cert) <= Round[Cert]
    BY <1>2, CommitFacts
  <2>2. Round[Cert] < Round[Root(store)] => ~IsNewCommit(store, Cert)
    BY <1>1, <1>2, <2>1, BlockFacts DEF IsNewCommit, CommitRound
  <2> QED BY <2>2 DEF NothingToInsert
<1>4. TypeOK'
  BY <1>1 DEF Inv, TypeOK, InMemory
<1>5. DiskOK'
  BY DEF Inv, DiskOK, Anchored
<1>6. LedgerOK'
  BY <1>1, <1>3 DEF LedgerOK, Root, Cert, IsNewCommit
<1> QED BY <1>1, <1>4, <1>5, <1>6 DEF Inv

(* The chain of a certificate in memory that commits something new is in   *)
(* the tree, and on disk.                                                  *)
LEMMA NewCommit ==
    ASSUME NEW s \in Stores, Memory(s), SavedOK(s), NEW q \in s.id_to_quorum_cert, IsNewCommit(s, q)
    PROVE  /\ CommitOf[q] # Genesis /\ {CommitOf[q], Parent[q], q} \subseteq Tree(s)
           /\ Root(s) \in Ancestors[CommitOf[q]] /\ Round[q] >= CommitRound(q)
           /\ {CommitOf[q], Parent[q], q} \subseteq s.db_blocks /\ q \in s.db_qcs
<1> DEFINE c == CommitOf[q]
           r == Root(s)
<1>1. /\ q \in Certified /\ q \in Blocks /\ q \in s.id_to_block /\ r \in Committed /\ r \in Blocks
  BY BlockFacts, CommittedExtended DEF Stores, CertSets, Memory, TreeOK, CertsOK
<1>2. c \in Certified /\ c \in Blocks /\ c \in Ancestors[q] /\ Round[c] <= Round[q] /\ Round[r] < Round[c]
  BY <1>1, CommitFacts DEF CommitRound, IsNewCommit
<1>3. Round[c] \in Nat /\ Round[q] \in Nat /\ Round[r] \in Nat /\ Round[Genesis] = 0
  BY <1>1, <1>2, BlockFacts, BlocksAssumption
<1>4. c # Genesis
  BY <1>2, <1>3
<1>5. r \in Ancestors[c] /\ r \in Ancestors[q]
  BY <1>1, <1>2, <1>3, CommittedExtended
<1>6. /\ q # Genesis /\ Parent[q] # Genesis
      /\ Parent[q] \in Ancestors[q] /\ c \in Ancestors[Parent[q]]
  BY <1>1, <1>4, CommitFacts
<1>7. Parent[q] \in Blocks
  BY <1>1, <1>6, BlockFacts
<1>8. r \in Ancestors[Parent[q]]
  BY <1>5, <1>6, <1>7, ChainParts
<1>9. q \in Tree(s)
  BY <1>1, <1>5 DEF Tree, Subtree
<1>10. c \in s.id_to_block /\ Parent[q] \in s.id_to_block
  BY <1>2, <1>5, <1>6, <1>8, <1>9 DEF Memory, TreeOK
<1>11. {c, Parent[q], q} \subseteq Tree(s)
  BY <1>5, <1>8, <1>9, <1>10 DEF Tree, Subtree
<1>12. {c, Parent[q], q} \subseteq s.db_blocks /\ q \in s.db_qcs
  BY <1>4, <1>6, <1>11 DEF SavedOK
<1> QED BY <1>2, <1>3, <1>4, <1>5, <1>11, <1>12 DEF CommitRound

LEMMA SetLedger ==
    ASSUME NEW s \in Stores, NEW b \in Committed, NEW t, t = [s EXCEPT !.ledger = b]
    PROVE  /\ t \in Stores /\ t.ledger = b
           /\ t.db_blocks = s.db_blocks /\ t.db_qcs = s.db_qcs
           /\ t.root_id = s.root_id /\ t.id_to_block = s.id_to_block
           /\ Root(t) = Root(s) /\ Tree(t) = Tree(s) /\ t.id_to_quorum_cert = s.id_to_quorum_cert
           /\ Memory(s) => Memory(t)
           /\ SavedOK(s) => SavedOK(t)
<1>1. t \in Stores
  BY ZenonT(60) DEF Stores
<1>2. /\ t.ledger = b /\ t.db_blocks = s.db_blocks /\ t.db_qcs = s.db_qcs
      /\ t.root_id = s.root_id /\ t.id_to_block = s.id_to_block
      /\ t.id_to_quorum_cert = s.id_to_quorum_cert
      /\ t.pruned_block_ids = s.pruned_block_ids
      /\ t.highest_quorum_cert = s.highest_quorum_cert
      /\ t.highest_commit_cert = s.highest_commit_cert
  BY DEF Stores
<1>3. Root(t) = Root(s) /\ Tree(t) = Tree(s) /\ (TreeOK(s) => TreeOK(t)) /\ (PrunedOK(s) => PrunedOK(t))
  BY <1>2, SameTree, Zenon
<1>4. CertsOK(s) => CertsOK(t)
  BY <1>2, <1>3 DEF CertsOK, IsNewCommit
<1>5. SavedOK(s) => SavedOK(t)
  BY <1>2, <1>3 DEF SavedOK
<1> QED BY <1>1, <1>2, <1>3, <1>4, <1>5 DEF Memory

LEMMA Commits ==
    ASSUME Inv, pc \in {"commit", "recommit"}, IsNewCommit(store, Cert),
           store' = [store EXCEPT !.ledger = CommitOf[Cert]],
           running' = running, certs' = certs, pc' = "prune_tree"
    PROVE  Inv' /\ store.ledger \in Ancestors[store'.ledger]
<1> DEFINE c == CommitOf[Cert]
<1>1. /\ store \in Stores /\ Memory(store) /\ SavedOK(store) /\ Root(store) = store.ledger
      /\ running /\ Cert \in store.id_to_quorum_cert /\ Cert \in Certified
  BY Settled, CertFacts DEF Inv, TypeOK, InMemory, LedgerOK
<1>2. /\ c # Genesis /\ {c, Parent[Cert], Cert} \subseteq Tree(store)
      /\ Root(store) \in Ancestors[c]
      /\ {c, Parent[Cert], Cert} \subseteq store.db_blocks /\ Cert \in store.db_qcs
  BY <1>1, NewCommit
<1>3. c \in Committed /\ c \in store.id_to_block
  BY <1>1, <1>2, CommitFacts DEF Tree, Subtree
<1>4. /\ store' \in Stores /\ Memory(store') /\ SavedOK(store') /\ store'.ledger = c
      /\ store'.db_blocks = store.db_blocks /\ store'.db_qcs = store.db_qcs
      /\ store'.id_to_block = store.id_to_block /\ Root(store') = Root(store)
      /\ store'.id_to_quorum_cert = store.id_to_quorum_cert
  BY <1>1, <1>3, SetLedger
<1>5. TypeOK'
  BY <1>1, <1>4 DEF Inv, TypeOK, InMemory
<1>6. Anchored(store', c)
  BY <1>2, <1>4 DEF Anchored
<1>7. DiskOK'
  BY <1>4, <1>6 DEF DiskOK
<1>8. LedgerOK'
  <2>1. Cert' = Cert
    BY DEF Cert
  <2>2. IsNewCommit(store', Cert)
    BY <1>4 DEF IsNewCommit
  <2> QED BY <1>1, <1>3, <1>4, <2>1, <2>2 DEF LedgerOK
<1> QED BY <1>1, <1>2, <1>4, <1>5, <1>7, <1>8 DEF Inv

LEMMA Prunes ==
    ASSUME Inv, NEW fails \in BOOLEAN, prune_tree(fails)
    PROVE  /\ Inv' /\ store'.ledger = store.ledger
           /\ Cert \in store.id_to_quorum_cert /\ CommitOf[Cert] \in Committed
           /\ store'.root_id = CommitOf[Cert] /\ Tree(store') = Subtree(store, CommitOf[Cert])
           /\ store'.id_to_quorum_cert \subseteq store.id_to_quorum_cert
           /\ store'.highest_quorum_cert = store.highest_quorum_cert
           /\ store'.highest_commit_cert = store.highest_commit_cert
<1> DEFINE b == CommitOf[Cert]
           ids == find_blocks_to_prune(store, b)
           u == IF fails THEN store ELSE DeleteFromDB(store, ids)
<1>1. /\ pc = "prune_tree" /\ certs' = Tail(certs) /\ running' = running
      /\ pc' = IF Tail(certs) = <<>> THEN "idle" ELSE "insert_quorum_cert"
  BY DEF prune_tree, NextCert
<1>2. PICK w \in Walks(ids) : store' = process_pruned_blocks(u, b, w)
  BY DEF prune_tree
<1>3. /\ store \in Stores /\ Memory(store) /\ SavedOK(store) /\ running
      /\ IsFiniteSet(store.id_to_block) /\ IsFiniteSet(store.db_blocks) /\ IsFiniteSet(store.db_qcs)
      /\ IsNewCommit(store, Cert) /\ store.ledger = b
      /\ Cert \in store.id_to_quorum_cert /\ b \in store.id_to_block
      /\ store.ledger # Genesis => Anchored(store, store.ledger)
  BY <1>1, Zenon DEF Inv, TypeOK, InMemory, LedgerOK, DiskOK
<1>4. /\ Cert \in Certified /\ Cert \in Blocks /\ b \in Committed /\ b \in Blocks
      /\ Tail(certs) \in Seq(Certified)
  BY <1>1, CertFacts, CommitFacts DEF Inv
<1>5. Round[b] <= Round[store.highest_quorum_cert]
  <2>1. Round[Cert] <= Round[store.highest_quorum_cert] /\ store.highest_quorum_cert \in Certified
    BY <1>3 DEF Memory, CertsOK, Stores
  <2>2. Round[b] <= Round[Cert]
    BY <1>4, CommitFacts DEF CommitRound
  <2> QED BY <1>4, <2>1, <2>2, BlockFacts
<1>6. /\ u \in Stores /\ SameMemory(store, u)
      /\ u.db_blocks \in {store.db_blocks, store.db_blocks \ ids}
      /\ u.db_qcs \in {store.db_qcs, store.db_qcs \ ids}
  <2>1. CASE fails
    BY <1>3, <2>1, ZenonT(30) DEF SameMemory
  <2>2. CASE ~fails
    <3>1. u = DeleteFromDB(store, ids)
      BY <2>2
    <3> HIDE DEF u, ids
    <3> QED BY <1>3, <3>1, Delete, Zenon
  <2> QED BY <2>1, <2>2, ZenonT(30)
<1> HIDE DEF u
<1>7. Root(u) = Root(store) /\ Tree(u) = Tree(store) /\ Memory(u)
  BY <1>3, <1>6, OnlyDBDiffers, ZenonT(30)
<1>8. Subtree(u, b) = Subtree(store, b) /\ find_blocks_to_prune(u, b) = ids
  BY <1>6, <1>7 DEF Subtree, SameMemory, find_blocks_to_prune
<1>9. /\ IsFiniteSet(u.id_to_block) /\ b \in u.id_to_block /\ Round[Root(u)] < Round[b]
      /\ Round[u.highest_quorum_cert] >= Round[b] /\ u.ledger = b
      /\ u.id_to_quorum_cert = store.id_to_quorum_cert
  <2>1. u.id_to_block = store.id_to_block /\ u.highest_quorum_cert = store.highest_quorum_cert
        /\ u.ledger = store.ledger /\ u.id_to_quorum_cert = store.id_to_quorum_cert
    BY <1>6 DEF SameMemory
  <2>2. Round[Root(u)] < Round[b]
    BY <1>3, <1>7 DEF IsNewCommit, CommitRound
  <2>3. store.highest_quorum_cert \in Blocks
    BY <1>3, BlockFacts DEF Stores
  <2> QED BY <1>3, <1>4, <1>5, <2>1, <2>2, <2>3, BlockFacts, ZenonT(30)
<1> HIDE DEF ids, b
<1>10. /\ store' \in Stores /\ Memory(store') /\ IsFiniteSet(store'.id_to_block)
       /\ store'.root_id = b /\ store'.ledger = u.ledger /\ Tree(store') = Subtree(u, b)
       /\ store'.db_blocks = u.db_blocks /\ store'.db_qcs = u.db_qcs
       /\ store'.id_to_quorum_cert \subseteq u.id_to_quorum_cert
       /\ store'.highest_quorum_cert = u.highest_quorum_cert
       /\ store'.highest_commit_cert = u.highest_commit_cert
  <2>1. w \in Walks(find_blocks_to_prune(u, b)) /\ store' = process_pruned_blocks(u, b, w)
    BY <1>2, <1>8 DEF b
  <2> QED BY <1>4, <1>6, <1>7, <1>9, <2>1, Prune
<1>11. IsFiniteSet(store'.db_blocks) /\ IsFiniteSet(store'.db_qcs)
  <2>1. store'.db_blocks \subseteq store.db_blocks /\ store'.db_qcs \subseteq store.db_qcs
    BY <1>6, <1>10
  <2> QED BY <1>3, <2>1, FS_Subset
<1>12. TypeOK'
  BY <1>1, <1>3, <1>4, <1>10, <1>11 DEF TypeOK, InMemory
<1>13. \A x \in ids : b \notin Ancestors[x]
  BY <1>3
  DEF ids, find_blocks_to_prune, Tree, Subtree, IsNewCommit, CommitRound, b
<1>14. SavedOK(store')
  <2>1. Subtree(store, b) \subseteq Tree(store) /\ Subtree(store, b) \cap ids = {}
    <3>1. Root(store) \in Ancestors[b]
      BY <1>3, NewCommit DEF b
    <3>2. \A x \in Subtree(store, b) : x \in Blocks /\ b \in Ancestors[x] /\ x \in store.id_to_block
      BY <1>3 DEF Subtree, Stores, BlockSets
    <3>3. \A x \in Subtree(store, b) : Root(store) \in Ancestors[x]
      BY <3>1, <3>2, ChainParts
    <3> QED BY <1>13, <3>2, <3>3 DEF Tree, Subtree
  <2> QED BY <1>3, <1>6, <1>8, <1>9, <1>10, <2>1, ZenonT(30) DEF SavedOK
<1>15. Anchored(store', b)
  <2>1. /\ b # Genesis /\ {b, Parent[Cert], Cert} \subseteq store.db_blocks /\ Cert \in store.db_qcs
    BY <1>3, NewCommit DEF b
  <2>2. b \in Ancestors[b] /\ b \in Ancestors[Cert] /\ b \in Ancestors[Parent[Cert]]
    BY <1>4, <2>1, ChainFacts, CommitFacts DEF b
  <2>3. {b, Parent[Cert], Cert} \cap ids = {}
    BY <1>13, <2>2
  <2>4. {b, Parent[Cert], Cert} \subseteq store'.db_blocks /\ Cert \in store'.db_qcs
    BY <1>6, <1>10, <2>1, <2>3
  <2> QED BY <2>4 DEF Anchored, b
<1>16. DiskOK'
  BY <1>1, <1>9, <1>10, <1>15 DEF DiskOK
<1>17. LedgerOK'
  BY <1>1, <1>9, <1>10 DEF LedgerOK, Root
<1>18. /\ store'.highest_quorum_cert = store.highest_quorum_cert
       /\ store'.highest_commit_cert = store.highest_commit_cert
  BY <1>6, <1>10 DEF SameMemory
<1>19. Inv' /\ store'.ledger = store.ledger
  BY <1>1, <1>3, <1>9, <1>10, <1>12, <1>14, <1>16, <1>17 DEF Inv
<1> QED BY <1>3, <1>4, <1>8, <1>9, <1>10, <1>18, <1>19, Zenon DEF b

LEMMA FiniteWithThree ==
    ASSUME NEW S, IsFiniteSet(S), NEW a, NEW b, NEW c
    PROVE  IsFiniteSet(S \cup {a, b, c})
<1>1. IsFiniteSet(S \cup {a})
  BY FS_AddElement
<1>2. IsFiniteSet((S \cup {a}) \cup {b})
  BY <1>1, FS_AddElement
<1>3. IsFiniteSet(((S \cup {a}) \cup {b}) \cup {c})
  BY <1>2, FS_AddElement
<1>4. ((S \cup {a}) \cup {b}) \cup {c} = S \cup {a, b, c}
  OBVIOUS
<1> QED BY <1>3, <1>4

(* fast_forward_sync has saved the 3-chain of a certificate.               *)
LEMMA SavesChain ==
    ASSUME Inv, pc = "idle", NEW q \in Certified, CommitOf[q] # Genesis, SaveThreeChain(q),
           certs' \in Seq(Certified), certs' # <<>>, Head(certs') = q,
           pc' = "sync_to", running' = running,
           running => need_sync_for_quorum_cert(store, q)
    PROVE  Inv' /\ store'.ledger = store.ledger
<1> DEFINE chain == {CommitOf[q], Parent[q], q}
<1>1. chain \in BlockSets /\ chain \in CertSets
  <2>1. CommitOf[q] \in Certified /\ q # Genesis
    BY CommitFacts
  <2>2. q \in Blocks /\ Parent[q] \in Certified
    BY <2>1, BlockFacts
  <2> QED BY <2>1, <2>2, BlockFacts DEF BlockSets, CertSets
<1>2. store \in Stores /\ IsFiniteSet(store.id_to_block)
      /\ IsFiniteSet(store.db_blocks) /\ IsFiniteSet(store.db_qcs)
  BY DEF Inv, TypeOK
<1>3. store' = save_tree(store, chain, chain)
  BY DEF SaveThreeChain
<1>4. IsFiniteSet(store.db_blocks \cup chain) /\ IsFiniteSet(store.db_qcs \cup chain)
  BY <1>2, FiniteWithThree, Zenon
<1>5. Cert' = q
  BY DEF Cert
<1>6. chain = {CommitOf[q], Parent[q], q}
  OBVIOUS
<1> HIDE DEF chain
<1>7. /\ store' \in Stores /\ SameMemory(store, store')
      /\ store'.db_blocks = store.db_blocks \cup chain /\ store'.db_qcs = store.db_qcs \cup chain
  BY <1>1, <1>2, <1>3, Save
<1>8. store'.id_to_block = store.id_to_block /\ store'.ledger = store.ledger
      /\ store'.id_to_quorum_cert = store.id_to_quorum_cert
  BY <1>7 DEF SameMemory
<1>9. Root(store') = Root(store) /\ Tree(store') = Tree(store) /\ (Memory(store) => Memory(store'))
  BY <1>7, OnlyDBDiffers
<1>10. TypeOK'
  BY <1>2, <1>4, <1>7, <1>8 DEF Inv, TypeOK, InMemory
<1>11. DiskOK'
  <2>1. store.ledger # Genesis => Anchored(store', store.ledger)
    BY <1>7 DEF Inv, DiskOK, Anchored
  <2>2. CommitOf[q] # Genesis /\ chain \subseteq store'.db_blocks \cap store'.db_qcs
    BY <1>7
  <2> QED BY <1>5, <1>6, <1>8, <2>1, <2>2 DEF DiskOK
<1>12. running => LedgerOK' /\ Memory(store') /\ SavedOK(store')
  <2>1. running => Root(store') = store'.ledger /\ Memory(store') /\ SavedOK(store)
    BY <1>8, <1>9, Settled
  <2>2. running => need_sync_for_quorum_cert(store', q)
    BY <1>8, <1>9 DEF need_sync_for_quorum_cert
  <2>3. running => LedgerOK'
    BY <1>5, <2>1, <2>2 DEF LedgerOK
  <2>4. running => SavedOK(store')
    BY <1>7, <1>8, <1>9, <2>1 DEF SavedOK
  <2> QED BY <2>1, <2>3, <2>4
<1> QED BY <1>8, <1>10, <1>11, <1>12 DEF Inv

LEMMA SyncsTo ==
    ASSUME Inv, sync_to
    PROVE  Inv' /\ store.ledger \in Ancestors[store'.ledger]
<1> DEFINE c == CommitOf[Cert]
<1>1. /\ pc = "sync_to" /\ CommitRound(Cert) >= Round[store.ledger]
      /\ store' = [store EXCEPT !.ledger = c]
      /\ pc' = "start" /\ certs' = certs /\ running' = running
  BY DEF sync_to, Goto
<1>2. /\ store \in Stores /\ c # Genesis
      /\ {c, Parent[Cert], Cert} \subseteq store.db_blocks \cap store.db_qcs
  BY <1>1 DEF Inv, TypeOK, DiskOK
<1>3. Cert \in Certified /\ certs \in Seq(Certified) /\ certs # <<>>
  BY <1>1, CertFacts DEF Inv
<1>4. c \in Committed /\ c \in Certified
  BY <1>3, CommitFacts
<1>5. /\ store' \in Stores /\ store'.ledger = c
      /\ store'.db_blocks = store.db_blocks /\ store'.db_qcs = store.db_qcs
      /\ store'.id_to_block = store.id_to_block /\ Root(store') = Root(store)
      /\ Memory(store) => Memory(store')
  BY <1>1, <1>2, <1>4, SetLedger
<1>6. store.ledger \in Ancestors[c]
  BY <1>1, <1>2, <1>4, CommittedExtended DEF Stores, CommitRound
<1>7. TypeOK'
  BY <1>1, <1>3, <1>5 DEF Inv, TypeOK, InMemory
<1>8. Anchored(store', c) /\ FindsRoot(store')
  BY <1>2, <1>5 DEF Anchored, FindsRoot
<1>9. DiskOK'
  BY <1>1, <1>5, <1>8 DEF DiskOK
<1>10. running => LedgerOK'
  <2>1. running => need_sync_for_quorum_cert(store, Cert)
    BY <1>1 DEF Inv, LedgerOK
  <2> QED BY <1>1, <1>5, <2>1 DEF LedgerOK, need_sync_for_quorum_cert, CommitRound
<1> QED BY <1>1, <1>5, <1>6, <1>7, <1>9, <1>10 DEF Inv

(* storage.start(), in rebuild and after a crash.                          *)
LEMMA Starts ==
    ASSUME Inv, store' = storage_start(store), running' = running, certs' = certs,
           \/ pc = "start" /\ pc' = IF running THEN "rebuild" ELSE "new"
           \/ pc = "idle" /\ ~running /\ FindsRoot(store) /\ pc' = "new"
    PROVE  Inv' /\ store'.ledger = store.ledger
<1>1. /\ store \in Stores /\ FindsRoot(store)
      /\ store.ledger # Genesis => Anchored(store, store.ledger)
      /\ IsFiniteSet(store.id_to_block) /\ IsFiniteSet(store.db_blocks) /\ IsFiniteSet(store.db_qcs)
  BY DEF Inv, TypeOK, DiskOK
<1>2. /\ store' \in Stores /\ FindsRoot(store')
      /\ store'.ledger # Genesis => Anchored(store', store'.ledger)
      /\ store'.db_blocks \subseteq store.db_blocks /\ store'.db_qcs \subseteq store.db_qcs
      /\ SameMemory(store, store')
  BY <1>1, Start
<1>3. store'.id_to_block = store.id_to_block /\ store'.ledger = store.ledger
  BY <1>2 DEF SameMemory
<1>4. IsFiniteSet(store'.db_blocks) /\ IsFiniteSet(store'.db_qcs)
  BY <1>1, <1>2, FS_Subset
<1>5. TypeOK'
  BY <1>1, <1>2, <1>3, <1>4, Zenon DEF Inv, TypeOK, InMemory
<1>6. DiskOK'
  BY <1>2 DEF DiskOK
<1>7. running => Memory(store') /\ LedgerOK' /\ pc' = "rebuild"
  <2>1. Root(store') = Root(store) /\ (Memory(store) => Memory(store'))
    BY <1>2, OnlyDBDiffers
  <2> QED BY <1>3, <2>1 DEF Inv, LedgerOK
<1> QED BY <1>3, <1>5, <1>6, <1>7 DEF Inv

(* The ledger has jumped ahead of the tree in memory.                      *)
LEMMA AheadOfTree ==
    ASSUME Inv, running, pc \in {"start", "rebuild"}
    PROVE  store.ledger # Genesis /\ \A b \in store.id_to_block : store.ledger \notin Ancestors[b]
<1> DEFINE L == store.ledger
           r == Root(store)
<1>1. /\ store \in Stores /\ Memory(store)
      /\ L \notin store.id_to_block /\ Round[r] < Round[L] /\ L \in Committed
      /\ r \in Committed
  BY Zenon DEF Inv, TypeOK, LedgerOK, Stores, Memory, TreeOK
<1>2. r \in Blocks /\ L \in Blocks /\ L \in Certified /\ Round[r] \in Nat /\ Round[L] \in Nat
  BY <1>1, CommittedExtended, BlockFacts
<1>3. r \in Ancestors[L]
  BY <1>1, <1>2, CommittedExtended
<1>4. L # Genesis
  BY <1>1, <1>2, BlocksAssumption
<1>5. ASSUME NEW b \in store.id_to_block, L \in Ancestors[b] PROVE FALSE
  <2>1. b \in Blocks
    BY <1>1 DEF Stores, BlockSets
  <2>2. r \in Ancestors[b]
    BY <1>3, <1>5, <2>1, ChainParts
  <2>3. b \in Tree(store)
    BY <2>2 DEF Tree, Subtree
  <2> QED BY <1>1, <1>3, <1>5, <2>3 DEF Memory, TreeOK
<1> QED BY <1>4, <1>5

LEMMA Rebuilds ==
    ASSUME Inv, NEW fails \in BOOLEAN, rebuild(fails)
    PROVE  Inv' /\ store'.ledger = store.ledger
<1> DEFINE h == store'.highest_commit_cert
<1>1. /\ pc = "rebuild" /\ store' = Rebuilt(store, fails)
      /\ certs' = <<h>> \o certs /\ pc' = "recommit" /\ running' = running
  BY DEF rebuild
<1>2. /\ running /\ store \in Stores /\ FindsRoot(store)
      /\ IsFiniteSet(store.db_blocks) /\ IsFiniteSet(store.db_qcs)
      /\ store.ledger # Genesis => Anchored(store, store.ledger)
      /\ certs \in Seq(Certified)
  BY <1>1 DEF Inv, TypeOK, InMemory, DiskOK
<1>3. store.ledger # Genesis /\ \A b \in store.id_to_block : store.ledger \notin Ancestors[b]
  BY <1>1, <1>2, AheadOfTree
<1>4. /\ store' \in Stores /\ Memory(store') /\ SavedOK(store') /\ Anchored(store', store'.ledger)
      /\ IsFiniteSet(store'.id_to_block) /\ IsFiniteSet(store'.db_blocks)
      /\ IsFiniteSet(store'.db_qcs)
      /\ store'.ledger = store.ledger /\ store'.root_id = store.ledger
  BY <1>1, <1>2, <1>3, Rebuild
<1>5. h \in Certified
  BY <1>4 DEF Stores
<1>6. certs' \in Seq(Certified) /\ certs' # <<>> /\ Cert' = h
  <2> HIDE DEF h
  <2> QED BY <1>1, <1>2, <1>5 DEF Cert
<1>7. TypeOK'
  BY <1>1, <1>2, <1>4, <1>6 DEF TypeOK, InMemory
<1>8. DiskOK'
  BY <1>1, <1>4 DEF DiskOK
<1>9. LedgerOK'
  <2>1. IsNewCommit(store', h) => h \in store'.id_to_quorum_cert
    BY <1>4 DEF Memory, CertsOK
  <2> QED BY <1>1, <1>4, <1>6, <2>1 DEF LedgerOK, Root
<1> QED BY <1>1, <1>4, <1>7, <1>8, <1>9 DEF Inv

LEMMA Builds ==
    ASSUME Inv, new
    PROVE  Inv' /\ store'.ledger = store.ledger
<1>1. /\ pc = "new" /\ store' = build(store)
      /\ running' = TRUE /\ pc' = "idle" /\ certs' = <<>>
  BY DEF new
<1>2. /\ store \in Stores /\ FindsRoot(store)
      /\ IsFiniteSet(store.db_blocks) /\ IsFiniteSet(store.db_qcs)
      /\ store.ledger # Genesis => Anchored(store, store.ledger)
  BY <1>1 DEF Inv, TypeOK, DiskOK
<1>3. /\ store' \in Stores /\ Memory(store') /\ SavedOK(store')
      /\ IsFiniteSet(store'.id_to_block) /\ IsFiniteSet(store'.db_qcs)
      /\ store'.ledger = store.ledger /\ store'.root_id = store.ledger
      /\ store'.db_blocks = store.db_blocks /\ store.db_qcs \subseteq store'.db_qcs
  BY <1>1, <1>2, Build
<1>4. TypeOK'
  BY <1>1, <1>2, <1>3 DEF TypeOK, InMemory
<1>5. DiskOK'
  BY <1>1, <1>2, <1>3 DEF DiskOK, Anchored
<1>6. LedgerOK'
  BY <1>1, <1>3 DEF LedgerOK, Root
<1> QED BY <1>3, <1>4, <1>5, <1>6 DEF Inv

LEMMA Crashes ==
    ASSUME Inv, crash
    PROVE  Inv' /\ store'.ledger = store.ledger
<1>1. store \in Stores /\ IsFiniteSet(store.db_blocks) /\ IsFiniteSet(store.db_qcs)
      /\ (store.ledger # Genesis => Anchored(store, store.ledger))
  BY DEF Inv, TypeOK, DiskOK
<1>2. /\ store' = Disk(store) /\ running' = FALSE /\ pc' = "idle" /\ certs' = <<>>
  BY DEF crash
<1>3. store'.db_blocks = store.db_blocks /\ store'.db_qcs = store.db_qcs
      /\ store'.ledger = store.ledger /\ store'.id_to_block = {}
  BY <1>1, <1>2 DEF Disk, Stores
<1>4. store' \in Stores
  <2>1. {} \in BlockSets /\ {} \in CertSets /\ Genesis \in Blocks /\ Genesis \in Certified
        /\ <<>> \in BlockSeqs
    BY BlocksAssumption, BlockFacts DEF BlockSets, CertSets, BlockSeqs
  <2> QED BY <1>1, <1>2, <2>1, ZenonT(60) DEF Disk, Stores
<1>5. TypeOK'
  <2>1. IsFiniteSet(store'.id_to_block)
    BY <1>3, FS_EmptySet
  <2>2. certs' \in Seq(Certified)
    BY <1>2
  <2> QED BY <1>1, <1>2, <1>3, <1>4, <2>1, <2>2, Zenon DEF TypeOK, InMemory
<1>6. DiskOK'
  BY <1>1, <1>2, <1>3 DEF DiskOK, Anchored
<1> QED BY <1>2, <1>3, <1>5, <1>6 DEF Inv

LEMMA Initially == Init => Inv
<1> SUFFICES ASSUME Init PROVE Inv
  OBVIOUS
<1>1. /\ store.id_to_block = {Genesis} /\ store.root_id = Genesis
      /\ store.highest_quorum_cert = Genesis /\ store.highest_commit_cert = Genesis
      /\ store.id_to_quorum_cert = {Genesis} /\ store.pruned_block_ids = <<>>
      /\ store.db_blocks = {} /\ store.db_qcs = {Genesis} /\ store.ledger = Genesis
      /\ pc = "idle" /\ certs = <<>> /\ running = TRUE
  BY DEF Init
<1>2. /\ Genesis \in Blocks /\ Genesis \in Certified /\ Genesis \in Committed
      /\ Ancestors[Genesis] = {Genesis} /\ Round[Genesis] = 0
  BY BlocksAssumption, BlockFacts, AncestorsOf, GenesisCommits DEF Committed
<1>3. store \in Stores
  <2>1. /\ {} \in BlockSets /\ {Genesis} \in BlockSets /\ {Genesis} \in CertSets
        /\ <<>> \in BlockSeqs
    BY <1>2 DEF BlockSets, CertSets, BlockSeqs
  <2> QED BY <1>2, <2>1, ZenonT(60) DEF Init, Stores
<1>4. TypeOK
  <2>1. IsFiniteSet({}) /\ IsFiniteSet({Genesis})
    BY FS_EmptySet, FS_Singleton, Zenon
  <2> QED BY <1>1, <1>3, <2>1 DEF TypeOK, InMemory
<1>5. Root(store) = Genesis /\ Tree(store) = {Genesis} /\ Range(store.pruned_block_ids) = {}
  BY <1>1, <1>2 DEF Root, Tree, Subtree, Range
<1>6. Memory(store)
  <2>1. TreeOK(store)
    BY <1>1, <1>2, <1>5 DEF TreeOK
  <2>2. PrunedOK(store)
    BY <1>1, BlocksAssumption DEF PrunedOK, NoRepeats
  <2>3. CertsOK(store)
    BY <1>1, <1>2, <1>5 DEF CertsOK
  <2> QED BY <2>1, <2>2, <2>3 DEF Memory
<1>7. DiskOK /\ LedgerOK /\ SavedOK(store)
  BY <1>1, <1>5 DEF DiskOK, LedgerOK, SavedOK
<1> QED BY <1>4, <1>6, <1>7 DEF Inv

LEMMA LedgerKept ==
    ASSUME NEW s \in Stores
    PROVE  /\ \A b \in Blocks : execute_and_insert_block(s, b).ledger = s.ledger
           /\ \A q \in Certified : insert_single_quorum_cert(s, q).ledger = s.ledger
BY DEF Stores, execute_and_insert_block, insert_block, insert_single_quorum_cert,
       insert_quorum_cert_in_tree, save_tree

Advances == store.ledger \in Ancestors[store'.ledger]

LEMMA CommitStep ==
    ASSUME Inv, commit, store.ledger \in Ancestors[store.ledger]
    PROVE  Inv' /\ Advances
<1>1. pc \in {"commit", "recommit"} /\ running
  BY DEF commit, Inv, TypeOK, InMemory
<1>2. Tail(certs) \in Seq(Certified) /\ <<>> \in Seq(Certified)
  BY <1>1, CertFacts DEF Inv
<1>3. CASE IsNewCommit(store, Cert) /\ CommitOf[Cert] \in store.id_to_block
  <2>1. /\ store' = [store EXCEPT !.ledger = CommitOf[Cert]]
        /\ running' = running /\ certs' = certs /\ pc' = "prune_tree"
    BY <1>3 DEF commit, Goto
  <2> QED BY <1>1, <1>3, <2>1, Commits DEF Advances
<1>4. CASE ~(IsNewCommit(store, Cert) /\ CommitOf[Cert] \in store.id_to_block)
  <2>1. store' = store /\ (NextCert \/ Abort)
    BY <1>4 DEF commit
  <2>2. /\ running' = running /\ certs' \in Seq(Certified)
        /\ \/ pc' = "idle"
           \/ pc' = "insert_quorum_cert" /\ running /\ certs' # <<>>
    BY <1>1, <1>2, <2>1, Zenon DEF NextCert, Abort
  <2> QED BY <1>1, <2>1, <2>2, OnlyControl DEF Advances
<1> QED BY <1>3, <1>4

LEMMA SyncUpStep ==
    ASSUME Inv, NEW si \in SyncInfos, sync_up(si)
    PROVE  Inv' /\ store'.ledger = store.ledger
<1> DEFINE p == si[1]
           q == si[2]
<1>1. p \in Certified /\ q \in Certified /\ si = <<p, q>>
  <2>1. si \in CommitCerts \X Certified
    BY DEF SyncInfos
  <2>2. CommitCerts \subseteq Certified
    BY BlocksAssumption DEF CommitCerts
  <2>3. p \in CommitCerts /\ q \in Certified /\ si = <<p, q>>
    BY <2>1
  <2> QED BY <2>2, <2>3
<1>2. certs' \in Seq(Certified) /\ certs' # <<>> /\ Head(certs') = p /\ si[1] = p
  <2>1. certs' = si
    BY DEF sync_up
  <2>2. p = si[1]
    OBVIOUS
  <2> HIDE DEF p, q
  <2> QED BY <1>1, <2>1, <2>2
<1> HIDE DEF p, q
<1>3. running /\ pc = "idle" /\ running' = running
  BY DEF sync_up
<1>4. CASE need_sync_for_quorum_cert(store, p)
  <2>1. SaveThreeChain(p) /\ pc' = "sync_to"
    BY <1>2, <1>4 DEF sync_up
  <2>2. CommitOf[p] # Genesis
    <3>1. Round[Root(store)] \in Nat
      BY <1>3, Settled, BlockFacts
    <3> QED BY <1>4, <3>1, BlocksAssumption DEF need_sync_for_quorum_cert, CommitRound
  <2> QED BY <1>2, <1>3, <1>4, <2>1, <2>2, SavesChain
<1>5. CASE ~need_sync_for_quorum_cert(store, p)
  <2>1. store' = store /\ pc' = "insert_quorum_cert"
    BY <1>2, <1>5 DEF sync_up
  <2> QED BY <1>2, <1>3, <2>1, OnlyControl
<1> QED BY <1>4, <1>5

LEMMA InsertStep ==
    ASSUME Inv,
           \/ insert_quorum_cert
           \/ \E b \in Blocks \ {Genesis} :
                 process_proposal(b) \/ fetch_quorum_cert(b) \/ insert_fetched(b)
    PROVE  Inv' /\ store'.ledger = store.ledger
<1>1. store \in Stores
  BY DEF Inv, TypeOK
<1>2. CASE insert_quorum_cert
  <2>1. /\ pc = "insert_quorum_cert"
        /\ running' = running /\ certs' = certs /\ pc' = "commit"
    BY <1>2 DEF insert_quorum_cert, Goto
  <2>2. Cert \in Certified
    BY <2>1, CertFacts DEF Inv
  <2>3. CASE NothingToInsert(store, Cert) /\ store' = store
    BY <2>1, <2>3, NothingInserted
  <2>4. CASE Cert \in store.id_to_block /\ store' = insert_single_quorum_cert(store, Cert)
    BY <1>1, <2>1, <2>2, <2>4, InsertSingle, LedgerKept
  <2> QED BY <1>2, <2>3, <2>4 DEF insert_quorum_cert
<1>3. ASSUME NEW b \in Blocks \ {Genesis}, process_proposal(b)
      PROVE  Inv' /\ store'.ledger = store.ledger
  <2>1. /\ running /\ pc = "idle" /\ Executes(store, b)
        /\ store' = execute_and_insert_block(store, b)
        /\ pc' = "idle" /\ running' = running /\ certs' = certs
    BY <1>3 DEF process_proposal
  <2> QED BY <1>1, <2>1, ProcessProposal, LedgerKept
<1>4. ASSUME NEW b \in Blocks \ {Genesis}, fetch_quorum_cert(b)
      PROVE  Inv' /\ store'.ledger = store.ledger
  <2>1. /\ pc = "insert_quorum_cert" /\ Parent[b] \in store.id_to_block
        /\ store' = insert_single_quorum_cert(store, Parent[b])
        /\ pc' = "fetched" /\ running' = running /\ certs' = certs
    BY <1>4 DEF fetch_quorum_cert, NextMissing, Goto
  <2>2. Parent[b] \in Certified
    BY BlockFacts
  <2> QED BY <1>1, <2>1, <2>2, InsertSingle, LedgerKept
<1>5. ASSUME NEW b \in Blocks \ {Genesis}, insert_fetched(b)
      PROVE  Inv' /\ store'.ledger = store.ledger
  <2>1. /\ pc = "fetched" /\ Executes(store, b)
        /\ store' = execute_and_insert_block(store, b)
        /\ pc' = "insert_quorum_cert" /\ running' = running /\ certs' = certs
    BY <1>5 DEF insert_fetched, Goto
  <2>2. running
    BY <2>1 DEF Inv, TypeOK, InMemory
  <2> QED BY <1>1, <2>1, <2>2, ProcessProposal, LedgerKept, ZenonT(30)
<1> QED BY <1>2, <1>3, <1>4, <1>5

(* One case for each action.                                               *)
LEMMA Step ==
    ASSUME Inv, [Next]_vars
    PROVE  Inv' /\ Advances
<1>1. store.ledger \in Ancestors[store.ledger] /\ <<>> \in Seq(Certified)
  <2>1. store \in Stores
    BY Zenon DEF Inv, TypeOK
  <2>2. store.ledger \in Committed
    BY <2>1 DEF Stores
  <2>3. <<>> \in Seq(Certified)
    OBVIOUS
  <2> QED BY <2>2, <2>3, CommittedExtended, ChainFacts
<1>2. CASE UNCHANGED vars
  <2>1. Inv'
    BY <1>2, Zenon DEF vars, Inv, TypeOK, DiskOK, LedgerOK, Cert
  <2> QED BY <1>1, <1>2, <2>1 DEF vars, Advances
<1>3. CASE \/ insert_quorum_cert
           \/ \E b \in Blocks \ {Genesis} :
                 process_proposal(b) \/ fetch_quorum_cert(b) \/ insert_fetched(b)
  BY <1>1, <1>3, InsertStep DEF Advances
<1>4. CASE commit
  BY <1>1, <1>4, CommitStep
<1>5. CASE sync_to
  BY <1>5, SyncsTo DEF Advances
<1>6. CASE start
  <2>1. /\ store' = storage_start(store) /\ running' = running /\ certs' = certs
        /\ pc = "start" /\ pc' = IF running THEN "rebuild" ELSE "new"
    BY <1>6 DEF start, Goto
  <2> QED BY <1>1, <2>1, Starts DEF Advances
<1>7. CASE restart
  <2>1. /\ store' = storage_start(store) /\ running' = running /\ certs' = certs
        /\ pc = "idle" /\ ~running /\ FindsRoot(store) /\ pc' = "new"
    BY <1>7 DEF restart, Goto
  <2> QED BY <1>1, <2>1, Starts DEF Advances
<1>8. CASE new
  BY <1>1, <1>8, Builds DEF Advances
<1>9. CASE fail
  <2>1. /\ pc \notin {"prune_tree", "start", "rebuild", "new"}
        /\ store' = store /\ running' = running /\ certs' = <<>> /\ pc' = "idle"
    BY <1>9 DEF fail, Abort
  <2> QED BY <1>1, <2>1, OnlyControl DEF Advances
<1>10. CASE crash
  BY <1>1, <1>10, Crashes DEF Advances
<1>11. ASSUME NEW fails \in BOOLEAN, prune_tree(fails) PROVE Inv' /\ Advances
  BY <1>1, <1>11, Prunes DEF Advances
<1>12. ASSUME NEW fails \in BOOLEAN, rebuild(fails) PROVE Inv' /\ Advances
  BY <1>1, <1>12, Rebuilds DEF Advances
<1>13. ASSUME NEW q \in Certified, new_qc_aggregated(q) PROVE Inv' /\ Advances
  <2>1. /\ pc = "idle" /\ running /\ store' = store /\ running' = running
        /\ certs' = <<q>> /\ pc' = "insert_quorum_cert"
    BY <1>13 DEF new_qc_aggregated
  <2> QED BY <1>1, <2>1, OnlyControl DEF Advances
<1>14. ASSUME NEW q \in Certified, recover(q) PROVE Inv' /\ Advances
  <2>1. /\ pc = "idle" /\ ~running /\ running' = running /\ CommitOf[q] # Genesis
        /\ SaveThreeChain(q) /\ pc' = "sync_to" /\ certs' = <<q>>
    BY <1>14 DEF recover
  <2> QED BY <1>1, <2>1, SavesChain DEF Advances
<1>15. ASSUME NEW si \in SyncInfos, sync_up(si) PROVE Inv' /\ Advances
  BY <1>1, <1>15, SyncUpStep DEF Advances
<1> QED
  BY <1>2, <1>3, <1>4, <1>5, <1>6, <1>7, <1>8, <1>9, <1>10, <1>11, <1>12, <1>13, <1>14, <1>15
  DEF Next

(* The inductive invariant holds in every state.                           *)
THEOREM Invariance == Spec => []Inv
<1>1. Init => Inv
  BY Initially
<1>2. Inv /\ [Next]_vars => Inv'
  BY Step
<1> QED BY <1>1, <1>2, PTL DEF Spec

----------------------------------------------------------------------------
(* The properties of module BlockStore                                     *)

(* The DB has the block of the latest ledger info and a QC that commits    *)
(* it, wherever a handler is cut off; after state sync it has all that     *)
(* find_root needs.                                                        *)
THEOREM RootAlwaysOnDisk == Spec => []RootOnDisk
<1>1. Inv => RootOnDisk
  BY DEF Inv, DiskOK, Anchored, RootOnDisk
<1> QED BY <1>1, Invariance, PTL

(* The tree in memory is that of the root, with no more pruned blocks than *)
(* max_pruned_blocks_in_mem, and the highest certified block is in it.     *)
THEOREM MemoryAlwaysBounded == Spec => []MemoryBounded
<1>1. Inv => MemoryBounded
  BY DEF Inv, Memory, TreeOK, PrunedOK, CertsOK, MemoryBounded
<1> QED BY <1>1, Invariance, PTL

(* No commit, jump or restart takes the ledger to another branch, or back. *)
THEOREM LedgerAlwaysExtends == Spec => LedgerExtends
<1>1. Inv /\ [Next]_vars => [store.ledger \in Ancestors[store'.ledger]]_vars
  BY Step DEF Advances
<1> QED BY <1>1, Invariance, PTL DEF Spec, LedgerExtends

=============================================================================
