------------------------ MODULE BlockRecoveryProofs ------------------------
(***************************************************************************)
(* What can be recovered from a block store, in every state that module    *)
(* BlockStore reaches: the validator's own tree, by a restart, and what    *)
(* the validator announces to its peers, by a peer that lags behind.       *)
(***************************************************************************)
EXTENDS BlockStoreProofs

(* More time for a step than the provers take by default.                  *)
USE SMTT(20), ZenonT(20)

----------------------------------------------------------------------------
(* A restart                                                               *)

(* The root is on the chain of the ledger.                                 *)
LEMMA RootBelowLedger ==
    ASSUME Inv, running
    PROVE  /\ Root(store) \in Ancestors[store.ledger] /\ Round[Root(store)] <= Round[store.ledger]
           /\ Root(store) \in Blocks /\ store.ledger \in Blocks
           /\ Round[Root(store)] \in Nat /\ Round[store.ledger] \in Nat
<1> DEFINE L == store.ledger
           r == Root(store)
<1>1. r \in Committed /\ L \in Committed
  BY DEF Inv, TypeOK, Stores, Memory, TreeOK
<1>2. r \in Blocks /\ L \in Blocks /\ L \in Certified /\ Round[r] \in Nat /\ Round[L] \in Nat
  BY <1>1, CommittedExtended, BlockFacts
<1>3. Round[r] <= Round[L]
  <2>1. pc \notin {"prune_tree", "start", "rebuild"} => r = L
    BY DEF Inv, LedgerOK
  <2>2. pc \in {"prune_tree", "start", "rebuild"} => Round[r] < Round[L]
    BY DEF Inv, LedgerOK, IsNewCommit, CommitRound
  <2> QED BY <1>2, <2>1, <2>2
<1>4. r \in Ancestors[L]
  BY <1>1, <1>2, <1>3, CommittedExtended
<1> QED BY <1>2, <1>3, <1>4

(* The part of the tree that extends the latest commit is on disk, without *)
(* gaps.                                                                   *)
LEMMA CommitsTreeOnDisk ==
    ASSUME Inv, running
    PROVE  /\ Subtree(store, store.ledger) \subseteq RecoveredTree(store)
           /\ Subtree(store, store.ledger) \cap store.id_to_quorum_cert \subseteq store.db_qcs
<1> DEFINE L == store.ledger
           r == Root(store)
<1>1. store \in Stores /\ TreeOK(store)
  BY DEF Inv, TypeOK, Memory
<1>2. CASE pc \in {"start", "rebuild"}
  BY <1>2, AheadOfTree DEF Subtree
<1>3. CASE pc \notin {"start", "rebuild"}
  <2>1. SavedOK(store)
    BY <1>3 DEF Inv
  <2>2. r \in Ancestors[L] /\ L \in Blocks
    BY RootBelowLedger
  <2>3. ASSUME NEW x \in Subtree(store, L) PROVE x \in Tree(store) /\ x \in RecoveredTree(store)
    <3>1. x \in store.id_to_block /\ L \in Ancestors[x] /\ x \in Blocks
      BY <1>1 DEF Subtree, Stores, BlockSets
    <3>2. r \in Ancestors[x]
      BY <2>2, <3>1, ChainParts
    <3>3. x \in Tree(store)
      BY <3>1, <3>2 DEF Tree, Subtree
    <3>4. ASSUME NEW a \in Ancestors[x], L \in Ancestors[a], a # Genesis
          PROVE  a \in store.db_blocks
      <4>1. a \in Blocks
        BY <3>1, ChainFacts
      <4>2. r \in Ancestors[a]
        BY <2>2, <3>4, <4>1, ChainParts
      <4>3. a \in Tree(store)
        BY <1>1, <3>3, <4>2 DEF TreeOK, Tree, Subtree
      <4> QED BY <2>1, <3>4, <4>3 DEF SavedOK
    <3>5. \A a \in Ancestors[x] \ Ancestors[L] : a \in store.db_blocks
      <4>1. \A a \in Ancestors[x] \ Ancestors[L] : L \in Ancestors[a]
        BY <3>1, ChainParts
      <4>2. Genesis \in Ancestors[L]
        BY <2>2, ChainFacts
      <4> QED BY <3>4, <4>1, <4>2
    <3>6. CASE x = Genesis
      <4>1. x = L
        BY <3>1, <3>6, AncestorsOf
      <4> QED BY <3>3, <4>1 DEF RecoveredTree
    <3>7. CASE x # Genesis
      <4>1. x \in store.db_blocks
        BY <3>1, <3>4, <3>7, ChainFacts
      <4> QED BY <3>1, <3>3, <3>5, <4>1 DEF RecoveredTree, Connected
    <3> QED BY <3>6, <3>7
  <2> QED BY <2>1, <2>3 DEF SavedOK
<1> QED BY <1>2, <1>3

(* What a restart would build.                                             *)
LEMMA RestartBuilds ==
    ASSUME Inv, FindsRoot(store), NEW s, s = Restarted(store)
    PROVE  /\ Root(s) = store.ledger /\ Tree(s) = RecoveredTree(store)
           /\ s.highest_quorum_cert \in Certified /\ s.highest_commit_cert \in Certified
           /\ Round[store.ledger] <= Round[s.highest_quorum_cert]
           /\ Round[store.ledger] <= CommitRound(s.highest_commit_cert)
           /\ \A q \in store.db_qcs \cap RecoveredTree(store) :
                 /\ Round[q] <= Round[s.highest_quorum_cert]
                 /\ CommitRound(q) <= CommitRound(s.highest_commit_cert)
<1> DEFINE t == storage_start(store)
<1>1. /\ store \in Stores /\ IsFiniteSet(store.db_blocks) /\ IsFiniteSet(store.db_qcs)
      /\ store.ledger # Genesis => Anchored(store, store.ledger)
  BY Zenon DEF Inv, TypeOK, DiskOK
<1>2. s = build(t)
  BY DEF Restarted
<1>3. t = storage_start(store)
  OBVIOUS
<1> HIDE DEF t
<1>4. /\ t \in Stores /\ FindsRoot(t)
      /\ t.db_blocks \subseteq store.db_blocks /\ t.db_qcs \subseteq store.db_qcs
      /\ RecoveredTree(t) = RecoveredTree(store)
      /\ store.db_qcs \cap RecoveredTree(store) \subseteq t.db_qcs
      /\ SameMemory(store, t)
  BY <1>1, <1>3, Start
<1>5. t.ledger = store.ledger /\ IsFiniteSet(t.db_blocks) /\ IsFiniteSet(t.db_qcs)
  BY <1>1, <1>4, FS_Subset, ZenonT(30) DEF SameMemory
<1>6. /\ s \in Stores /\ Memory(s) /\ s.root_id = t.ledger /\ Tree(s) = RecoveredTree(t)
      /\ s.id_to_quorum_cert = (t.db_qcs \cap RecoveredTree(t)) \cup {t.ledger}
      /\ Round[t.ledger] <= CommitRound(s.highest_commit_cert)
      /\ \A q \in s.id_to_quorum_cert : CommitRound(q) <= CommitRound(s.highest_commit_cert)
  BY <1>2, <1>4, <1>5, Build, ZenonT(30)
<1>7. /\ \A q \in s.id_to_quorum_cert : Round[q] <= Round[s.highest_quorum_cert]
      /\ s.highest_quorum_cert \in Certified /\ s.highest_commit_cert \in Certified
  BY <1>6, ZenonT(30) DEF Memory, CertsOK, Stores
<1>8. store.db_qcs \cap RecoveredTree(store) \subseteq s.id_to_quorum_cert
      /\ store.ledger \in s.id_to_quorum_cert
  BY <1>4, <1>5, <1>6
<1> QED BY <1>4, <1>5, <1>6, <1>7, <1>8, ZenonT(30) DEF Root

(* Nothing that extends the latest commit is lost in a crash, and neither  *)
(* certificate moves back: whatever the memory holds beyond the ledger is  *)
(* on disk, connected to it.                                               *)
THEOREM RestartAlwaysKeepsTree == Spec => []RestartKeepsTree
<1>1. ASSUME Inv, running, FindsRoot(store), NEW s, s = Restarted(store)
      PROVE  /\ pc = "idle" => Root(s) = Root(store)
             /\ Subtree(store, Root(s)) \subseteq Tree(s)
             /\ Round[s.highest_quorum_cert] >= Round[store.highest_quorum_cert]
             /\ CommitRound(s.highest_commit_cert) >= CommitRound(store.highest_commit_cert)
  <2> DEFINE L == store.ledger
             r == Root(store)
             hqc == store.highest_quorum_cert
             hcc == store.highest_commit_cert
  <2>1. /\ Root(s) = L /\ Tree(s) = RecoveredTree(store)
        /\ s.highest_quorum_cert \in Certified /\ s.highest_commit_cert \in Certified
        /\ Round[L] <= Round[s.highest_quorum_cert]
        /\ Round[L] <= CommitRound(s.highest_commit_cert)
        /\ \A q \in store.db_qcs \cap RecoveredTree(store) :
              /\ Round[q] <= Round[s.highest_quorum_cert]
              /\ CommitRound(q) <= CommitRound(s.highest_commit_cert)
    BY <1>1, RestartBuilds
  <2>2. /\ Subtree(store, L) \subseteq RecoveredTree(store)
        /\ Subtree(store, L) \cap store.id_to_quorum_cert \subseteq store.db_qcs
    BY <1>1, CommitsTreeOnDisk
  <2>3. /\ store \in Stores /\ CertsOK(store) /\ hqc \in Certified /\ hcc \in Certified
        /\ L \in Committed
    BY <1>1 DEF Inv, TypeOK, Memory, Stores
  <2>4. /\ Round[r] <= Round[L] /\ Round[r] \in Nat /\ Round[L] \in Nat
    BY <1>1, RootBelowLedger
  <2>5. ASSUME NEW q \in store.id_to_quorum_cert, Round[q] >= Round[L]
        PROVE  q \in store.db_qcs \cap RecoveredTree(store)
    <3>1. q \in Certified /\ q \in store.id_to_block
      BY <2>3 DEF CertsOK, Stores, CertSets
    <3>2. L \in Ancestors[q]
      BY <2>3, <2>5, <3>1, CommittedExtended
    <3>3. q \in Subtree(store, L)
      BY <3>1, <3>2 DEF Subtree
    <3> QED BY <2>2, <3>3
  <2>6. /\ Round[hqc] \in Nat /\ Round[s.highest_quorum_cert] \in Nat
        /\ CommitRound(hcc) \in Nat /\ CommitRound(s.highest_commit_cert) \in Nat
        /\ Round[hcc] \in Nat /\ CommitRound(hcc) <= Round[hcc]
    BY <2>1, <2>3, CommitFacts, BlockFacts, ZenonT(30) DEF CommitRound
  <2>7. Round[s.highest_quorum_cert] >= Round[hqc]
    <3>1. hqc \in store.id_to_quorum_cert
      BY <2>3 DEF CertsOK
    <3> QED BY <2>1, <2>4, <2>5, <2>6, <3>1
  <2>8. CommitRound(s.highest_commit_cert) >= CommitRound(hcc)
    <3>1. CASE CommitRound(hcc) <= Round[L]
      BY <2>1, <2>4, <2>6, <3>1
    <3>2. CASE CommitRound(hcc) > Round[L]
      <4>1. IsNewCommit(store, hcc) /\ Round[hcc] >= Round[L]
        BY <2>4, <2>6, <3>2 DEF IsNewCommit
      <4>2. hcc \in store.id_to_quorum_cert
        BY <2>3, <4>1 DEF CertsOK
      <4> QED BY <2>1, <2>5, <4>1, <4>2
    <3> QED BY <2>4, <2>6, <3>1, <3>2
  <2>9. pc = "idle" => r = L
    BY <1>1, Settled
  <2> QED BY <2>1, <2>2, <2>7, <2>8, <2>9
<1>2. Inv => RestartKeepsTree
  BY <1>1 DEF RestartKeepsTree
<1> QED BY <1>2, Invariance, PTL

----------------------------------------------------------------------------
(* What a validator announces                                              *)

(* The highest commit certificate commits at least the root and whatever   *)
(* another certificate in memory commits, and its 3-chain is in the tree.  *)
ServedOK(s) ==
    LET hcc == s.highest_commit_cert
    IN  /\ hcc \in CommitCerts /\ Round[hcc] <= Round[s.highest_quorum_cert]
        /\ Round[Root(s)] <= CommitRound(hcc)
        /\ \A q \in s.id_to_quorum_cert : CommitRound(q) <= CommitRound(hcc)
        /\ hcc # Genesis => {CommitOf[hcc], Parent[hcc], hcc} \subseteq Tree(s)

(* The tree keeps its root and its blocks, and no certificate is new.      *)
Grows(s, t) ==
    /\ t.root_id = s.root_id /\ s.id_to_block \subseteq t.id_to_block
    /\ t.id_to_quorum_cert = s.id_to_quorum_cert
    /\ t.highest_quorum_cert = s.highest_quorum_cert
    /\ t.highest_commit_cert = s.highest_commit_cert

LEMMA GrowsBy ==
    ASSUME NEW s \in Stores
    PROVE  /\ Grows(s, s)
           /\ \A b \in Blocks : Grows(s, execute_and_insert_block(s, b))
           /\ \A b \in Committed : Grows(s, [s EXCEPT !.ledger = b])
           /\ \A B, C : Grows(s, save_tree(s, B, C))
           /\ \A ids : Grows(s, DeleteFromDB(s, ids))
<1>1. Grows(s, s)
  BY DEF Grows
<1>2. \A b \in Blocks : Grows(s, execute_and_insert_block(s, b))
  BY DEF Grows, execute_and_insert_block, insert_block, save_tree, Stores
<1>3. \A b \in Committed : Grows(s, [s EXCEPT !.ledger = b])
  BY DEF Grows, Stores
<1>4. \A B, C : Grows(s, save_tree(s, B, C))
  BY DEF Grows, save_tree, Stores
<1>5. \A ids : Grows(s, DeleteFromDB(s, ids))
  BY DEF Grows, DeleteFromDB, Stores
<1> QED BY <1>1, <1>2, <1>3, <1>4, <1>5, Zenon

LEMMA ServedMore ==
    ASSUME NEW s, ServedOK(s), NEW t, Grows(s, t)
    PROVE  ServedOK(t)
<1>1. Root(t) = Root(s) /\ Tree(s) \subseteq Tree(t)
  BY DEF Root, Tree, Subtree, Grows
<1> QED BY <1>1, Zenon DEF ServedOK, Grows

(* A certificate that is inserted becomes the highest commit certificate   *)
(* only when it commits something new, and then its 3-chain is in the tree. *)
LEMMA ServedInsert ==
    ASSUME NEW s \in Stores, Memory(s), SavedOK(s), ServedOK(s),
           NEW q \in Certified \cap s.id_to_block,
           NEW t, t = insert_single_quorum_cert(s, q)
    PROVE  ServedOK(t)
<1>1. /\ t \in Stores /\ Memory(t) /\ SavedOK(t)
      /\ Root(t) = Root(s) /\ Tree(t) = Tree(s)
      /\ t.id_to_quorum_cert = s.id_to_quorum_cert \cup {q}
  BY InsertCert DEF Root, Tree, Subtree
<1>2. /\ t.highest_quorum_cert =
            IF Round[q] > Round[s.highest_quorum_cert] THEN q ELSE s.highest_quorum_cert
      /\ t.highest_commit_cert =
            IF CommitRound(s.highest_commit_cert) < CommitRound(q) THEN q ELSE s.highest_commit_cert
  BY DEF insert_single_quorum_cert, insert_quorum_cert_in_tree, save_tree, Stores
<1>3. /\ Root(s) \in Blocks /\ s.highest_quorum_cert \in Certified /\ s.highest_commit_cert \in Certified
      /\ s.id_to_quorum_cert \subseteq Certified
  BY DEF Stores, Root, CertSets
<1>4. \A c \in Certified : Round[c] \in Nat /\ CommitRound(c) \in Nat
  BY BlockFacts, CommitFacts DEF CommitRound
<1>5. Round[Root(s)] \in Nat
  BY <1>3, BlockFacts
<1>6. CASE CommitRound(s.highest_commit_cert) < CommitRound(q)
  <2>1. t.highest_commit_cert = q /\ IsNewCommit(t, q) /\ q \in t.id_to_quorum_cert
    BY <1>1, <1>2, <1>3, <1>4, <1>5, <1>6 DEF IsNewCommit, ServedOK
  <2>2. CommitOf[q] # Genesis /\ {CommitOf[q], Parent[q], q} \subseteq Tree(t)
    BY <1>1, <2>1, NewCommit, Zenon
  <2>3. Round[q] <= Round[t.highest_quorum_cert] /\ Round[Root(t)] <= CommitRound(q)
    BY <1>1, <1>2, <1>3, <1>4, <1>5, <2>1 DEF IsNewCommit
  <2>4. \A c \in t.id_to_quorum_cert : CommitRound(c) <= CommitRound(q)
    BY <1>1, <1>3, <1>4, <1>6 DEF ServedOK
  <2> QED BY <2>1, <2>2, <2>3, <2>4 DEF ServedOK, CommitCerts
<1>7. CASE ~(CommitRound(s.highest_commit_cert) < CommitRound(q))
  <2>1. t.highest_commit_cert = s.highest_commit_cert
    BY <1>2, <1>7
  <2>2. Round[s.highest_commit_cert] <= Round[t.highest_quorum_cert]
    BY <1>2, <1>3, <1>4 DEF ServedOK
  <2>3. \A c \in t.id_to_quorum_cert : CommitRound(c) <= CommitRound(s.highest_commit_cert)
    BY <1>1, <1>3, <1>4, <1>7 DEF ServedOK
  <2> QED BY <1>1, <2>1, <2>2, <2>3 DEF ServedOK
<1> QED BY <1>6, <1>7

(* prune_tree keeps the 3-chain: it is not below the next root.            *)
LEMMA ServedPrune ==
    ASSUME NEW s \in Stores, ServedOK(s),
           NEW b \in Committed, Round[b] <= CommitRound(s.highest_commit_cert),
           NEW t, t.root_id = b, Tree(t) = Subtree(s, b),
           t.id_to_quorum_cert \subseteq s.id_to_quorum_cert,
           t.highest_quorum_cert = s.highest_quorum_cert,
           t.highest_commit_cert = s.highest_commit_cert
    PROVE  ServedOK(t)
<1> DEFINE hcc == s.highest_commit_cert
<1>1. hcc \in Certified /\ b \in Blocks
  BY CommittedExtended DEF Stores
<1>2. ASSUME hcc # Genesis
      PROVE  {CommitOf[hcc], Parent[hcc], hcc} \subseteq Tree(t)
  <2>1. CommitOf[hcc] # Genesis /\ {CommitOf[hcc], Parent[hcc], hcc} \subseteq s.id_to_block
    BY <1>2 DEF ServedOK, CommitCerts, Tree, Subtree
  <2>2. b \in Ancestors[CommitOf[hcc]]
    BY <1>1, CommitFacts, CommittedExtended DEF CommitRound
  <2>3. b \in Ancestors[hcc] /\ b \in Ancestors[Parent[hcc]]
    <3>1. /\ hcc \in Blocks /\ Parent[hcc] \in Blocks /\ CommitOf[hcc] \in Ancestors[hcc]
          /\ CommitOf[hcc] \in Ancestors[Parent[hcc]]
      BY <1>1, <1>2, <2>1, CommitFacts, BlockFacts
    <3> QED BY <2>2, <3>1, ChainParts
  <2> QED BY <2>1, <2>2, <2>3 DEF Subtree
<1> QED BY <1>2 DEF ServedOK, Root

(* Two certificates that commit a block, other than the genesis block, are *)
(* for the same round, hence the same.                                     *)
LEMMA OneCommitCert ==
    ASSUME NEW p \in Certified, NEW q \in Certified, CommitOf[p] = CommitOf[q],
           CommitOf[p] # Genesis
    PROVE  p = q
<1>1. \A c \in Blocks : CommitOf[c] # Genesis =>
          /\ c # Genesis /\ Parent[c] # Genesis /\ CommitOf[c] = Parent[Parent[c]]
          /\ Round[c] = Round[Parent[c]] + 1 /\ Round[Parent[c]] = Round[Parent[Parent[c]]] + 1
  BY DEF CommitOf
<1>2. Round[p] = Round[q]
  BY <1>1, BlockFacts
<1> QED BY <1>2, AgreementAssumption

(* A tree that is built from the disk has the 3-chain that commits its     *)
(* root, which is anchored there.                                          *)
LEMMA ServedBuild ==
    ASSUME NEW s \in Stores, FindsRoot(s), IsFiniteSet(s.db_blocks), IsFiniteSet(s.db_qcs),
           s.ledger # Genesis => Anchored(s, s.ledger), NEW t, t = build(s)
    PROVE  ServedOK(t)
<1> DEFINE hcc == t.highest_commit_cert
<1>1. /\ t \in Stores /\ Memory(t) /\ SavedOK(t) /\ Root(t) = s.ledger
      /\ Tree(t) = RecoveredTree(s)
      /\ t.id_to_quorum_cert = (s.db_qcs \cap RecoveredTree(s)) \cup {s.ledger}
      /\ Round[s.ledger] <= CommitRound(hcc)
      /\ \A q \in t.id_to_quorum_cert : CommitRound(q) <= CommitRound(hcc)
      /\ \/ hcc \in t.id_to_quorum_cert /\ Round[s.ledger] < CommitRound(hcc)
         \/ CommitOf[hcc] = s.ledger /\ (s.ledger = Genesis => hcc = Genesis)
  BY Build DEF Root
<1>2. hcc \in Certified /\ \A q \in t.id_to_quorum_cert : Round[q] <= Round[t.highest_quorum_cert]
  BY <1>1 DEF Stores, Memory, CertsOK
<1>3. ASSUME CommitOf[hcc] # Genesis, {CommitOf[hcc], Parent[hcc], hcc} \subseteq Tree(t),
             hcc \in t.id_to_quorum_cert
      PROVE  ServedOK(t)
  BY <1>1, <1>2, <1>3 DEF ServedOK, CommitCerts
<1>4. CASE hcc \in t.id_to_quorum_cert /\ Round[s.ledger] < CommitRound(hcc)
  <2>1. IsNewCommit(t, hcc)
    BY <1>1, <1>4 DEF IsNewCommit
  <2> QED BY <1>1, <1>3, <1>4, <2>1, NewCommit
<1>5. CASE CommitOf[hcc] = s.ledger /\ s.ledger = Genesis /\ hcc = Genesis
  <2>1. s.ledger \in t.id_to_quorum_cert
    BY <1>1
  <2> QED BY <1>1, <1>2, <1>5, <2>1 DEF ServedOK, CommitCerts
<1>6. CASE CommitOf[hcc] = s.ledger /\ s.ledger # Genesis
  <2>1. PICK q \in s.db_qcs : CommitOf[q] = s.ledger /\ {q, Parent[q]} \subseteq s.db_blocks
    BY <1>6 DEF Anchored
  <2>2. q \in Certified
    BY DEF Stores, CertSets
  <2>3. q = hcc
    BY <1>2, <1>6, <2>1, <2>2, OneCommitCert
  <2>4. {hcc, Parent[hcc]} \subseteq RecoveredTree(s)
    BY <1>6, <2>1, <2>2, <2>3, AnchorRecovered
  <2>5. CommitOf[hcc] \in RecoveredTree(s)
    BY <1>6 DEF RecoveredTree
  <2> QED BY <1>1, <1>3, <1>6, <2>3, <2>4, <2>5
<1> QED BY <1>1, <1>4, <1>5, <1>6

(* rebuild, whose deletions touch the disk only.                           *)
LEMMA ServedRebuild ==
    ASSUME Inv, NEW fails \in BOOLEAN, rebuild(fails)
    PROVE  ServedOK(store')
<1>1. pc = "rebuild" /\ store' = Rebuilt(store, fails)
  BY DEF rebuild
<1>2. /\ store \in Stores /\ FindsRoot(store) /\ IsFiniteSet(store.db_blocks)
      /\ IsFiniteSet(store.db_qcs) /\ (store.ledger # Genesis => Anchored(store, store.ledger))
  BY <1>1 DEF Inv, TypeOK, DiskOK
<1>3. ServedOK(build(store)) /\ build(store) \in Stores
  BY <1>2, ServedBuild, Build
<1>4. store' \in {build(store), DeleteFromDB(build(store), store.id_to_block)}
  BY <1>1 DEF Rebuilt
<1>5. Grows(build(store), store')
  BY <1>3, <1>4, GrowsBy
<1> QED BY <1>3, <1>5, ServedMore

LEMMA ServedInsertStep ==
    ASSUME Inv, running, ServedOK(store), pc \in {"idle", "insert_quorum_cert", "fetched"},
           \/ insert_quorum_cert
           \/ \E b \in Blocks \ {Genesis} :
                 process_proposal(b) \/ fetch_quorum_cert(b) \/ insert_fetched(b)
    PROVE  ServedOK(store')
<1>1. store \in Stores /\ Memory(store) /\ SavedOK(store)
  BY Settled
<1>2. ASSUME NEW q \in Certified, q \in store.id_to_block,
             store' = insert_single_quorum_cert(store, q)
      PROVE  ServedOK(store')
  BY <1>1, <1>2, ServedInsert
<1>3. ASSUME NEW b \in Blocks, store' = execute_and_insert_block(store, b)
      PROVE  ServedOK(store')
  BY <1>1, <1>3, GrowsBy, ServedMore
<1>4. CASE insert_quorum_cert
  <2>1. Cert \in Certified
    BY <1>4, CertFacts DEF Inv, insert_quorum_cert
  <2> QED BY <1>2, <1>4, <2>1 DEF insert_quorum_cert
<1>5. ASSUME NEW b \in Blocks \ {Genesis}, fetch_quorum_cert(b) PROVE ServedOK(store')
  BY <1>2, <1>5, BlockFacts DEF fetch_quorum_cert, NextMissing
<1>6. ASSUME NEW b \in Blocks \ {Genesis}, process_proposal(b) \/ insert_fetched(b)
      PROVE  ServedOK(store')
  BY <1>3, <1>6, Zenon DEF process_proposal, insert_fetched
<1> QED BY <1>4, <1>5, <1>6

(* One case for each action that can leave a tree in memory.               *)
LEMMA ServedStep ==
    ASSUME Inv, running => ServedOK(store), [Next]_vars, running'
    PROVE  ServedOK(store')
<1>1. store \in Stores
  BY DEF Inv, TypeOK
<1>2. CASE new
  <2>1. pc = "new" /\ store' = build(store)
    BY <1>2 DEF new
  <2>2. /\ FindsRoot(store) /\ IsFiniteSet(store.db_blocks) /\ IsFiniteSet(store.db_qcs)
        /\ store.ledger # Genesis => Anchored(store, store.ledger)
    BY <2>1 DEF Inv, TypeOK, DiskOK
  <2> QED BY <1>1, <2>1, <2>2, ServedBuild
<1>3. ASSUME NEW fails \in BOOLEAN, rebuild(fails) PROVE ServedOK(store')
  BY <1>3, ServedRebuild
<1>4. ASSUME NEW fails \in BOOLEAN, prune_tree(fails) PROVE ServedOK(store')
  <2>1. running
    BY <1>4 DEF prune_tree, NextCert
  <2>2. /\ Cert \in store.id_to_quorum_cert /\ CommitOf[Cert] \in Committed
        /\ store'.root_id = CommitOf[Cert] /\ Tree(store') = Subtree(store, CommitOf[Cert])
        /\ store'.id_to_quorum_cert \subseteq store.id_to_quorum_cert
        /\ store'.highest_quorum_cert = store.highest_quorum_cert
        /\ store'.highest_commit_cert = store.highest_commit_cert
    BY <1>4, Prunes
  <2>3. Round[CommitOf[Cert]] <= CommitRound(store.highest_commit_cert)
    BY <2>1, <2>2 DEF ServedOK, CommitRound
  <2> QED BY <1>1, <2>1, <2>2, <2>3, ServedPrune
<1>5. CASE \/ insert_quorum_cert
           \/ \E b \in Blocks \ {Genesis} :
                 process_proposal(b) \/ fetch_quorum_cert(b) \/ insert_fetched(b)
  <2>1. running /\ pc \in {"idle", "insert_quorum_cert", "fetched"}
    BY <1>5, Zenon DEF insert_quorum_cert, process_proposal, fetch_quorum_cert, insert_fetched, Goto
  <2> QED BY <1>5, <2>1, ServedInsertStep
<1>6. ASSUME running, Grows(store, store') PROVE ServedOK(store')
  BY <1>6, ServedMore
<1>7. ASSUME running, store' = store PROVE ServedOK(store')
  BY <1>7
<1>8. CASE commit \/ sync_to
  <2>1. running /\ CommitOf[Cert] \in Committed
    BY <1>8, CertFacts, CommitFacts, Zenon DEF commit, sync_to, Goto, NextCert, Abort, Inv
  <2>2. store' \in {store, [store EXCEPT !.ledger = CommitOf[Cert]]}
    BY <1>8 DEF commit, sync_to
  <2> QED BY <1>1, <1>6, <2>1, <2>2, GrowsBy
<1>9. CASE start \/ restart
  <2>1. running /\ store' = storage_start(store)
    BY <1>9 DEF start, restart, Goto
  <2> QED BY <1>1, <1>6, <2>1, GrowsBy DEF storage_start
<1>10. CASE fail \/ \E q \in Certified : new_qc_aggregated(q)
  <2>1. running /\ store' = store
    BY <1>10, Zenon DEF fail, Abort, new_qc_aggregated
  <2> QED BY <1>7, <2>1
<1>11. ASSUME NEW si \in SyncInfos, sync_up(si) PROVE ServedOK(store')
  <2>1. running /\ (SaveThreeChain(si[1]) \/ store' = store)
    BY <1>11 DEF sync_up
  <2> QED BY <1>1, <1>6, <1>7, <2>1, GrowsBy DEF SaveThreeChain
<1>12. CASE \E q \in Certified : recover(q)
  BY <1>12 DEF recover
<1>13. CASE crash
  BY <1>13 DEF crash
<1>14. CASE UNCHANGED vars
  BY <1>7, <1>14 DEF vars
<1> QED
  BY <1>2, <1>3, <1>4, <1>5, <1>8, <1>9, <1>10, <1>11, <1>12, <1>13, <1>14 DEF Next

(* A SyncInfo passes SyncInfo::verify at every peer, and the blocks that a *)
(* peer asks for when it jumps to its commit are there.                    *)
THEOREM SyncInfoAlwaysServed == Spec => []SyncInfoServed
<1> DEFINE Served == running => ServedOK(store)
<1>1. Init => Served
  <2>1. Round[Genesis] = 0 /\ CommitRound(Genesis) = 0
    BY BlocksAssumption, GenesisCommits DEF CommitRound
  <2> QED BY <2>1 DEF Init, ServedOK, CommitCerts, Root
<1>2. Inv /\ Served /\ [Next]_vars => Served'
  BY ServedStep
<1>3. Inv /\ Served => SyncInfoServed
  <2> SUFFICES ASSUME Inv, running, ServedOK(store) PROVE SyncInfoServed
    BY DEF SyncInfoServed
  <2>1. Tree(store) \subseteq store.id_to_block /\ store.highest_quorum_cert \in Certified
    BY DEF Tree, Subtree, Inv, TypeOK, Stores
  <2> QED BY <2>1 DEF SyncInfoServed, SyncInfos, ServedOK
<1> HIDE DEF Served
<1> QED BY <1>1, <1>2, <1>3, Invariance, PTL DEF Spec

(* A validator f that gets the SyncInfo of a peer p, and need not jump to  *)
(* its commit, fetches only blocks that p has in its tree: whatever stops  *)
(* f from asking for a block below p's root is in f's own memory.          *)
THEOREM PeerServesFetch ==
    ASSUME NEW p \in Stores, Memory(p), ServedOK(p), NEW f \in Stores, Memory(f),
           ~need_sync_for_quorum_cert(f, p.highest_commit_cert),
           NEW q \in {p.highest_commit_cert, p.highest_quorum_cert}, ~NothingToInsert(f, q),
           NEW b \in Blocks, NextMissing(f, q, b)
    PROVE  \A a \in Ancestors[q] : Round[b] <= Round[a] => a \in Tree(p)
<1> DEFINE hcc == p.highest_commit_cert
           c == CommitOf[hcc]
<1>1. /\ hcc \in Certified /\ p.highest_quorum_cert \in Certified /\ q \in Certified
      /\ Root(p) \in Committed /\ Root(f) \in Committed /\ Root(f) \in f.id_to_block
      /\ Round[hcc] <= Round[p.highest_quorum_cert] /\ Round[Root(p)] <= Round[c]
  BY DEF Stores, Memory, TreeOK, ServedOK, CommitRound
<1>2. /\ c \in Committed /\ c \in Blocks /\ Round[c] <= Round[hcc]
      /\ Root(p) \in Blocks /\ Root(p) \in Certified /\ Root(f) \in Blocks /\ q \in Blocks
  BY <1>1, CommitFacts, CommittedExtended, BlockFacts DEF CommitRound
<1>3. \A x \in Blocks : Round[x] \in Nat
  BY BlockFacts
<1>4. Round[c] <= Round[q]
  <2>1. hcc \in Blocks /\ p.highest_quorum_cert \in Blocks
    BY <1>1, BlockFacts
  <2> QED BY <1>1, <1>2, <1>3, <2>1
<1> HIDE DEF c
<1>5. Round[Root(p)] < Round[b]
  <2>1. ASSUME NEW x \in Committed, x \in f.id_to_block, Round[c] <= Round[x], Round[x] <= Round[q]
        PROVE  Round[Root(p)] < Round[b]
    <3>1. x \in Blocks /\ x \in Ancestors[q]
      BY <1>1, <1>2, <1>3, <2>1, CommittedExtended
    <3>2. Round[x] < Round[b]
      BY <2>1, <3>1 DEF NextMissing
    <3> QED BY <1>1, <1>2, <1>3, <2>1, <3>1, <3>2
  <2>2. CASE c \in f.id_to_block
    BY <1>2, <1>3, <1>4, <2>1, <2>2
  <2>3. CASE ~(Round[Root(f)] < Round[c])
    <3>1. Round[Root(f)] <= Round[q] /\ Round[c] <= Round[Root(f)]
      BY <1>2, <1>3, <2>3 DEF NothingToInsert
    <3> QED BY <1>1, <2>1, <3>1
  <2> QED BY <2>2, <2>3 DEF need_sync_for_quorum_cert, c, CommitRound
<1>6. q \in Tree(p)
  <2>1. CASE q = p.highest_quorum_cert
    BY <2>1 DEF Memory, CertsOK
  <2>2. CASE q = hcc /\ hcc # Genesis
    BY <2>2 DEF ServedOK
  <2>3. CASE q = hcc /\ hcc = Genesis
    <3>1. Round[Root(p)] = Round[Genesis]
      BY <1>1, <1>2, <1>3, <2>3, GenesisCommits, BlocksAssumption DEF c
    <3>2. Root(p) = Genesis
      BY <1>2, <3>1, AgreementAssumption, BlocksAssumption
    <3> QED BY <1>2, <2>3, <3>2, ChainFacts DEF Memory, TreeOK, Tree, Subtree
  <2> QED BY <2>1, <2>2, <2>3
<1>7. ASSUME NEW a \in Ancestors[q], Round[b] <= Round[a] PROVE a \in Tree(p)
  <2>1. Root(p) \in Ancestors[q] /\ a \in Blocks
    BY <1>2, <1>6, ChainFacts DEF Tree, Subtree
  <2>2. Root(p) \in Ancestors[a] \/ a \in Ancestors[Root(p)]
    BY <1>2, <2>1, ChainParts
  <2>3. Round[Root(p)] < Round[a]
    BY <1>2, <1>3, <1>5, <1>7, <2>1
  <2>4. a \notin Ancestors[Root(p)]
    BY <1>2, <1>3, <2>1, <2>3, ChainFacts
  <2> QED BY <1>6, <2>2, <2>4 DEF Memory, TreeOK, Tree, Subtree
<1> QED BY <1>7

=============================================================================
