-------------------------- MODULE BlockTreeProofs --------------------------
(***************************************************************************)
(* The chains of blocks, and what each operation on a store does to its    *)
(* tree, its certificates and its disk, for every tree of blocks for which *)
(* the assumptions of module BlockStore hold.                              *)
(***************************************************************************)
EXTENDS BlockStore, FiniteSetTheorems, WellFoundedInduction, TLAPS

(* More time for a step than the provers take by default.                  *)
USE SMTT(20), ZenonT(20)

(* The blocks that some certificate commits.                               *)
Committed == {CommitOf[q] : q \in Certified}

BlockSets == SUBSET Blocks
CertSets == SUBSET Certified
BlockSeqs == Seq(Blocks)

Stores ==
    [id_to_block : BlockSets, root_id : Blocks,
     highest_quorum_cert : Certified, highest_commit_cert : Certified,
     id_to_quorum_cert : CertSets, pruned_block_ids : BlockSeqs,
     db_blocks : BlockSets, db_qcs : CertSets, ledger : Committed]

(* The block b is on disk, with a certificate that commits it and the      *)
(* blocks from b to that certificate, so that it survives storage_start.   *)
Anchored(s, b) ==
    b \in s.db_blocks /\ \E q \in s.db_qcs : CommitOf[q] = b /\ {q, Parent[q]} \subseteq s.db_blocks

(* A tree in memory: the root and what hangs on it, without gaps, and the  *)
(* pruned blocks.                                                          *)
TreeOK(s) ==
    /\ Root(s) \in s.id_to_block \cap Committed
    /\ s.id_to_block = Tree(s) \cup Range(s.pruned_block_ids)
    /\ \A b \in Tree(s) : \A a \in Ancestors[b] : Root(s) \in Ancestors[a] => a \in s.id_to_block

NoRepeats(f) == \A i, j \in DOMAIN f : f[i] = f[j] => i = j

PrunedOK(s) ==
    /\ Len(s.pruned_block_ids) <= max_pruned_blocks_in_mem
    /\ NoRepeats(s.pruned_block_ids)
    /\ \A i \in DOMAIN s.pruned_block_ids : Root(s) \notin Ancestors[s.pruned_block_ids[i]]

CertsOK(s) ==
    /\ s.id_to_quorum_cert \subseteq s.id_to_block
    /\ s.highest_quorum_cert \in Tree(s) \cap s.id_to_quorum_cert
    /\ \A q \in s.id_to_quorum_cert : Round[q] <= Round[s.highest_quorum_cert]
    /\ IsNewCommit(s, s.highest_commit_cert) => s.highest_commit_cert \in s.id_to_quorum_cert

Memory(s) == TreeOK(s) /\ PrunedOK(s) /\ CertsOK(s)

(* The tree is on disk.                                                    *)
SavedOK(s) ==
    /\ Tree(s) \ {Genesis} \subseteq s.db_blocks
    /\ Tree(s) \cap s.id_to_quorum_cert \subseteq s.db_qcs

----------------------------------------------------------------------------
(* The chains of blocks                                                    *)

(* A set of numbers that is not empty has a least element.                 *)
LEMMA LeastNat ==
    ASSUME NEW T \in SUBSET Nat, T # {}
    PROVE  \E m \in T : \A n \in T : m <= n
<1>1. PICK m \in T : \A n \in T : <<n, m>> \notin OpToRel(<, Nat)
  BY NatLessThanWellFounded, WFMin, Zenon
<1>2. \A n \in T : ~(n < m)
  BY <1>1, Zenon DEF OpToRel
<1> QED BY <1>2

(* Some block of a set has the lowest round in it.  What holds of the      *)
(* genesis block, and of a block if it holds of the block's parent, holds  *)
(* of every block: a lowest block where it fails would be neither.         *)
LEMMA LowestBlock ==
    ASSUME NEW S \in SUBSET Blocks, S # {}
    PROVE  \E b \in S : \A c \in S : Round[b] <= Round[c]
<1> DEFINE T == {Round[b] : b \in S}
<1>1. T \in SUBSET Nat /\ T # {}
  BY BlocksAssumption
<1>2. PICK m \in T : \A n \in T : m <= n
  <2> HIDE DEF T
  <2> QED BY <1>1, LeastNat
<1> QED BY <1>2

LEMMA BlockFacts ==
    /\ Genesis \in Blocks /\ Certified \subseteq Blocks
    /\ \A b \in Blocks : Round[b] \in Nat
    /\ \A b \in Blocks \ {Genesis} :
          Parent[b] \in Certified /\ Parent[b] \in Blocks /\ Round[Parent[b]] < Round[b]
<1>1. \A b \in Blocks : Round[b] \in Nat
  BY BlocksAssumption
<1>2. \A b \in Blocks \ {Genesis} : Parent[b] \in Certified /\ Parent[b] \in Blocks
  BY BlocksAssumption
<1>3. \A b \in Blocks \ {Genesis} : Round[Parent[b]] < Round[b]
  BY BlocksAssumption, <1>1, <1>2
<1> QED BY <1>1, <1>2, <1>3, BlocksAssumption

(* f gives the ancestors of the blocks up to round n.                      *)
UpTo(n) == {b \in Blocks : Round[b] <= n}

ChainsUpTo(n, f) ==
    /\ f = [b \in UpTo(n) |-> f[b]]
    /\ \A b \in UpTo(n) : f[b] = IF b = Genesis THEN {b} ELSE {b} \cup f[Parent[b]]

LEMMA ChainsExist ==
    ASSUME NEW n \in Nat
    PROVE  \E f : ChainsUpTo(n, f)
<1> DEFINE Bad == {k \in Nat : ~ \E f : ChainsUpTo(k, f)}
<1>1. 0 \notin Bad
  <2> DEFINE g == [b \in UpTo(0) |-> {b}]
  <2>1. \A b \in UpTo(0) : b = Genesis
    BY BlockFacts DEF UpTo
  <2>2. ChainsUpTo(0, g)
    BY <2>1 DEF ChainsUpTo
  <2> QED BY <2>2
<1>2. ASSUME NEW k \in Nat, NEW f, ChainsUpTo(k, f)
      PROVE  \E g : ChainsUpTo(k + 1, g)
  <2> DEFINE g == [b \in UpTo(k + 1) |-> IF b = Genesis THEN {b} ELSE {b} \cup f[Parent[b]]]
  <2>1. \A b \in UpTo(k + 1) \ {Genesis} : Parent[b] \in UpTo(k) /\ Parent[b] \in UpTo(k + 1)
    BY BlockFacts DEF UpTo
  <2>2. \A b \in UpTo(k) : b \in UpTo(k + 1)
    BY BlockFacts DEF UpTo
  <2>3. \A b \in UpTo(k) : g[b] = f[b]
    BY <1>2, <2>2 DEF ChainsUpTo
  <2>4. \A b \in UpTo(k + 1) : g[b] = IF b = Genesis THEN {b} ELSE {b} \cup f[Parent[b]]
    OBVIOUS
  <2>5. g = [b \in UpTo(k + 1) |-> g[b]]
    OBVIOUS
  <2> HIDE DEF g
  <2>6. ChainsUpTo(k + 1, g)
    BY <2>1, <2>3, <2>4, <2>5 DEF ChainsUpTo
  <2> QED BY <2>6
<1>3. Bad = {}
  <2>1. SUFFICES ASSUME Bad # {} PROVE FALSE
    OBVIOUS
  <2>2. PICK m \in Bad : \A k \in Bad : m <= k
    BY <2>1, LeastNat, Zenon
  <2>3. m - 1 \in Nat /\ (m - 1) + 1 = m /\ m - 1 \notin Bad
    BY <1>1, <2>2
  <2>4. PICK f : ChainsUpTo(m - 1, f)
    BY <2>3
  <2>5. \E g : ChainsUpTo((m - 1) + 1, g)
    BY <1>2, <2>3, <2>4
  <2> QED BY <2>3, <2>5
<1> QED BY <1>3

LEMMA ChainsAgree ==
    ASSUME NEW m \in Nat, NEW f, ChainsUpTo(m, f), NEW n \in Nat, NEW g, ChainsUpTo(n, g),
           NEW b \in UpTo(m) \cap UpTo(n)
    PROVE  f[b] = g[b]
<1> DEFINE Bad == {c \in UpTo(m) \cap UpTo(n) : f[c] # g[c]}
<1>1. Bad = {}
  <2>1. SUFFICES ASSUME Bad # {} PROVE FALSE
    OBVIOUS
  <2>2. Bad \in SUBSET Blocks
    BY DEF UpTo
  <2>3. PICK c \in Bad : \A d \in Bad : Round[c] <= Round[d]
    <3> HIDE DEF Bad
    <3> QED BY <2>1, <2>2, LowestBlock
  <2>4. c # Genesis /\ f[Parent[c]] # g[Parent[c]]
    BY <2>3 DEF ChainsUpTo
  <2>5. Parent[c] \in UpTo(m) \cap UpTo(n) /\ ~(Round[c] <= Round[Parent[c]])
    BY <2>4, BlockFacts DEF UpTo
  <2> QED BY <2>3, <2>4, <2>5
<1> QED BY <1>1

(* The recursion of Ancestors is sound.                                    *)
LEMMA AncestorsOf ==
    /\ \A b \in Blocks \ {Genesis} : Ancestors[b] = {b} \cup Ancestors[Parent[b]]
    /\ Ancestors[Genesis] = {Genesis}
<1> DEFINE f(n) == CHOOSE f : ChainsUpTo(n, f)
           F == [b \in Blocks |-> f(Round[b])[b]]
<1>1. \A n \in Nat : ChainsUpTo(n, f(n))
  BY ChainsExist
<1> HIDE DEF f
<1>2. ASSUME NEW b \in Blocks
      PROVE  F[b] = IF b = Genesis THEN {b} ELSE {b} \cup F[Parent[b]]
  <2>1. Round[b] \in Nat /\ b \in UpTo(Round[b])
    BY BlockFacts DEF UpTo
  <2>2. f(Round[b])[b] = IF b = Genesis THEN {b} ELSE {b} \cup f(Round[b])[Parent[b]]
    BY <1>1, <2>1, Zenon DEF ChainsUpTo
  <2>3. ASSUME b # Genesis PROVE f(Round[b])[Parent[b]] = F[Parent[b]]
    <3>1. /\ Parent[b] \in Blocks /\ Round[Parent[b]] \in Nat
          /\ Parent[b] \in UpTo(Round[b]) \cap UpTo(Round[Parent[b]])
      BY <2>3, BlockFacts DEF UpTo
    <3>2. f(Round[b])[Parent[b]] = f(Round[Parent[b]])[Parent[b]]
      BY <1>1, <2>1, <3>1, ChainsAgree
    <3> QED BY <3>1, <3>2
  <2> QED BY <2>2, <2>3, Zenon
<1>3. F = [b \in Blocks |-> IF b = Genesis THEN {b} ELSE {b} \cup F[Parent[b]]]
  BY <1>2, Zenon
<1>4. Ancestors = [b \in Blocks |-> IF b = Genesis THEN {b} ELSE {b} \cup Ancestors[Parent[b]]]
  <2> HIDE DEF F
  <2> QED BY <1>3, Zenon DEF Ancestors
<1> QED BY <1>4, BlockFacts

(* A chain goes from a block to the genesis block, with falling rounds.    *)
LEMMA ChainFacts ==
    ASSUME NEW b \in Blocks
    PROVE  /\ Ancestors[b] \subseteq Blocks /\ b \in Ancestors[b] /\ Genesis \in Ancestors[b]
           /\ \A a \in Ancestors[b] : a = b \/ Round[a] < Round[b]
<1> DEFINE P(c) == /\ Ancestors[c] \subseteq Blocks /\ c \in Ancestors[c] /\ Genesis \in Ancestors[c]
                   /\ \A a \in Ancestors[c] : a = c \/ Round[a] < Round[c]
           Bad == {c \in Blocks : ~P(c)}
<1>1. P(Genesis)
  BY AncestorsOf, BlockFacts
<1>2. ASSUME NEW c \in Blocks \ {Genesis}, P(Parent[c]) PROVE P(c)
  <2>1. Ancestors[c] = {c} \cup Ancestors[Parent[c]]
    BY AncestorsOf
  <2>2. \A a \in Ancestors[Parent[c]] : Round[a] < Round[c]
    BY <1>2, BlockFacts
  <2> QED BY <1>2, <2>1, <2>2
<1>3. Bad \in SUBSET Blocks
  OBVIOUS
<1> HIDE DEF P
<1>4. Bad = {}
  <2>1. SUFFICES ASSUME Bad # {} PROVE FALSE
    OBVIOUS
  <2>2. PICK c \in Bad : \A d \in Bad : Round[c] <= Round[d]
    <3> HIDE DEF Bad
    <3> QED BY <2>1, <1>3, LowestBlock
  <2>3. c # Genesis
    BY <1>1
  <2>4. Parent[c] \in Blocks /\ ~(Round[c] <= Round[Parent[c]])
    BY <2>3, BlockFacts
  <2> QED BY <1>2, <2>2, <2>3, <2>4
<1>5. P(b)
  BY <1>4
<1> QED BY <1>5 DEF P

(* The chain of a block in a chain is a part of it, and of two blocks in   *)
(* a chain, one extends the other.                                         *)
LEMMA ChainParts ==
    ASSUME NEW b \in Blocks, NEW a \in Ancestors[b]
    PROVE  /\ Ancestors[a] \subseteq Ancestors[b]
           /\ \A c \in Ancestors[b] : a \in Ancestors[c] \/ c \in Ancestors[a]
<1> DEFINE P(c) == \A x \in Ancestors[c] :
                       /\ Ancestors[x] \subseteq Ancestors[c]
                       /\ \A y \in Ancestors[c] : x \in Ancestors[y] \/ y \in Ancestors[x]
           Bad == {c \in Blocks : ~P(c)}
<1>1. P(Genesis)
  BY AncestorsOf, BlockFacts
<1>2. ASSUME NEW c \in Blocks \ {Genesis}, P(Parent[c]) PROVE P(c)
  <2>1. Ancestors[c] = {c} \cup Ancestors[Parent[c]]
    BY AncestorsOf
  <2> QED BY <1>2, <2>1
<1>3. Bad \in SUBSET Blocks
  OBVIOUS
<1> HIDE DEF P
<1>4. Bad = {}
  <2>1. SUFFICES ASSUME Bad # {} PROVE FALSE
    OBVIOUS
  <2>2. PICK c \in Bad : \A d \in Bad : Round[c] <= Round[d]
    <3> HIDE DEF Bad
    <3> QED BY <2>1, <1>3, LowestBlock
  <2>3. c # Genesis
    BY <1>1
  <2>4. Parent[c] \in Blocks /\ ~(Round[c] <= Round[Parent[c]])
    BY <2>3, BlockFacts
  <2> QED BY <1>2, <2>2, <2>3, <2>4
<1>5. P(b)
  BY <1>4
<1> QED BY <1>5 DEF P

(* Blocks that extend each other are the same.                             *)
LEMMA ChainOrder ==
    ASSUME NEW a \in Blocks, NEW b \in Blocks, a \in Ancestors[b], b \in Ancestors[a]
    PROVE  a = b
BY ChainFacts, BlockFacts

(* A certificate that commits a block other than the genesis block is the  *)
(* end of a 3-chain on it.                                                 *)
LEMMA CommitFacts ==
    ASSUME NEW q \in Certified
    PROVE  /\ CommitOf[q] \in Certified /\ CommitOf[q] \in Blocks /\ CommitOf[q] \in Committed
           /\ CommitOf[q] \in Ancestors[q] /\ CommitRound(q) <= Round[q]
           /\ CommitOf[q] # Genesis =>
                 /\ q # Genesis /\ Parent[q] # Genesis /\ CommitOf[q] = Parent[Parent[q]]
                 /\ Ancestors[q] = {q, Parent[q]} \cup Ancestors[CommitOf[q]]
                 /\ Parent[q] \in Ancestors[q] /\ CommitOf[q] \in Ancestors[Parent[q]]
<1>1. q \in Blocks /\ CommitOf[q] \in Committed
  BY BlockFacts DEF Committed
<1>2. CASE CommitOf[q] = Genesis
  <2>1. Genesis \in Certified /\ Round[Genesis] = 0
    BY BlocksAssumption
  <2> QED BY <1>1, <1>2, <2>1, ChainFacts, BlockFacts DEF CommitRound
<1>3. CASE CommitOf[q] # Genesis
  <2>1. q # Genesis /\ Parent[q] # Genesis /\ CommitOf[q] = Parent[Parent[q]]
    BY <1>1, <1>3 DEF CommitOf
  <2>2. Parent[q] \in Blocks /\ CommitOf[q] \in Certified /\ CommitOf[q] \in Blocks
    BY <1>1, <2>1, BlockFacts
  <2>3. Ancestors[q] = {q} \cup Ancestors[Parent[q]]
    BY <1>1, <2>1, AncestorsOf
  <2>4. Ancestors[Parent[q]] = {Parent[q]} \cup Ancestors[CommitOf[q]]
    BY <2>1, <2>2, AncestorsOf
  <2>5. CommitOf[q] \in Ancestors[Parent[q]] /\ Parent[q] \in Ancestors[q]
    BY <2>2, <2>3, <2>4, ChainFacts
  <2>6. Round[CommitOf[q]] <= Round[q]
    BY <1>1, <2>1, <2>2, BlockFacts
  <2> QED BY <1>1, <2>1, <2>2, <2>3, <2>4, <2>5, <2>6 DEF CommitRound
<1> QED BY <1>2, <1>3

LEMMA GenesisCommits == CommitOf[Genesis] = Genesis
BY BlockFacts DEF CommitOf

(* Agreement: the certified blocks from a committed block's round on       *)
(* extend it.                                                              *)
LEMMA CommittedExtended ==
    ASSUME NEW b \in Committed
    PROVE  /\ b \in Blocks /\ b \in Certified
           /\ \A c \in Certified : Round[c] >= Round[b] => b \in Ancestors[c]
BY AgreementAssumption, CommitFacts DEF Committed

(* A finite set of blocks has one with the greatest key.                   *)
LEMMA HighestExists ==
    ASSUME NEW S, S # {}, IsFiniteSet(S), NEW key, \A x \in S : key[x] \in Nat
    PROVE  \E x \in S : \A y \in S : key[y] <= key[x]
<1> DEFINE P(T) == \E x \in T : \A y \in T : key[y] <= key[x]
           Bad == {n \in Nat : \E T \in SUBSET S : T # {} /\ Cardinality(T) = n /\ ~P(T)}
<1>1. ASSUME NEW T \in SUBSET S, T # {}, NEW x \in T, T \ {x} = {} \/ P(T \ {x})
      PROVE  P(T)
  <2>1. CASE T \ {x} = {}
    BY <2>1
  <2>2. CASE P(T \ {x})
    <3>1. PICK z \in T \ {x} : \A y \in T \ {x} : key[y] <= key[z]
      BY <2>2
    <3>2. CASE key[x] <= key[z]
      BY <3>1, <3>2
    <3>3. CASE ~(key[x] <= key[z])
      BY <3>1, <3>3
    <3> QED BY <3>2, <3>3
  <2> QED BY <1>1, <2>1, <2>2
<1> HIDE DEF P
<1>2. Bad = {}
  <2>1. SUFFICES ASSUME Bad # {} PROVE FALSE
    OBVIOUS
  <2>2. PICK m \in Bad : \A n \in Bad : m <= n
    BY <2>1, LeastNat, Zenon
  <2>3. PICK T \in SUBSET S : T # {} /\ Cardinality(T) = m /\ ~P(T)
    OBVIOUS
  <2>4. PICK x \in T : TRUE
    BY <2>3
  <2>5. IsFiniteSet(T) /\ Cardinality(T \ {x}) = m - 1 /\ Cardinality(T \ {x}) \in Nat
    BY <2>3, <2>4, FS_Subset, FS_RemoveElement, FS_CardinalityType
  <2>6. T \ {x} \in SUBSET S /\ ~(m <= m - 1) /\ m - 1 \in Nat
    BY <2>2, <2>5
  <2>7. m - 1 \notin Bad
    <3> HIDE DEF Bad
    <3> QED BY <2>2, <2>6
  <2>8. T \ {x} = {} \/ P(T \ {x})
    BY <2>5, <2>6, <2>7, Zenon
  <2> QED BY <1>1, <2>3, <2>4, <2>8, Zenon
<1>3. Cardinality(S) \in Nat
  BY FS_CardinalityType
<1>4. P(S)
  BY <1>2, <1>3
<1> QED BY <1>4 DEF P

----------------------------------------------------------------------------
(* What the operations on the store keep                                   *)

(* A tree stays one when neither its blocks nor its root change.           *)
LEMMA SameTree ==
    ASSUME NEW s, NEW t, t.id_to_block = s.id_to_block, t.root_id = s.root_id,
           t.pruned_block_ids = s.pruned_block_ids
    PROVE  /\ Root(t) = Root(s) /\ Tree(t) = Tree(s)
           /\ TreeOK(s) => TreeOK(t)
           /\ PrunedOK(s) => PrunedOK(t)
<1>1. Root(t) = Root(s) /\ Tree(t) = Tree(s)
  BY DEF Root, Tree, Subtree
<1> QED BY <1>1 DEF TreeOK, PrunedOK

(* Only the DB differs.                                                    *)
SameMemory(s, t) ==
    /\ t.ledger = s.ledger /\ t.root_id = s.root_id /\ t.id_to_block = s.id_to_block
    /\ t.id_to_quorum_cert = s.id_to_quorum_cert
    /\ t.pruned_block_ids = s.pruned_block_ids
    /\ t.highest_quorum_cert = s.highest_quorum_cert
    /\ t.highest_commit_cert = s.highest_commit_cert

LEMMA Save ==
    ASSUME NEW s \in Stores, NEW B \in BlockSets, NEW C \in CertSets,
           NEW t, t = save_tree(s, B, C)
    PROVE  /\ t \in Stores
           /\ t.db_blocks = s.db_blocks \cup B /\ t.db_qcs = s.db_qcs \cup C
           /\ SameMemory(s, t)
<1> DEFINE D == s.db_blocks \cup B
           E == s.db_qcs \cup C
<1>1. t = [s EXCEPT !.db_blocks = D, !.db_qcs = E]
  BY DEF save_tree, Stores
<1>2. D \in BlockSets /\ E \in CertSets
  BY DEF Stores, BlockSets, CertSets
<1> HIDE DEF D, E
<1>3. t \in Stores
  BY <1>1, <1>2, ZenonT(60) DEF Stores
<1>4. /\ t.db_blocks = D /\ t.db_qcs = E
      /\ SameMemory(s, t)
  BY <1>1 DEF Stores, SameMemory
<1> QED BY <1>3, <1>4 DEF D, E

LEMMA InsertCert ==
    ASSUME NEW s \in Stores, Memory(s), NEW q \in Certified \cap s.id_to_block,
           NEW t, t = insert_single_quorum_cert(s, q)
    PROVE  /\ t \in Stores /\ Memory(t) /\ (SavedOK(s) => SavedOK(t))
           /\ t.id_to_block = s.id_to_block /\ t.root_id = s.root_id
           /\ t.id_to_quorum_cert = s.id_to_quorum_cert \cup {q}
           /\ t.db_blocks = s.db_blocks /\ t.db_qcs = s.db_qcs \cup {q}
           /\ t.ledger = s.ledger
<1>1. /\ t \in Stores
      /\ t.id_to_block = s.id_to_block /\ t.root_id = s.root_id
      /\ t.pruned_block_ids = s.pruned_block_ids
      /\ t.id_to_quorum_cert = s.id_to_quorum_cert \cup {q}
      /\ t.db_blocks = s.db_blocks /\ t.db_qcs = s.db_qcs \cup {q}
      /\ t.ledger = s.ledger
      /\ t.highest_quorum_cert =
            IF Round[q] > Round[s.highest_quorum_cert] THEN q ELSE s.highest_quorum_cert
      /\ t.highest_commit_cert =
            IF CommitRound(s.highest_commit_cert) < CommitRound(q) THEN q ELSE s.highest_commit_cert
  <2> DEFINE u == save_tree(s, {}, {q})
             Q == s.id_to_quorum_cert \cup {q}
             h == IF Round[q] > Round[s.highest_quorum_cert] THEN q ELSE s.highest_quorum_cert
             c == IF CommitRound(s.highest_commit_cert) < CommitRound(q) THEN q ELSE s.highest_commit_cert
  <2>1. /\ u \in Stores
        /\ u.db_blocks = s.db_blocks /\ u.db_qcs = s.db_qcs \cup {q}
        /\ SameMemory(s, u)
    <3> DEFINE B == {}
               C == {q}
    <3>1. B \in BlockSets /\ C \in CertSets /\ s.db_blocks \cup B = s.db_blocks
      BY DEF BlockSets, CertSets
    <3>2. u = save_tree(s, B, C)
      OBVIOUS
    <3> HIDE DEF u, B, C
    <3>3. /\ u \in Stores
          /\ u.db_blocks = s.db_blocks \cup B /\ u.db_qcs = s.db_qcs \cup C
          /\ SameMemory(s, u)
      BY <3>1, <3>2, Save
    <3> QED BY <3>1, <3>3 DEF B, C
  <2>2. t = insert_quorum_cert_in_tree(u, q)
    BY DEF insert_single_quorum_cert
  <2> HIDE DEF u
  <2>3. t = [u EXCEPT !.highest_quorum_cert = h, !.id_to_quorum_cert = Q, !.highest_commit_cert = c]
    BY <2>1, <2>2 DEF insert_quorum_cert_in_tree, Stores, SameMemory
  <2>4. Q \in CertSets /\ h \in Certified /\ c \in Certified
    BY DEF Stores, CertSets
  <2> HIDE DEF Q, h, c
  <2>5. t \in Stores
    BY <2>1, <2>3, <2>4, ZenonT(60) DEF Stores
  <2>6. /\ t.id_to_block = u.id_to_block /\ t.root_id = u.root_id
        /\ t.pruned_block_ids = u.pruned_block_ids
        /\ t.id_to_quorum_cert = Q /\ t.db_blocks = u.db_blocks /\ t.db_qcs = u.db_qcs
        /\ t.ledger = u.ledger /\ t.highest_quorum_cert = h /\ t.highest_commit_cert = c
    BY <2>1, <2>3 DEF Stores
  <2> QED BY <2>1, <2>5, <2>6 DEF Q, h, c, SameMemory
<1>2. Root(t) = Root(s) /\ Tree(t) = Tree(s) /\ TreeOK(t) /\ PrunedOK(t)
  BY <1>1, SameTree DEF Memory
<1>3. /\ s.id_to_quorum_cert \subseteq Certified /\ s.highest_quorum_cert \in Certified
      /\ Root(s) \in Committed /\ Root(s) \in Blocks
  BY DEF Stores, BlockSets, CertSets, Memory, TreeOK, Root
<1>4. \A c \in Certified : Round[c] \in Nat
  BY BlockFacts
<1>5. Round[s.highest_quorum_cert] >= Round[Root(s)]
  <2>1. Root(s) \in Ancestors[s.highest_quorum_cert]
    BY DEF Memory, CertsOK, Tree, Subtree
  <2> QED BY <1>3, <2>1, ChainFacts, BlockFacts
<1>6. CertsOK(t)
  <2>1. t.id_to_quorum_cert \subseteq t.id_to_block
    BY <1>1 DEF Memory, CertsOK
  <2>2. t.highest_quorum_cert \in Tree(t) \cap t.id_to_quorum_cert
    <3>1. CASE Round[q] > Round[s.highest_quorum_cert]
      <4>1. Round[q] >= Round[Root(s)]
        BY <1>3, <1>4, <1>5, <3>1, BlockFacts
      <4>2. Root(s) \in Ancestors[q]
        BY <1>3, <4>1, CommittedExtended
      <4> QED BY <1>1, <1>2, <3>1, <4>2 DEF Tree, Subtree
    <3>2. CASE ~(Round[q] > Round[s.highest_quorum_cert])
      BY <1>1, <1>2, <3>2 DEF Memory, CertsOK
    <3> QED BY <3>1, <3>2
  <2>3. \A c \in t.id_to_quorum_cert : Round[c] <= Round[t.highest_quorum_cert]
    BY <1>1, <1>3, <1>4 DEF Memory, CertsOK
  <2>4. IsNewCommit(t, t.highest_commit_cert) => t.highest_commit_cert \in t.id_to_quorum_cert
    BY <1>1, <1>2 DEF Memory, CertsOK, IsNewCommit
  <2> QED BY <2>1, <2>2, <2>3, <2>4 DEF CertsOK
<1>7. SavedOK(s) => SavedOK(t)
  BY <1>1, <1>2 DEF SavedOK
<1> QED BY <1>1, <1>2, <1>6, <1>7 DEF Memory

LEMMA InsertBlock ==
    ASSUME NEW s \in Stores, Memory(s), SavedOK(s), NEW b \in Blocks \ {Genesis}, Executes(s, b),
           NEW t, t = execute_and_insert_block(s, b)
    PROVE  /\ t \in Stores /\ Memory(t) /\ SavedOK(t)
           /\ t.id_to_block = s.id_to_block \cup {b} /\ t.root_id = s.root_id
           /\ t.id_to_quorum_cert = s.id_to_quorum_cert
           /\ t.db_blocks = s.db_blocks \cup {b} /\ t.db_qcs = s.db_qcs
           /\ t.ledger = s.ledger
<1>1. /\ t \in Stores
      /\ t.id_to_block = s.id_to_block \cup {b} /\ t.root_id = s.root_id
      /\ t.pruned_block_ids = s.pruned_block_ids
      /\ t.id_to_quorum_cert = s.id_to_quorum_cert
      /\ t.db_blocks = s.db_blocks \cup {b} /\ t.db_qcs = s.db_qcs
      /\ t.ledger = s.ledger
      /\ t.highest_quorum_cert = s.highest_quorum_cert
      /\ t.highest_commit_cert = s.highest_commit_cert
  <2> DEFINE u == save_tree(s, {b}, {})
             M == s.id_to_block \cup {b}
  <2>1. /\ u \in Stores
        /\ u.db_blocks = s.db_blocks \cup {b} /\ u.db_qcs = s.db_qcs
        /\ SameMemory(s, u)
    <3> DEFINE B == {b}
               C == {}
    <3>1. B \in BlockSets /\ C \in CertSets /\ s.db_qcs \cup C = s.db_qcs
      BY DEF BlockSets, CertSets
    <3>2. u = save_tree(s, B, C)
      OBVIOUS
    <3> HIDE DEF u, B, C
    <3>3. /\ u \in Stores
          /\ u.db_blocks = s.db_blocks \cup B /\ u.db_qcs = s.db_qcs \cup C
          /\ SameMemory(s, u)
      BY <3>1, <3>2, Save
    <3> QED BY <3>1, <3>3 DEF B, C
  <2>2. t = [u EXCEPT !.id_to_block = @ \cup {b}]
    BY DEF execute_and_insert_block, insert_block
  <2>3. M \in BlockSets
    BY DEF Stores, BlockSets
  <2> HIDE DEF u
  <2>7. t = [u EXCEPT !.id_to_block = M]
    BY <2>1, <2>2 DEF SameMemory
  <2> HIDE DEF M
  <2>4. t \in Stores
    BY <2>1, <2>7, <2>3, ZenonT(60) DEF Stores
  <2>5. /\ t.id_to_block = M /\ t.root_id = u.root_id
        /\ t.pruned_block_ids = u.pruned_block_ids
        /\ t.id_to_quorum_cert = u.id_to_quorum_cert /\ t.db_blocks = u.db_blocks /\ t.db_qcs = u.db_qcs
        /\ t.ledger = u.ledger /\ t.highest_quorum_cert = u.highest_quorum_cert
        /\ t.highest_commit_cert = u.highest_commit_cert
    BY <2>1, <2>7 DEF Stores
  <2> QED BY <2>1, <2>4, <2>5 DEF M, SameMemory
<1>2. Root(t) = Root(s) /\ Ancestors[b] = {b} \cup Ancestors[Parent[b]] /\ Parent[b] \in Tree(s)
  BY <1>1, AncestorsOf DEF Root, Executes
<1>3. Root(s) \in Ancestors[b]
  BY <1>2 DEF Tree, Subtree
<1>4. Tree(t) = Tree(s) \cup {b}
  BY <1>1, <1>2, <1>3 DEF Tree, Subtree
<1>5. TreeOK(t)
  <2>1. Root(t) \in t.id_to_block \cap Committed
    BY <1>1, <1>2 DEF Memory, TreeOK
  <2>2. t.id_to_block = Tree(t) \cup Range(t.pruned_block_ids)
    BY <1>1, <1>4 DEF Memory, TreeOK
  <2>3. ASSUME NEW c \in Tree(t), NEW a \in Ancestors[c], Root(t) \in Ancestors[a]
        PROVE  a \in t.id_to_block
    BY <1>1, <1>2, <1>4, <2>3 DEF Memory, TreeOK
  <2> QED BY <2>1, <2>2, <2>3 DEF TreeOK
<1>6. PrunedOK(t)
  BY <1>1, <1>2 DEF Memory, PrunedOK
<1>7. CertsOK(t)
  BY <1>1, <1>2, <1>4 DEF Memory, CertsOK, IsNewCommit
<1>8. SavedOK(t)
  <2>1. Tree(t) \ {Genesis} \subseteq t.db_blocks
    BY <1>1, <1>4 DEF SavedOK
  <2>2. ASSUME NEW c \in Tree(t) \cap t.id_to_quorum_cert PROVE c \in t.db_qcs
    <3>1. c \in s.id_to_quorum_cert /\ c \in s.id_to_block /\ Root(s) \in Ancestors[c]
      BY <1>1, <1>2, <2>2 DEF Memory, CertsOK, Tree, Subtree
    <3> QED BY <1>1, <3>1 DEF SavedOK, Tree, Subtree
  <2> QED BY <2>1, <2>2 DEF SavedOK
<1> QED BY <1>1, <1>5, <1>6, <1>7, <1>8 DEF Memory

(* What storage.start() keeps: the blocks that are recovered, and the      *)
(* chain of a certificate that commits the root.                           *)
LEMMA RecoveredParts ==
    ASSUME NEW s \in Stores
    PROVE  /\ Connected(s) \subseteq s.db_blocks /\ RecoveredTree(s) \subseteq Blocks
           /\ \A b \in RecoveredTree(s) : s.ledger \in Ancestors[b]
           /\ \A b \in RecoveredTree(s) : \A a \in Ancestors[b] :
                 s.ledger \in Ancestors[a] => a \in RecoveredTree(s)
           /\ s.ledger \in Blocks /\ s.ledger \in Certified /\ s.ledger \in Committed
<1>1. s.ledger \in Blocks /\ s.ledger \in Certified /\ s.ledger \in Committed
  BY CommittedExtended DEF Stores, BlockSets, CertSets
<1>2. Connected(s) \subseteq s.db_blocks /\ s.db_blocks \subseteq Blocks
  BY DEF Connected, Stores, BlockSets, CertSets
<1>3. \A b \in RecoveredTree(s) : s.ledger \in Ancestors[b]
  BY <1>1, ChainFacts DEF RecoveredTree, Connected
<1>4. ASSUME NEW b \in RecoveredTree(s), NEW a \in Ancestors[b], s.ledger \in Ancestors[a]
      PROVE  a \in RecoveredTree(s)
  <2>1. CASE a \in Ancestors[s.ledger]
    <3>1. a \in Blocks
      BY <1>1, <2>1, ChainFacts
    <3>2. a = s.ledger
      BY <1>1, <1>4, <2>1, <3>1, ChainOrder
    <3> QED BY <3>2 DEF RecoveredTree
  <2>2. CASE a \notin Ancestors[s.ledger]
    <3>1. b \in Connected(s) /\ b \in Blocks
      BY <1>2, <1>4, <2>2 DEF RecoveredTree
    <3>2. Ancestors[a] \subseteq Ancestors[b]
      BY <1>4, <3>1, ChainParts
    <3> QED BY <1>4, <2>2, <3>1, <3>2 DEF Connected, RecoveredTree
  <2> QED BY <2>1, <2>2
<1> QED BY <1>1, <1>2, <1>3, <1>4 DEF RecoveredTree

LEMMA AnchorRecovered ==
    ASSUME NEW s \in Stores, s.ledger # Genesis, NEW q \in Certified, CommitOf[q] = s.ledger,
           {q, Parent[q]} \subseteq s.db_blocks
    PROVE  {q, Parent[q]} \subseteq RecoveredTree(s)
<1>1. /\ Ancestors[q] = {q, Parent[q]} \cup Ancestors[s.ledger]
      /\ s.ledger \in Ancestors[q] /\ s.ledger \in Ancestors[Parent[q]] /\ Parent[q] \in Ancestors[q]
  BY CommitFacts
<1>2. q \in Connected(s)
  BY <1>1 DEF Connected
<1> QED BY <1>1, <1>2, RecoveredParts DEF RecoveredTree

LEMMA Delete ==
    ASSUME NEW s \in Stores, NEW ids, NEW t, t = DeleteFromDB(s, ids)
    PROVE  /\ t \in Stores
           /\ t.db_blocks = s.db_blocks \ ids /\ t.db_qcs = s.db_qcs \ ids
           /\ SameMemory(s, t)
<1> DEFINE D == s.db_blocks \ ids
           E == s.db_qcs \ ids
<1>1. t = [s EXCEPT !.db_blocks = D, !.db_qcs = E]
  BY DEF DeleteFromDB, Stores
<1>2. D \in BlockSets /\ E \in CertSets
  BY DEF Stores, BlockSets, CertSets
<1> HIDE DEF D, E
<1>3. t \in Stores
  BY <1>1, <1>2, ZenonT(60) DEF Stores
<1>4. /\ t.db_blocks = D /\ t.db_qcs = E
      /\ SameMemory(s, t)
  BY <1>1 DEF Stores, SameMemory
<1> QED BY <1>3, <1>4 DEF D, E

LEMMA Start ==
    ASSUME NEW s \in Stores, FindsRoot(s), s.ledger # Genesis => Anchored(s, s.ledger),
           NEW t, t = storage_start(s)
    PROVE  /\ t \in Stores /\ FindsRoot(t) /\ (t.ledger # Genesis => Anchored(t, t.ledger))
           /\ t.db_blocks \subseteq s.db_blocks /\ t.db_qcs \subseteq s.db_qcs
           /\ RecoveredTree(t) = RecoveredTree(s)
           /\ s.db_qcs \cap RecoveredTree(s) \subseteq t.db_qcs
           /\ SameMemory(s, t)
<1> DEFINE R == RecoveredTree(s)
<1>1. /\ t \in Stores
      /\ t.db_blocks = s.db_blocks \ (s.db_blocks \ R) /\ t.db_qcs = s.db_qcs \ (s.db_blocks \ R)
      /\ SameMemory(s, t)
      /\ t.ledger = s.ledger
  BY Delete DEF storage_start, SameMemory
<1>2. RecoveredTree(t) = R
  <2>1. \A b \in Connected(t) : b \in Connected(s)
    BY <1>1 DEF Connected
  <2>2. ASSUME NEW b \in Connected(s) PROVE b \in Connected(t)
    <3>1. b \in R /\ b \in Blocks /\ s.ledger \in Ancestors[b] /\ b \in s.db_blocks
      BY RecoveredParts DEF RecoveredTree, Connected
    <3>2. ASSUME NEW a \in Ancestors[b], a \notin Ancestors[s.ledger] PROVE a \in t.db_blocks
      <4>1. s.ledger \in Ancestors[a]
        BY <3>1, <3>2, ChainParts
      <4>2. a \in R
        BY <3>1, <4>1, RecoveredParts
      <4>3. a \in s.db_blocks
        BY <2>2, <3>2 DEF Connected
      <4> QED BY <1>1, <4>2, <4>3
    <3>3. b \in t.db_blocks
      BY <1>1, <3>1
    <3> QED BY <1>1, <3>1, <3>2, <3>3 DEF Connected
  <2> QED BY <1>1, <2>1, <2>2 DEF RecoveredTree
<1>3. s.ledger \in R
  BY DEF RecoveredTree
<1>4. ASSUME s.ledger # Genesis PROVE Anchored(t, s.ledger) /\ s.ledger \in t.db_blocks \cap t.db_qcs
  <2>1. PICK q \in s.db_qcs : CommitOf[q] = s.ledger /\ {q, Parent[q]} \subseteq s.db_blocks
    BY <1>4 DEF Anchored
  <2>2. {q, Parent[q]} \subseteq R
    BY <1>4, <2>1, AnchorRecovered DEF Stores, BlockSets, CertSets
  <2>3. q \in t.db_qcs /\ {q, Parent[q]} \subseteq t.db_blocks
    BY <1>1, <2>1, <2>2
  <2>4. s.ledger \in t.db_blocks \cap t.db_qcs
    BY <1>1, <1>3, <1>4 DEF FindsRoot
  <2> QED BY <2>1, <2>3, <2>4 DEF Anchored
<1>5. FindsRoot(t)
  BY <1>1, <1>4 DEF FindsRoot, Anchored
<1> QED BY <1>1, <1>2, <1>4, <1>5

(* The tree that BlockStore::build makes.                                  *)
LEMMA Build ==
    ASSUME NEW s \in Stores, FindsRoot(s), IsFiniteSet(s.db_blocks), IsFiniteSet(s.db_qcs),
           NEW t, t = build(s)
    PROVE  /\ t \in Stores /\ Memory(t) /\ SavedOK(t)
           /\ IsFiniteSet(t.id_to_block) /\ IsFiniteSet(t.db_qcs)
           /\ t.ledger = s.ledger /\ t.root_id = s.ledger
           /\ t.id_to_block = RecoveredTree(s) /\ Tree(t) = RecoveredTree(s)
           /\ t.db_blocks = s.db_blocks /\ s.db_qcs \subseteq t.db_qcs
           /\ t.id_to_quorum_cert = (s.db_qcs \cap RecoveredTree(s)) \cup {s.ledger}
           /\ t.db_qcs = s.db_qcs \cup t.id_to_quorum_cert
           /\ Round[s.ledger] <= CommitRound(t.highest_commit_cert)
           /\ \A q \in t.id_to_quorum_cert : CommitRound(q) <= CommitRound(t.highest_commit_cert)
           /\ \/ t.highest_commit_cert \in t.id_to_quorum_cert
                    /\ Round[s.ledger] < CommitRound(t.highest_commit_cert)
              \/ CommitOf[t.highest_commit_cert] = s.ledger
                    /\ (s.ledger = Genesis => t.highest_commit_cert = Genesis)
<1> DEFINE R == RecoveredTree(s)
           Q == (s.db_qcs \cap R) \cup {s.ledger}
           li == IF s.ledger = Genesis THEN Genesis ELSE CHOOSE q \in s.db_qcs : CommitOf[q] = s.ledger
           key == [q \in Certified |-> CommitRound(q)]
           hqc == HighestQC(Q)
           hcc == HighestCommitCert(li, Q)
<1>1. li \in Certified /\ CommitOf[li] = s.ledger
  <2>1. CASE s.ledger = Genesis
    BY <2>1, GenesisCommits, BlocksAssumption
  <2>2. CASE s.ledger # Genesis
    BY <2>2 DEF FindsRoot, Stores, BlockSets, CertSets
  <2> QED BY <2>1, <2>2
<1>2. /\ R \subseteq Blocks /\ s.ledger \in Certified /\ s.ledger \in Committed /\ s.ledger \in Blocks
      /\ s.ledger \in R
  BY RecoveredParts DEF RecoveredTree
<1>3. Q \subseteq Certified /\ Q \subseteq R /\ Q # {}
  BY <1>2 DEF Stores, BlockSets, CertSets
<1>4. IsFiniteSet(R) /\ IsFiniteSet(Q) /\ IsFiniteSet(s.db_qcs \cup Q)
  <2>1. IsFiniteSet(Connected(s))
    BY RecoveredParts, FS_Subset
  <2>2. IsFiniteSet(R)
    BY <2>1, FS_AddElement DEF RecoveredTree
  <2>3. IsFiniteSet(s.db_qcs \cap R)
    BY FS_Subset
  <2>4. IsFiniteSet(Q)
    BY <2>3, FS_AddElement, Zenon
  <2> HIDE DEF Q
  <2>5. IsFiniteSet(s.db_qcs \cup Q)
    BY <2>4, FS_Union, Zenon
  <2> QED BY <2>2, <2>4, <2>5
<1>5. hqc \in Q /\ \A q \in Q : Round[q] <= Round[hqc]
  <2>1. \A q \in Q : Round[q] \in Nat
    BY <1>3, BlockFacts
  <2> HIDE DEF Q
  <2>2. \E x \in Q : \A y \in Q : Round[y] <= Round[x]
    BY <1>3, <1>4, <2>1, HighestExists
  <2> QED BY <2>2 DEF HighestQC
<1>6. /\ hcc \in Q \cup {li} /\ \A q \in Q \cup {li} : CommitRound(q) <= CommitRound(hcc)
      /\ hcc = li \/ (hcc \in Q /\ CommitRound(li) < CommitRound(hcc))
  <2> HIDE DEF Q, li
  <2>1. CommitRound(li) \in Nat /\ \A q \in Q : key[q] = CommitRound(q) /\ CommitRound(q) \in Nat
    <3>1. \A q \in Certified : CommitRound(q) \in Nat
      BY CommitFacts, BlockFacts DEF CommitRound
    <3> QED BY <1>1, <1>3, <3>1
  <2> HIDE DEF key
  <2>2. PICK z \in Q : \A y \in Q : key[y] <= key[z]
    BY <1>3, <1>4, <2>1, HighestExists
  <2>3. \A y \in Q : CommitRound(y) <= CommitRound(z)
    BY <2>1, <2>2
  <2>4. CASE \E q \in Q : CommitRound(li) < CommitRound(q)
    <3>1. hcc \in Q /\ \A y \in Q : CommitRound(y) <= CommitRound(hcc)
      BY <2>3, <2>4, Zenon DEF HighestCommitCert
    <3> HIDE DEF hcc
    <3> QED BY <2>1, <2>4, <3>1
  <2>5. CASE ~\E q \in Q : CommitRound(li) < CommitRound(q)
    <3>1. hcc = li
      BY <2>5, Zenon DEF HighestCommitCert
    <3> HIDE DEF hcc
    <3> QED BY <2>1, <2>5, <3>1
  <2> QED BY <2>4, <2>5
<1>7. t = [s EXCEPT !.db_qcs = @ \cup Q, !.root_id = s.ledger, !.id_to_block = R,
                    !.id_to_quorum_cert = Q, !.pruned_block_ids = <<>>,
                    !.highest_quorum_cert = hqc, !.highest_commit_cert = hcc]
  BY DEF build
<1> HIDE DEF R, Q, li, key, hqc, hcc
<1>8. hqc \in Certified /\ hcc \in Certified /\ s.db_qcs \cup Q \subseteq Certified
  BY <1>1, <1>3, <1>5, <1>6 DEF Stores, BlockSets, CertSets
<1>9. /\ t \in Stores
      /\ t.db_blocks = s.db_blocks /\ t.db_qcs = s.db_qcs \cup Q
      /\ t.ledger = s.ledger /\ t.root_id = s.ledger /\ t.id_to_block = R
      /\ t.id_to_quorum_cert = Q /\ t.pruned_block_ids = <<>>
      /\ t.highest_quorum_cert = hqc /\ t.highest_commit_cert = hcc
  <2> DEFINE E == s.db_qcs \cup Q
  <2>1. E \in CertSets /\ R \in BlockSets /\ Q \in CertSets /\ <<>> \in BlockSeqs
    BY <1>2, <1>3, <1>8 DEF BlockSets, CertSets, BlockSeqs
  <2>2. t = [s EXCEPT !.db_qcs = E, !.root_id = s.ledger, !.id_to_block = R,
                      !.id_to_quorum_cert = Q, !.pruned_block_ids = <<>>,
                      !.highest_quorum_cert = hqc, !.highest_commit_cert = hcc]
    BY <1>7 DEF Stores
  <2> HIDE DEF E
  <2>3. /\ t.db_blocks = s.db_blocks /\ t.db_qcs = E
        /\ t.ledger = s.ledger /\ t.root_id = s.ledger /\ t.id_to_block = R
        /\ t.id_to_quorum_cert = Q /\ t.pruned_block_ids = <<>>
        /\ t.highest_quorum_cert = hqc /\ t.highest_commit_cert = hcc
    BY <2>2 DEF Stores
  <2>4. t \in Stores
    BY <1>2, <1>8, <2>1, <2>2, ZenonT(60) DEF Stores
  <2> QED BY <2>3, <2>4 DEF E
<1>10. Root(t) = s.ledger /\ Tree(t) = R
  BY <1>9, RecoveredParts DEF Root, Tree, Subtree, R
<1>11. TreeOK(t)
  BY <1>2, <1>9, <1>10, RecoveredParts DEF TreeOK, Range, R
<1>12. PrunedOK(t)
  BY <1>9, BlocksAssumption DEF PrunedOK, NoRepeats
<1>13. CertsOK(t)
  <2>1. IsNewCommit(t, hcc) => hcc \in Q
    <3>1. Round[s.ledger] \in Nat /\ ~(Round[s.ledger] < Round[s.ledger])
      BY <1>2, BlockFacts
    <3>2. hcc = li => ~IsNewCommit(t, hcc)
      BY <1>1, <1>10, <3>1 DEF IsNewCommit, CommitRound
    <3> QED BY <1>6, <3>2
  <2> QED BY <1>3, <1>5, <1>9, <1>10, <2>1 DEF CertsOK
<1>14. SavedOK(t)
  <2>1. R \ {Genesis} \subseteq s.db_blocks
    BY RecoveredParts DEF RecoveredTree, FindsRoot, R
  <2> QED BY <1>9, <1>10, <2>1 DEF SavedOK
<1>15. Round[s.ledger] <= CommitRound(hcc) /\ \A q \in Q : CommitRound(q) <= CommitRound(hcc)
  BY <1>1, <1>6 DEF CommitRound
<1>16. \/ hcc \in Q /\ Round[s.ledger] < CommitRound(hcc)
       \/ CommitOf[hcc] = s.ledger /\ (s.ledger = Genesis => hcc = Genesis)
  <2>1. s.ledger = Genesis => li = Genesis
    BY DEF li
  <2> QED BY <1>1, <1>6, <2>1 DEF CommitRound
<1> QED BY <1>4, <1>9, <1>10, <1>11, <1>12, <1>13, <1>14, <1>15, <1>16 DEF Memory, R, Q

LEMMA OnlyDBDiffers ==
    ASSUME NEW s, NEW t, SameMemory(s, t)
    PROVE  Root(t) = Root(s) /\ Tree(t) = Tree(s) /\ (Memory(s) => Memory(t))
<1>1. /\ Root(t) = Root(s) /\ Tree(t) = Tree(s)
      /\ TreeOK(s) => TreeOK(t)
      /\ PrunedOK(s) => PrunedOK(t)
  BY SameTree DEF SameMemory
<1>2. CertsOK(s) => CertsOK(t)
  BY <1>1 DEF CertsOK, SameMemory, IsNewCommit
<1> QED BY <1>1, <1>2 DEF Memory

(* rebuild deletes no block that the new tree needs.                       *)
LEMMA Rebuild ==
    ASSUME NEW s \in Stores, FindsRoot(s), IsFiniteSet(s.db_blocks), IsFiniteSet(s.db_qcs),
           s.ledger # Genesis, Anchored(s, s.ledger),
           \A b \in s.id_to_block : s.ledger \notin Ancestors[b],
           NEW fails \in BOOLEAN, NEW t, t = Rebuilt(s, fails)
    PROVE  /\ t \in Stores /\ Memory(t) /\ SavedOK(t) /\ Anchored(t, t.ledger)
           /\ IsFiniteSet(t.id_to_block) /\ IsFiniteSet(t.db_blocks) /\ IsFiniteSet(t.db_qcs)
           /\ t.ledger = s.ledger /\ t.root_id = s.ledger
<1> DEFINE u == build(s)
<1>1. /\ u \in Stores /\ Memory(u) /\ SavedOK(u)
      /\ IsFiniteSet(u.id_to_block) /\ IsFiniteSet(u.db_qcs)
      /\ u.ledger = s.ledger /\ u.root_id = s.ledger
      /\ Tree(u) = RecoveredTree(s)
      /\ u.db_blocks = s.db_blocks /\ s.db_qcs \subseteq u.db_qcs
  <2> HIDE DEF u
  <2>1. u = build(s)
    BY DEF u
  <2> QED BY <2>1, Build
<1>2. PICK q \in s.db_qcs : CommitOf[q] = s.ledger /\ {q, Parent[q]} \subseteq s.db_blocks
  BY DEF Anchored
<1>3. s.ledger \in s.db_blocks
  BY DEF Anchored
<1>4. {q, Parent[q]} \subseteq RecoveredTree(s)
  BY <1>2, AnchorRecovered DEF Stores, CertSets
<1>5. s.ledger \in RecoveredTree(s) /\ RecoveredTree(s) \cap s.id_to_block = {}
  BY RecoveredParts DEF RecoveredTree
<1>6. CASE fails
  <2>1. t = u
    BY <1>6 DEF Rebuilt
  <2> HIDE DEF u
  <2>2. Anchored(u, s.ledger)
    BY <1>1, <1>2, <1>3 DEF Anchored
  <2> QED BY <1>1, <2>1, <2>2
<1>7. CASE ~fails
  <2>1. t = DeleteFromDB(u, s.id_to_block)
    BY <1>7 DEF Rebuilt
  <2> HIDE DEF u
  <2>2. /\ t \in Stores /\ SameMemory(u, t)
        /\ t.db_blocks = u.db_blocks \ s.id_to_block /\ t.db_qcs = u.db_qcs \ s.id_to_block
    BY <1>1, <2>1, Delete
  <2>3. Tree(t) = RecoveredTree(s) /\ Memory(t)
    BY <1>1, <2>2, OnlyDBDiffers
  <2>4. t.ledger = s.ledger /\ t.root_id = s.ledger /\ IsFiniteSet(t.id_to_block)
        /\ t.id_to_quorum_cert = u.id_to_quorum_cert
    BY <1>1, <2>2 DEF SameMemory
  <2>5. IsFiniteSet(t.db_blocks) /\ IsFiniteSet(t.db_qcs)
    BY <1>1, <2>2, FS_Subset
  <2>6. SavedOK(t)
    BY <1>1, <1>5, <2>2, <2>3, <2>4 DEF SavedOK
  <2>7. Anchored(t, s.ledger)
    BY <1>1, <1>2, <1>3, <1>4, <1>5, <2>2 DEF Anchored
  <2> QED BY <2>2, <2>3, <2>4, <2>5, <2>6, <2>7
<1> QED BY <1>6, <1>7

(* The two parts of a sequence without repetitions.                        *)
Slice(f, g, k, n) == DOMAIN f = 1 .. n /\ \A i \in 1 .. n : f[i] = g[k + i]

SplitsInto(all, front, rest) ==
    /\ NoRepeats(rest)
    /\ Range(rest) \subseteq Range(all)
    /\ Range(front) \subseteq Range(all)
    /\ \A x \in Range(all) : x \in Range(rest) <=> x \notin Range(front)

LEMMA SplitAt ==
    ASSUME NEW n \in Nat, NEW k \in 0 .. n, NEW all, DOMAIN all = 1 .. n, NoRepeats(all),
           NEW front, Slice(front, all, 0, k), NEW rest, Slice(rest, all, k, n - k)
    PROVE  SplitsInto(all, front, rest)
<1>0. /\ \A i, j \in 1 .. n : all[i] = all[j] => i = j
      /\ DOMAIN front = 1 .. k /\ \A i \in 1 .. k : front[i] = all[i]
      /\ DOMAIN rest = 1 .. (n - k) /\ \A i \in 1 .. (n - k) : rest[i] = all[k + i]
  <2>1. \A i, j \in 1 .. n : all[i] = all[j] => i = j
    BY DEF NoRepeats
  <2>2. DOMAIN front = 1 .. k /\ \A i \in 1 .. k : front[i] = all[0 + i]
    BY DEF Slice
  <2>3. \A i \in 1 .. k : 0 + i = i
    OBVIOUS
  <2>4. DOMAIN rest = 1 .. (n - k) /\ \A i \in 1 .. (n - k) : rest[i] = all[k + i]
    BY DEF Slice
  <2> QED BY <2>1, <2>2, <2>3, <2>4
<1>1. \A i \in 1 .. (n - k) : k + i \in 1 .. n
  OBVIOUS
<1>2. \A i \in 1 .. k : i \in 1 .. n
  OBVIOUS
<1>3. ASSUME NEW i \in DOMAIN rest, NEW j \in DOMAIN rest, rest[i] = rest[j] PROVE i = j
  <2>1. k + i \in 1 .. n /\ k + j \in 1 .. n /\ all[k + i] = all[k + j]
    BY <1>0, <1>1, <1>3
  <2>2. k + i = k + j
    BY <1>0, <2>1
  <2> QED BY <1>0, <2>2
<1>4. Range(rest) \subseteq Range(all)
  <2>1. \A i \in 1 .. (n - k) : rest[i] \in Range(all)
    BY <1>0, <1>1 DEF Range
  <2> QED BY <1>0, <2>1 DEF Range
<1>5. Range(front) \subseteq Range(all)
  <2>1. \A i \in 1 .. k : front[i] \in Range(all)
    BY <1>0, <1>2 DEF Range
  <2> QED BY <1>0, <2>1 DEF Range
<1>6. ASSUME NEW x \in Range(all) PROVE x \in Range(rest) <=> x \notin Range(front)
  <2>1. PICK m \in 1 .. n : x = all[m]
    BY DEF Range
  <2>2. CASE m <= k
    <3>1. m \in 1 .. k /\ front[m] = x
      BY <1>0, <2>1, <2>2
    <3>2. ASSUME NEW i \in 1 .. (n - k) PROVE rest[i] # x
      <4>1. k + i \in 1 .. n /\ k + i # m
        BY <2>2
      <4> QED BY <1>0, <2>1, <4>1
    <3> QED BY <1>0, <3>1, <3>2 DEF Range
  <2>3. CASE ~(m <= k)
    <3>1. m - k \in 1 .. (n - k) /\ k + (m - k) = m
      BY <2>1, <2>3
    <3>2. rest[m - k] = x
      BY <1>0, <2>1, <3>1
    <3>3. ASSUME NEW i \in 1 .. k PROVE front[i] # x
      <4>1. i \in 1 .. n /\ i # m
        BY <2>3
      <4> QED BY <1>0, <2>1, <4>1
    <3>4. x \in Range(rest)
      BY <1>0, <3>1, <3>2 DEF Range
    <3>5. x \notin Range(front)
      BY <1>0, <3>3 DEF Range
    <3> QED BY <3>4, <3>5
  <2> QED BY <2>2, <2>3
<1> QED BY <1>3, <1>4, <1>5, <1>6 DEF SplitsInto, NoRepeats

LEMMA SplitSeq ==
    ASSUME NEW all \in Seq(Blocks), NoRepeats(all), NEW k \in 0 .. Len(all),
           NEW front, front = SubSeq(all, 1, k), NEW rest, rest = SubSeq(all, k + 1, Len(all))
    PROVE  rest \in Seq(Blocks) /\ Len(rest) = Len(all) - k /\ SplitsInto(all, front, rest)
<1>1. rest \in Seq(Blocks) /\ Len(rest) = Len(all) - k /\ DOMAIN rest = 1 .. (Len(all) - k)
  OBVIOUS
<1>2. Slice(rest, all, k, Len(all) - k)
  BY <1>1 DEF Slice
<1>3. Slice(front, all, 0, k)
  BY DEF Slice
<1>4. DOMAIN all = 1 .. Len(all) /\ Len(all) \in Nat
  OBVIOUS
<1> QED BY <1>1, <1>2, <1>3, <1>4, SplitAt, Zenon

(* The walk lists the blocks to prune once each.                           *)
LEMMA WalkFacts ==
    ASSUME NEW ids \in SUBSET Blocks, IsFiniteSet(ids), NEW w \in Walks(ids)
    PROVE  w \in Seq(Blocks) /\ Range(w) = ids /\ NoRepeats(w)
<1>1. Cardinality(ids) \in Nat
  BY FS_CardinalityType
<1>2. w \in [1 .. Cardinality(ids) -> ids] /\ Range(w) = ids
  BY DEF Walks
<1>3. w \in Seq(Blocks) /\ DOMAIN w = 1 .. Cardinality(ids)
  BY <1>1, <1>2
<1>4. \A i, j \in DOMAIN w : i < j => w[j] \notin Ancestors[w[i]]
  BY DEF Walks
<1>5. \A i, j \in DOMAIN w : i < j => w[j] # w[i]
  BY <1>2, <1>4, ChainFacts
<1>6. \A i, j \in DOMAIN w : i < j \/ j < i \/ i = j
  BY <1>1, <1>3
<1> QED BY <1>2, <1>3, <1>5, <1>6 DEF NoRepeats

(* Appending the newly pruned blocks repeats none.                         *)
LEMMA AppendPruned ==
    ASSUME NEW P \in Seq(Blocks), NoRepeats(P), NEW w \in Seq(Blocks), NoRepeats(w),
           Range(P) \cap Range(w) = {}
    PROVE  P \o w \in Seq(Blocks) /\ NoRepeats(P \o w) /\ Range(P \o w) = Range(P) \cup Range(w)
<1> DEFINE all == P \o w
           m == Len(P)
           n == Len(w)
<1>1. /\ m \in Nat /\ n \in Nat /\ DOMAIN P = 1 .. m /\ DOMAIN w = 1 .. n
      /\ all \in Seq(Blocks) /\ DOMAIN all = 1 .. (m + n)
  OBVIOUS
<1>2. \A i \in 1 .. m : all[i] = P[i]
  OBVIOUS
<1>3. \A i \in 1 .. n : all[m + i] = w[i]
  OBVIOUS
<1> HIDE DEF all, m, n
<1>4. ASSUME NEW i \in 1 .. (m + n), ~(i <= m) PROVE i - m \in 1 .. n /\ m + (i - m) = i
  BY <1>1, <1>4
<1>5. \A i \in 1 .. m : all[i] \in Range(P)
  BY <1>1, <1>2 DEF Range
<1>6. \A i \in 1 .. (m + n) : ~(i <= m) => all[i] = w[i - m] /\ all[i] \in Range(w)
  BY <1>1, <1>3, <1>4, Zenon DEF Range
<1>7. ASSUME NEW i \in 1 .. (m + n), NEW j \in 1 .. (m + n), all[i] = all[j] PROVE i = j
  <2>1. CASE i <= m /\ j <= m
    <3>1. i \in 1 .. m /\ j \in 1 .. m
      BY <1>1, <2>1
    <3> QED BY <1>1, <1>2, <1>7, <3>1 DEF NoRepeats
  <2>2. CASE i <= m /\ ~(j <= m)
    <3>1. i \in 1 .. m
      BY <1>1, <2>2
    <3> QED BY <1>5, <1>6, <1>7, <2>2, <3>1
  <2>3. CASE ~(i <= m) /\ j <= m
    <3>1. j \in 1 .. m
      BY <1>1, <2>3
    <3> QED BY <1>5, <1>6, <1>7, <2>3, <3>1
  <2>4. CASE ~(i <= m) /\ ~(j <= m)
    <3>1. i - m \in 1 .. n /\ j - m \in 1 .. n /\ w[i - m] = w[j - m]
      BY <1>4, <1>6, <1>7, <2>4
    <3>2. i - m = j - m
      BY <1>1, <3>1 DEF NoRepeats
    <3> QED BY <1>1, <3>2
  <2> QED BY <2>1, <2>2, <2>3, <2>4
<1>8. Range(all) \subseteq Range(P) \cup Range(w)
  <2>1. \A i \in 1 .. (m + n) : all[i] \in Range(P) \cup Range(w)
    <3> SUFFICES ASSUME NEW i \in 1 .. (m + n) PROVE all[i] \in Range(P) \cup Range(w)
      OBVIOUS
    <3>1. i <= m => i \in 1 .. m
      BY <1>1
    <3> QED BY <1>5, <1>6, <3>1
  <2> QED BY <1>1, <2>1 DEF Range
<1>9. \A i \in 1 .. m : P[i] \in Range(all)
  <2>1. \A i \in 1 .. m : i \in 1 .. (m + n)
    BY <1>1
  <2> QED BY <1>1, <1>2, <2>1 DEF Range
<1>10. \A i \in 1 .. n : w[i] \in Range(all)
  <2>1. \A i \in 1 .. n : m + i \in 1 .. (m + n)
    BY <1>1
  <2> QED BY <1>1, <1>3, <2>1, ZenonT(30) DEF Range
<1>11. Range(P) \cup Range(w) \subseteq Range(all)
  BY <1>1, <1>9, <1>10 DEF Range
<1>12. NoRepeats(all)
  BY <1>1, <1>7 DEF NoRepeats
<1> QED BY <1>1, <1>8, <1>11, <1>12 DEF all

=============================================================================
