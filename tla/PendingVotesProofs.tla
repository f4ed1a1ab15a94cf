------------------------- MODULE PendingVotesProofs -------------------------
(***************************************************************************)
(* The quorums of ValidatorVerifier, for any finite number of validators   *)
(* and any voting powers, and the invariants of PendingVotes, for any      *)
(* validators of which Byzantine ones hold less than a third of the power, *)
(* and any LedgerInfos.                                                    *)
(***************************************************************************)
EXTENDS PendingVotes, MCValidatorVerifier, FiniteSetTheorems, WellFoundedInduction, TLAPS

(* More time for a step than the provers take by default.                  *)
USE SMTT(20), ZenonT(20)

----------------------------------------------------------------------------
(* aggregated_voting_power is a fold, and the first part shows that it is  *)
(* a sum: the fold exists, whichever validator is counted first, and sets  *)
(* without a common member add up.  Every "for all sets of size n" is      *)
(* shown by looking at a least n where it fails.                           *)

(* The threshold of ValidatorVerifier::new is as low as two overlapping    *)
(* quorums allow, and as high as a silent third allows.                    *)
LEMMA Threshold ==
    ASSUME NEW total \in Nat, NEW byzantine \in Nat, 3 * byzantine < total
    PROVE  /\ QuorumOf(total) \in Nat
           /\ 2 * QuorumOf(total) > total + byzantine
           /\ QuorumOf(total) <= total - byzantine
<1> DEFINE q == (total * 2) \div 3
<1>1. q \in Nat /\ 3 * q <= total * 2 /\ total * 2 < 3 * q + 3
  BY SMT
<1>2. QuorumOf(total) = q + 1
  BY DEF QuorumOf
<1> HIDE DEF q
<1> QED BY <1>1, <1>2, SMT

(* A set of numbers that is not empty has a least element.                 *)
LEMMA LeastNat ==
    ASSUME NEW T \in SUBSET Nat, T # {}
    PROVE  \E m \in T : \A n \in T : m <= n
<1>1. PICK m \in T : \A n \in T : <<n, m>> \notin OpToRel(<, Nat)
  BY NatLessThanWellFounded, WFMin, Zenon
<1>2. \A n \in T : ~(n < m)
  BY <1>1, Zenon DEF OpToRel
<1> QED BY <1>2

(* The fold of aggregated_voting_power: the power of one member after the  *)
(* other, in the order that Pick gives.                                    *)
Pick(s) == CHOOSE a \in s : TRUE

Folds(info, D, f) ==
    f = [s \in D |-> IF s = {} THEN 0 ELSE info[Pick(s)] + f[s \ {Pick(s)}]]

FoldsAll(info, S, f) == Folds(info, SUBSET S, f)

UpTo(S, n) == {s \in SUBSET S : Cardinality(s) <= n}

LEMMA Removed ==
    ASSUME NEW S, IsFiniteSet(S), NEW x \in S
    PROVE  /\ IsFiniteSet(S \ {x}) /\ Cardinality(S) \in Nat /\ Cardinality(S \ {x}) \in Nat
           /\ Cardinality(S \ {x}) = Cardinality(S) - 1
BY FS_RemoveElement, FS_CardinalityType

LEMMA FoldGrows ==
    ASSUME NEW info, NEW S, IsFiniteSet(S), NEW n \in Nat,
           NEW g, Folds(info, UpTo(S, n), g)
    PROVE  \E f : Folds(info, UpTo(S, n + 1), f)
<1> DEFINE f == [s \in UpTo(S, n + 1) |->
                    IF s = {} THEN 0 ELSE info[Pick(s)] + g[s \ {Pick(s)}]]
<1>1. ASSUME NEW s \in UpTo(S, n + 1), s # {}
      PROVE  s \ {Pick(s)} \in UpTo(S, n) /\ s \ {Pick(s)} \in UpTo(S, n + 1)
  <2>1. Pick(s) \in s
    BY <1>1 DEF Pick
  <2>2. IsFiniteSet(s) /\ s \in SUBSET S /\ Cardinality(s) <= n + 1
    BY FS_Subset DEF UpTo
  <2> QED BY <2>1, <2>2, Removed DEF UpTo
<1>2. \A t \in UpTo(S, n) : g[t] = IF t = {} THEN 0 ELSE info[Pick(t)] + g[t \ {Pick(t)}]
  BY Zenon DEF Folds
<1>3. \A t \in UpTo(S, n) : t \in UpTo(S, n + 1) => f[t] = g[t]
  BY <1>2, Zenon
<1>4. \A s \in UpTo(S, n + 1) :
        (IF s = {} THEN 0 ELSE info[Pick(s)] + g[s \ {Pick(s)}])
      = (IF s = {} THEN 0 ELSE info[Pick(s)] + f[s \ {Pick(s)}])
  <2> HIDE DEF f
  <2> QED BY <1>1, <1>3
<1>5. Folds(info, UpTo(S, n + 1), f)
  <2>1. f = [s \in UpTo(S, n + 1) |-> IF s = {} THEN 0 ELSE info[Pick(s)] + g[s \ {Pick(s)}]]
    OBVIOUS
  <2> HIDE DEF f
  <2> QED BY <2>1, <1>4, Zenon DEF Folds
<1> QED BY <1>5

LEMMA FoldExists ==
    ASSUME NEW info, NEW S, IsFiniteSet(S)
    PROVE  \E f : FoldsAll(info, S, f)
<1> DEFINE Bad == {n \in Nat : ~ \E f : Folds(info, UpTo(S, n), f)}
<1>1. \E f : Folds(info, UpTo(S, 0), f)
  <2> DEFINE g == [s \in UpTo(S, 0) |-> 0]
  <2>1. \A s \in UpTo(S, 0) : s = {}
    <3> SUFFICES ASSUME NEW s \in UpTo(S, 0) PROVE s = {}
      OBVIOUS
    <3>1. IsFiniteSet(s) /\ Cardinality(s) \in Nat /\ Cardinality(s) <= 0
      BY FS_Subset, FS_CardinalityType DEF UpTo
    <3> QED BY <3>1, FS_EmptySet
  <2>2. Folds(info, UpTo(S, 0), g)
    BY <2>1 DEF Folds
  <2> QED BY <2>2
<1>2. Bad = {}
  <2>1. SUFFICES ASSUME Bad # {} PROVE FALSE
    OBVIOUS
  <2>2. PICK m \in Bad : \A n \in Bad : m <= n
    BY <2>1, LeastNat, Zenon
  <2>3. m # 0
    BY <1>1
  <2>4. m - 1 \in Nat /\ (m - 1) + 1 = m /\ m - 1 \notin Bad
    BY <2>2, <2>3
  <2>5. PICK g : Folds(info, UpTo(S, m - 1), g)
    BY <2>4
  <2>6. \E f : Folds(info, UpTo(S, (m - 1) + 1), f)
    BY <2>4, <2>5, FoldGrows
  <2> QED BY <2>4, <2>6
<1>3. Cardinality(S) \in Nat
  BY FS_CardinalityType
<1>4. UpTo(S, Cardinality(S)) = SUBSET S
  <2>1. \A s \in SUBSET S : Cardinality(s) <= Cardinality(S)
    BY FS_Subset
  <2>2. \A s : s \in UpTo(S, Cardinality(S)) <=> s \in SUBSET S
    BY <2>1 DEF UpTo
  <2> QED BY <2>2 DEF UpTo
<1>5. \E f : Folds(info, UpTo(S, Cardinality(S)), f)
  BY <1>2, <1>3
<1> QED BY <1>4, <1>5 DEF FoldsAll

(* Two folds that reach a set give it the same power.                      *)
LEMMA FoldUnique ==
    ASSUME NEW info, NEW S, IsFiniteSet(S), NEW T, T \subseteq S,
           NEW f, FoldsAll(info, S, f), NEW g, FoldsAll(info, T, g)
    PROVE  f[T] = g[T]
<1> DEFINE Bad == {n \in Nat : \E s \in SUBSET T : Cardinality(s) = n /\ f[s] # g[s]}
<1>1. Bad = {}
  <2>1. SUFFICES ASSUME Bad # {} PROVE FALSE
    OBVIOUS
  <2>2. PICK m \in Bad : \A n \in Bad : m <= n
    BY <2>1, LeastNat, Zenon
  <2>3. PICK s \in SUBSET T : Cardinality(s) = m /\ f[s] # g[s]
    OBVIOUS
  <2>4. /\ f[s] = IF s = {} THEN 0 ELSE info[Pick(s)] + f[s \ {Pick(s)}]
        /\ g[s] = IF s = {} THEN 0 ELSE info[Pick(s)] + g[s \ {Pick(s)}]
    BY Zenon DEF FoldsAll, Folds
  <2>5. s # {} /\ f[s \ {Pick(s)}] # g[s \ {Pick(s)}]
    BY <2>3, <2>4
  <2>6. Pick(s) \in s
    BY <2>5 DEF Pick
  <2>7. IsFiniteSet(s)
    BY FS_Subset
  <2>8. Cardinality(s \ {Pick(s)}) \in Nat /\ Cardinality(s \ {Pick(s)}) = m - 1
    BY <2>3, <2>6, <2>7, Removed
  <2>9. m - 1 \in Bad
    BY <2>5, <2>8
  <2> QED BY <2>2, <2>9
<1>2. IsFiniteSet(T) /\ Cardinality(T) \in Nat
  BY FS_Subset, FS_CardinalityType
<1> QED BY <1>1, <1>2

(* aggregated_voting_power adds up the powers of the validators.           *)
LEMMA PowerUnfolds ==
    ASSUME NEW info, NEW S, IsFiniteSet(S)
    PROVE  /\ S = {} => aggregated_voting_power(info, S) = 0
           /\ S # {} => /\ Pick(S) \in S
                        /\ aggregated_voting_power(info, S)
                              = info[Pick(S)] + aggregated_voting_power(info, S \ {Pick(S)})
<1> DEFINE Fold(T) == CHOOSE f : FoldsAll(info, T, f)
<1>1. \A T : aggregated_voting_power(info, T) = Fold(T)[T]
  BY DEF aggregated_voting_power, MapThenSumSet, MapThenFoldSet, FoldsAll, Folds, Pick
<1>2. \A T : IsFiniteSet(T) => FoldsAll(info, T, Fold(T))
  BY FoldExists
<1> HIDE DEF Fold
<1>3. Fold(S)[S] = IF S = {} THEN 0 ELSE info[Pick(S)] + Fold(S)[S \ {Pick(S)}]
  BY <1>2, Zenon DEF FoldsAll, Folds
<1>4. IsFiniteSet(S \ {Pick(S)}) /\ S \ {Pick(S)} \in SUBSET S
  BY FS_Subset
<1>5. Fold(S)[S \ {Pick(S)}] = Fold(S \ {Pick(S)})[S \ {Pick(S)}]
  <2>1. \A T : IsFiniteSet(T) /\ T \subseteq S => Fold(S)[T] = Fold(T)[T]
    BY <1>2, FoldUnique
  <2> QED BY <1>4, <2>1
<1>6. S # {} => Pick(S) \in S
  BY DEF Pick
<1> QED BY <1>1, <1>3, <1>5, <1>6

LEMMA PowerNat ==
    ASSUME NEW info, NEW V, IsFiniteSet(V), \A a \in V : info[a] \in Nat
    PROVE  \A S \in SUBSET V : aggregated_voting_power(info, S) \in Nat
<1> DEFINE Bad == {n \in Nat : \E S \in SUBSET V : /\ Cardinality(S) = n
                                                   /\ aggregated_voting_power(info, S) \notin Nat}
<1>1. Bad = {}
  <2>1. SUFFICES ASSUME Bad # {} PROVE FALSE
    OBVIOUS
  <2>2. PICK m \in Bad : \A n \in Bad : m <= n
    BY <2>1, LeastNat, Zenon
  <2>3. PICK S \in SUBSET V : Cardinality(S) = m /\ aggregated_voting_power(info, S) \notin Nat
    OBVIOUS
  <2>4. IsFiniteSet(S)
    BY FS_Subset
  <2>5. S # {} /\ Pick(S) \in S /\ info[Pick(S)] \in Nat
    <3>1. S # {}
      <4>1. S = {} => aggregated_voting_power(info, S) = 0
        BY <2>4, PowerUnfolds, Zenon
      <4> QED BY <2>3, <4>1
    <3>2. Pick(S) \in S
      BY <3>1 DEF Pick
    <3> QED BY <3>1, <3>2
  <2>6. aggregated_voting_power(info, S) = info[Pick(S)] + aggregated_voting_power(info, S \ {Pick(S)})
    BY <2>4, <2>5, PowerUnfolds
  <2>7. aggregated_voting_power(info, S \ {Pick(S)}) \notin Nat
    BY <2>3, <2>5, <2>6
  <2>8. Cardinality(S \ {Pick(S)}) \in Nat /\ Cardinality(S \ {Pick(S)}) = m - 1
    BY <2>3, <2>4, <2>5, Removed
  <2>9. m - 1 \in Bad
    BY <2>7, <2>8
  <2> QED BY <2>2, <2>9
<1>2. \A S \in SUBSET V : Cardinality(S) \in Nat
  BY FS_Subset, FS_CardinalityType
<1> QED BY <1>1, <1>2

(* Whichever validator is counted first, the sum is the same.              *)
LEMMA PowerOfOneMore ==
    ASSUME NEW info, NEW V, IsFiniteSet(V), \A a \in V : info[a] \in Nat,
           NEW R \in SUBSET V, NEW b \in R
    PROVE  aggregated_voting_power(info, R) = info[b] + aggregated_voting_power(info, R \ {b})
<1> DEFINE p(S) == aggregated_voting_power(info, S)
           Wrong(S) == \E a \in S : p(S) # info[a] + p(S \ {a})
           Bad == {n \in Nat : \E S \in SUBSET V : Cardinality(S) = n /\ Wrong(S)}
<1>0. \A S \in SUBSET V : p(S) \in Nat /\ IsFiniteSet(S)
  BY PowerNat, FS_Subset
<1>1. Bad = {}
  <2>1. SUFFICES ASSUME Bad # {} PROVE FALSE
    OBVIOUS
  <2>2. PICK m \in Bad : \A n \in Bad : m <= n
    BY <2>1, LeastNat, Zenon
  <2>3. PICK S \in SUBSET V : Cardinality(S) = m /\ Wrong(S)
    OBVIOUS
  <2>4. PICK a \in S : p(S) # info[a] + p(S \ {a})
    BY <2>3, Zenon
  <2> DEFINE c == Pick(S)
  <2>5. c \in S /\ p(S) = info[c] + p(S \ {c})
    BY <1>0, <2>4, PowerUnfolds, Zenon
  <2>6. a # c
    BY <2>4, <2>5
  <2>7. /\ Cardinality(S \ {a}) \in Nat /\ Cardinality(S \ {a}) = m - 1
        /\ Cardinality(S \ {c}) \in Nat /\ Cardinality(S \ {c}) = m - 1
    BY <1>0, <2>3, <2>5, Removed
  <2>8. m - 1 \notin Bad
    BY <2>2, <2>7
  <2>9. ~Wrong(S \ {a}) /\ ~Wrong(S \ {c})
    BY <2>7, <2>8
  <2> HIDE DEF c, p
  <2>10. /\ p(S \ {c}) = info[a] + p((S \ {c}) \ {a})
         /\ p(S \ {a}) = info[c] + p((S \ {a}) \ {c})
    BY <2>5, <2>6, <2>9, Zenon
  <2>11. (S \ {c}) \ {a} = (S \ {a}) \ {c}
    OBVIOUS
  <2>12. p((S \ {a}) \ {c}) \in Nat /\ info[a] \in Nat /\ info[c] \in Nat
    BY <1>0, <2>5
  <2> QED BY <2>4, <2>5, <2>10, <2>11, <2>12
<1>2. Cardinality(R) \in Nat
  BY FS_Subset, FS_CardinalityType
<1>3. ~Wrong(R)
  BY <1>1, <1>2
<1> QED BY <1>3

(* Validator sets without a common member add up.                          *)
LEMMA PowerOfUnion ==
    ASSUME NEW info, NEW V, IsFiniteSet(V), \A a \in V : info[a] \in Nat,
           NEW R \in SUBSET V, NEW T \in SUBSET V, R \cap T = {}
    PROVE  aggregated_voting_power(info, R \cup T)
               = aggregated_voting_power(info, R) + aggregated_voting_power(info, T)
<1> DEFINE p(S) == aggregated_voting_power(info, S)
           Wrong(S) == S \cap T = {} /\ p(S \cup T) # p(S) + p(T)
           Bad == {n \in Nat : \E S \in SUBSET V : Cardinality(S) = n /\ Wrong(S)}
<1>0. \A S \in SUBSET V : p(S) \in Nat /\ IsFiniteSet(S)
  BY PowerNat, FS_Subset
<1>1. Bad = {}
  <2>1. SUFFICES ASSUME Bad # {} PROVE FALSE
    BY Zenon
  <2>2. PICK m \in Bad : \A n \in Bad : m <= n
    BY <2>1, LeastNat, Zenon
  <2>3. PICK S \in SUBSET V : Cardinality(S) = m /\ Wrong(S)
    OBVIOUS
  <2>4. S # {}
    <3>1. p({}) = 0
      BY <1>0, PowerUnfolds, Zenon
    <3>2. p(T) \in Nat
      BY <1>0
    <3>3. {} \cup T = T
      OBVIOUS
    <3> HIDE DEF p
    <3> QED BY <2>3, <3>1, <3>2, <3>3
  <2>5. PICK a \in S : TRUE
    BY <2>4
  <2>6. p(S) = info[a] + p(S \ {a})
    BY PowerOfOneMore
  <2>7. p(S \cup T) = info[a] + p((S \cup T) \ {a})
    BY PowerOfOneMore
  <2>8. (S \cup T) \ {a} = (S \ {a}) \cup T
    BY <2>3
  <2>9. Cardinality(S \ {a}) \in Nat /\ Cardinality(S \ {a}) = m - 1
    BY <1>0, <2>3, Removed
  <2>10. m - 1 \notin Bad
    <3>1. m \in Nat /\ ~(m <= m - 1)
      OBVIOUS
    <3> HIDE DEF Bad
    <3> QED BY <2>2, <3>1
  <2>11. ~Wrong(S \ {a})
    BY <2>9, <2>10, Zenon
  <2> HIDE DEF p
  <2>13. p((S \ {a}) \cup T) = p(S \ {a}) + p(T)
    BY <2>3, <2>11
  <2> USE DEF p
  <2>12. /\ p(S \ {a}) \in Nat /\ p(T) \in Nat /\ info[a] \in Nat
         /\ p((S \ {a}) \cup T) \in Nat
    BY <1>0
  <2> HIDE DEF p
  <2>14. p(S \cup T) = p(S) + p(T)
    <3>1. p((S \cup T) \ {a}) = p((S \ {a}) \cup T)
      BY <2>8
    <3> QED BY <2>6, <2>7, <2>12, <2>13, <3>1
  <2> QED BY <2>3, <2>14
<1>2. Cardinality(R) \in Nat
  BY FS_Subset, FS_CardinalityType
<1>3. ~Wrong(R)
  BY <1>1, <1>2, Zenon
<1> QED BY <1>3

----------------------------------------------------------------------------

(* A larger set of validators has no less power.                           *)
LEMMA PowerMonotone ==
    ASSUME NEW info, NEW V, IsFiniteSet(V), \A a \in V : info[a] \in Nat,
           NEW T \in SUBSET V, NEW R \in SUBSET T
    PROVE  aggregated_voting_power(info, R) <= aggregated_voting_power(info, T)
<1>1. R \cup (T \ R) = T /\ R \cap (T \ R) = {} /\ R \in SUBSET V /\ T \ R \in SUBSET V
  OBVIOUS
<1>2. aggregated_voting_power(info, R \cup (T \ R))
          = aggregated_voting_power(info, R) + aggregated_voting_power(info, T \ R)
  BY <1>1, PowerOfUnion
<1>3. /\ aggregated_voting_power(info, R) \in Nat
      /\ aggregated_voting_power(info, T \ R) \in Nat
  BY <1>1, PowerNat
<1>4. aggregated_voting_power(info, R \cup (T \ R)) = aggregated_voting_power(info, T)
  BY <1>1
<1> QED BY <1>2, <1>3, <1>4

(* A validator set as ValidatorVerifier::new gets it, and the validators   *)
(* in it that may fail: less than a third of the voting power.             *)
IsVerifier(info) == IsFiniteSet(DOMAIN info) /\ \A a \in DOMAIN info : info[a] \in Nat

Tolerates(info, B) ==
    /\ B \subseteq DOMAIN info
    /\ 3 * aggregated_voting_power(info, B) < total_voting_power(info)

(* Any two sets of validators that check_voting_power accepts share one    *)
(* that does not fail.                                                     *)
THEOREM PowerQuorumsIntersect ==
    ASSUME NEW info, IsVerifier(info), NEW B, Tolerates(info, B),
           NEW P, check_voting_power(info, P), NEW Q, check_voting_power(info, Q)
    PROVE  (P \cap Q) \ B # {}
<1> DEFINE V == DOMAIN info
           p(S) == aggregated_voting_power(info, S)
<1>1. /\ IsFiniteSet(V) /\ \A a \in V : info[a] \in Nat
      /\ B \in SUBSET V /\ P \in SUBSET V /\ Q \in SUBSET V
  BY DEF IsVerifier, Tolerates, check_voting_power
<1>2. \A S \in SUBSET V : p(S) \in Nat
  BY <1>1, PowerNat
<1>3. p(P \cup Q) = p(P) + p(Q \ P)
  <2>1. P \cup Q = P \cup (Q \ P) /\ P \cap (Q \ P) = {} /\ Q \ P \in SUBSET V
    BY <1>1
  <2>2. p(P \cup (Q \ P)) = p(P) + p(Q \ P)
    BY <1>1, <2>1, PowerOfUnion
  <2> QED BY <2>1, <2>2
<1>4. p(Q) = p(P \cap Q) + p(Q \ P)
  <2>1. /\ Q = (P \cap Q) \cup (Q \ P) /\ (P \cap Q) \cap (Q \ P) = {}
        /\ P \cap Q \in SUBSET V /\ Q \ P \in SUBSET V
    BY <1>1
  <2>2. p((P \cap Q) \cup (Q \ P)) = p(P \cap Q) + p(Q \ P)
    BY <1>1, <2>1, PowerOfUnion
  <2> QED BY <2>1, <2>2
<1>5. p(P \cup Q) <= p(V)
  <2>1. V \in SUBSET V /\ P \cup Q \in SUBSET V
    BY <1>1
  <2> QED BY <1>1, <2>1, PowerMonotone
<1>6. 3 * p(B) < p(V) /\ p(V) \in Nat /\ p(B) \in Nat
  <2>1. 3 * p(B) < p(V)
    BY DEF Tolerates, total_voting_power
  <2>2. V \in SUBSET V
    OBVIOUS
  <2> HIDE DEF p
  <2> QED BY <1>1, <1>2, <2>1, <2>2
<1>7. V # {}
  <2>1. V = {} => p(V) = 0
    BY <1>1, PowerUnfolds, Zenon
  <2> HIDE DEF p, V
  <2> QED BY <1>6, <2>1
<1>8. p(P) >= QuorumOf(p(V)) /\ p(Q) >= QuorumOf(p(V))
  BY <1>7 DEF check_voting_power, quorum_voting_power, total_voting_power
<1>9. QuorumOf(p(V)) \in Nat /\ 2 * QuorumOf(p(V)) > p(V) + p(B)
  <2> HIDE DEF p, V
  <2> QED BY <1>6, Threshold, Zenon
<1>10. /\ p(P) \in Nat /\ p(Q) \in Nat /\ p(P \cap Q) \in Nat
       /\ p(Q \ P) \in Nat /\ p(P \cup Q) \in Nat
  <2>1. P \cap Q \in SUBSET V /\ Q \ P \in SUBSET V /\ P \cup Q \in SUBSET V
    BY <1>1
  <2> HIDE DEF p
  <2> QED BY <1>1, <1>2, <2>1
<1>11. p(P \cap Q) > p(B)
  <2> HIDE DEF p, V
  <2> QED BY <1>3, <1>4, <1>5, <1>6, <1>8, <1>9, <1>10
<1>12. P \cap Q \in SUBSET B => p(P \cap Q) <= p(B)
  BY <1>1, PowerMonotone
<1> HIDE DEF p, V
<1>13. ~(P \cap Q \in SUBSET B)
  BY <1>6, <1>10, <1>11, <1>12
<1> QED BY <1>13

(* Without the validators that may fail, the others are still accepted by  *)
(* check_voting_power.                                                     *)
THEOREM PowerQuorumExists ==
    ASSUME NEW info, IsVerifier(info), NEW B, Tolerates(info, B)
    PROVE  check_voting_power(info, DOMAIN info \ B)
<1> DEFINE V == DOMAIN info
           p(S) == aggregated_voting_power(info, S)
<1>1. IsFiniteSet(V) /\ (\A a \in V : info[a] \in Nat) /\ B \in SUBSET V
  BY DEF IsVerifier, Tolerates
<1>2. p(V) \in Nat /\ p(B) \in Nat /\ p(V \ B) \in Nat
  <2>1. V \in SUBSET V /\ V \ B \in SUBSET V
    OBVIOUS
  <2> QED BY <1>1, <2>1, PowerNat
<1>3. p(V) = p(V \ B) + p(B)
  <2>1. V = (V \ B) \cup B /\ (V \ B) \cap B = {} /\ V \ B \in SUBSET V
    BY <1>1
  <2>2. p((V \ B) \cup B) = p(V \ B) + p(B)
    BY <1>1, <2>1, PowerOfUnion
  <2> QED BY <2>1, <2>2
<1>4. 3 * p(B) < p(V)
  BY DEF Tolerates, total_voting_power
<1>5. V # {}
  <2>1. V = {} => p(V) = 0
    BY <1>1, PowerUnfolds, Zenon
  <2> HIDE DEF p, V
  <2> QED BY <1>2, <1>4, <2>1
<1>6. QuorumOf(p(V)) \in Nat /\ QuorumOf(p(V)) <= p(V) - p(B)
  <2> HIDE DEF p, V
  <2> QED BY <1>2, <1>4, Threshold, Zenon
<1>7. p(V \ B) >= QuorumOf(p(V))
  <2> HIDE DEF p, V
  <2> QED BY <1>2, <1>3, <1>6
<1> QED BY <1>5, <1>7 DEF check_voting_power, quorum_voting_power, total_voting_power

(* More signers never make check_voting_power refuse.                      *)
THEOREM PowerQuorumsGrow ==
    ASSUME NEW info, IsVerifier(info),
           NEW P, check_voting_power(info, P), NEW Q, P \subseteq Q, Q \subseteq DOMAIN info
    PROVE  check_voting_power(info, Q)
<1>1. /\ IsFiniteSet(DOMAIN info) /\ \A a \in DOMAIN info : info[a] \in Nat
      /\ Q \in SUBSET DOMAIN info /\ P \in SUBSET Q /\ P \in SUBSET DOMAIN info
  BY DEF IsVerifier
<1>2. aggregated_voting_power(info, P) <= aggregated_voting_power(info, Q)
  BY <1>1, PowerMonotone
<1>3. /\ aggregated_voting_power(info, P) \in Nat /\ aggregated_voting_power(info, Q) \in Nat
      /\ total_voting_power(info) \in Nat
  <2>1. DOMAIN info \in SUBSET DOMAIN info
    OBVIOUS
  <2> QED BY <1>1, <2>1, PowerNat DEF total_voting_power
<1>4. quorum_voting_power(info) \in Nat
  BY <1>3, SMT DEF quorum_voting_power, QuorumOf
<1>5. aggregated_voting_power(info, P) >= quorum_voting_power(info)
  BY DEF check_voting_power
<1>6. aggregated_voting_power(info, Q) >= quorum_voting_power(info)
  BY <1>2, <1>3, <1>4, <1>5
<1> QED BY <1>6 DEF check_voting_power

(* The invariant: the validator sets that reconfigurations lead to.        *)
VerifierInv == IsVerifier(address_to_validator_info)

(* Every validator set that reconfigurations reach is finite and has       *)
(* natural powers.                                                         *)
THEOREM VerifierInvariance == Reconfigurations => []VerifierInv
<1>1. NoValidators => VerifierInv
  BY FS_EmptySet DEF NoValidators, VerifierInv, IsVerifier
<1>2. VerifierInv /\ [Reconfigure]_address_to_validator_info => VerifierInv'
  <2> SUFFICES ASSUME VerifierInv, [Reconfigure]_address_to_validator_info PROVE VerifierInv'
    OBVIOUS
  <2> USE DEF VerifierInv, IsVerifier
  <2>1. ASSUME NEW a \in Addresses, NEW power \in 0..MaxPower, Admit(a, power) PROVE VerifierInv'
    <3>1. DOMAIN address_to_validator_info' = DOMAIN address_to_validator_info \cup {a}
      BY <2>1 DEF Admit
    <3>2. IsFiniteSet(DOMAIN address_to_validator_info')
      BY <3>1, FS_AddElement
    <3>3. \A x \in DOMAIN address_to_validator_info' : address_to_validator_info'[x] \in Nat
      BY <2>1, <3>1 DEF Admit
    <3> QED BY <3>2, <3>3
  <2>2. ASSUME NEW a \in Addresses, Remove(a) PROVE VerifierInv'
    <3>1. DOMAIN address_to_validator_info' = DOMAIN address_to_validator_info \ {a}
      BY <2>2 DEF Remove
    <3>2. IsFiniteSet(DOMAIN address_to_validator_info')
      BY <3>1, FS_RemoveElement
    <3>3. \A x \in DOMAIN address_to_validator_info' : address_to_validator_info'[x] \in Nat
      BY <2>2, <3>1 DEF Remove
    <3> QED BY <3>2, <3>3
  <2>3. CASE UNCHANGED address_to_validator_info
    BY <2>3
  <2> QED BY <2>1, <2>2, <2>3 DEF Reconfigure
<1> QED BY <1>1, <1>2, PTL DEF Reconfigurations

(* In every validator set, two quorums share a validator that does not     *)
(* fail, if those that do have less than a third of the voting power.      *)
THEOREM QuorumsAlwaysShareHonest == Reconfigurations => []QuorumsShareHonest
<1>1. VerifierInv => QuorumsShareHonest
  BY PowerQuorumsIntersect DEF VerifierInv, QuorumsShareHonest, Tolerated, Quorums, Members, Tolerates
<1> QED BY <1>1, VerifierInvariance, PTL

(* In every validator set, those that do not fail are a quorum.            *)
THEOREM HonestAlwaysFormQuorum == Reconfigurations => []HonestFormQuorum
<1>1. VerifierInv => HonestFormQuorum
  BY PowerQuorumExists DEF VerifierInv, HonestFormQuorum, Tolerated, Quorums, Members, Tolerates
<1> QED BY <1>1, VerifierInvariance, PTL

(* While fewer than a third of the validators are Byzantine, any two sets  *)
(* that reach quorum_voting_power share an honest validator, and the       *)
(* honest validators reach it alone: the QuorumAssumption of module        *)
(* LibraBFT, for validators of equal power.                                *)
THEOREM EqualPowerQuorums ==
    ASSUME NEW Vs, IsFiniteSet(Vs),
           NEW B \in SUBSET Vs,
           3 * Cardinality(B) < Cardinality(Vs),
           NEW P \in SUBSET Vs, NEW Q \in SUBSET Vs,
           Cardinality(P) >= QuorumOf(Cardinality(Vs)),
           Cardinality(Q) >= QuorumOf(Cardinality(Vs))
    PROVE  /\ P \cap Q \cap (Vs \ B) # {}
           /\ Cardinality(Vs \ B) >= QuorumOf(Cardinality(Vs))
<1> DEFINE n == Cardinality(Vs)
           f == Cardinality(B)
           H == Vs \ B
<1>1. /\ IsFiniteSet(B) /\ IsFiniteSet(P) /\ IsFiniteSet(Q)
      /\ IsFiniteSet(H) /\ IsFiniteSet(P \cap Q) /\ IsFiniteSet(P \cup Q)
  BY FS_Subset
<1>2. /\ n \in Nat /\ f \in Nat /\ Cardinality(P) \in Nat /\ Cardinality(Q) \in Nat
      /\ Cardinality(H) \in Nat /\ Cardinality(P \cap Q) \in Nat
      /\ Cardinality(P \cup Q) \in Nat
  BY <1>1, FS_CardinalityType
<1>3. /\ QuorumOf(n) \in Nat
      /\ 2 * QuorumOf(n) > n + f
      /\ QuorumOf(n) <= n - f
  BY <1>2, Threshold, Zenon
<1>4. Cardinality(P \cup Q) <= n
  BY FS_Subset
<1>5. Cardinality(P \cup Q) = Cardinality(P) + Cardinality(Q) - Cardinality(P \cap Q)
  BY <1>1, FS_Union
<1>6. Cardinality(P \cap Q) > f
  <2> HIDE DEF n, f
  <2> QED BY <1>2, <1>3, <1>4, <1>5 DEF n
<1>7. ~(P \cap Q \subseteq B)
  <2>1. P \cap Q \in SUBSET B => Cardinality(P \cap Q) <= f
    BY <1>1, FS_Subset
  <2> QED BY <2>1, <1>6, <1>2
<1>8. Cardinality(H) >= QuorumOf(n)
  <2>1. H \cup B = Vs /\ H \cap B = {}
    OBVIOUS
  <2>2. n = Cardinality(H) + f - Cardinality({})
    BY <1>1, <2>1, FS_Union
  <2>3. Cardinality({}) = 0
    BY FS_EmptySet
  <2> HIDE DEF n, f, H
  <2> QED BY <2>2, <2>3, <1>2, <1>3
<1> QED BY <1>7, <1>8

----------------------------------------------------------------------------

(* The votes of a round.                                                   *)

LEMMA QuorumFacts ==
    /\ IsQuorum(Honest)
    /\ \A P, Q \in SUBSET Validators :
          /\ IsQuorum(P) /\ P \subseteq Q => IsQuorum(Q)
          /\ IsQuorum(P) /\ IsQuorum(Q) => P \cap Q \cap Honest # {}
<1>1. IsVerifier(VotingPower)
  BY PowerAssumption DEF IsVerifier, Validators
<1>2. Tolerates(VotingPower, Byzantine)
  BY PowerAssumption DEF Tolerates, Validators
<1>3. IsQuorum(Honest)
  BY <1>1, <1>2, PowerQuorumExists DEF IsQuorum, Honest, Validators
<1>4. ASSUME NEW P \in SUBSET Validators, NEW Q \in SUBSET Validators, IsQuorum(P), P \subseteq Q
      PROVE  IsQuorum(Q)
  BY <1>1, <1>4, PowerQuorumsGrow DEF IsQuorum, Validators
<1>5. ASSUME NEW P \in SUBSET Validators, NEW Q \in SUBSET Validators, IsQuorum(P), IsQuorum(Q)
      PROVE  P \cap Q \cap Honest # {}
  <2>1. (P \cap Q) \ Byzantine # {}
    BY <1>1, <1>2, <1>5, PowerQuorumsIntersect DEF IsQuorum
  <2> QED BY <2>1 DEF Honest
<1> QED BY <1>3, <1>4, <1>5

(* The signatures kept are those of the votes kept, one vote an author.    *)
SignaturesOfVotes ==
    /\ \A w, x \in author_to_vote : w.author = x.author => w = x
    /\ \A w \in author_to_vote : <<w.li, w.author>> \in li_digest_to_votes
    /\ \A li \in LedgerInfos, a \in Validators :
          <<li, a>> \in li_digest_to_votes =>
              \E w \in author_to_vote : w.author = a /\ w.li = li

(* A timeout kept with a vote is in the partial TC, unless a QC was        *)
(* returned instead; what is in the partial TC was received.               *)
TimeoutsOfVotes ==
    /\ \A w \in author_to_vote : w.timeout => w.author \in maybe_partial_tc \/ qcs # {}
    /\ \A a \in maybe_partial_tc : \E w \in received : w.author = a /\ w.timeout

(* Votes of honest validators are for their choice, and a timeout of theirs *)
(* is never forgotten.                                                     *)
HonestVotes ==
    \A v \in received : v.author \in Honest =>
        /\ v.li = choice[v.author]
        /\ v.timeout => \E w \in author_to_vote : w.author = v.author /\ w.timeout

Signers(li) == {a \in Validators : <<li, a>> \in li_digest_to_votes}

(* A certificate was returned as soon as its signatures were a quorum.     *)
Returned ==
    /\ \A li \in LedgerInfos : IsQuorum(Signers(li)) => \E q \in qcs : q.li = li
    /\ IsQuorum(maybe_partial_tc) => qcs # {} \/ tcs # {}

IInv == TypeOK /\ SignaturesOfVotes /\ TimeoutsOfVotes /\ HonestVotes
            /\ Returned /\ CertificatesSound

(* Without a vote there is no quorum.                                      *)
LEMMA EmptyIsNoQuorum == ~IsQuorum({})
  BY QuorumFacts

LEMMA InitIInv == Init => IInv
<1> SUFFICES ASSUME Init PROVE IInv
  OBVIOUS
<1>1. TypeOK /\ SignaturesOfVotes /\ TimeoutsOfVotes /\ HonestVotes /\ CertificatesSound
  BY DEF Init, TypeOK, SignaturesOfVotes, TimeoutsOfVotes, HonestVotes, CertificatesSound
<1>2. \A li : Signers(li) = {}
  BY DEF Init, Signers
<1>3. Returned
  BY <1>2, EmptyIsNoQuorum DEF Init, Returned
<1> QED BY <1>1, <1>3 DEF IInv

(* What keeping a vote does to the votes and the signatures.               *)
LEMMA StoreKeeps ==
    ASSUME IInv, NEW v \in Votes, Receive(v), Store(v),
           ~DuplicateVote(v), ~EquivocateVote(v)
    PROVE  /\ received' \subseteq Votes /\ choice' \in [Honest -> LedgerInfos]
           /\ author_to_vote' \subseteq received'
           /\ li_digest_to_votes' \subseteq LedgerInfos \X Validators
           /\ SignaturesOfVotes' /\ HonestVotes'
           /\ Signers(v.li)' = SignersWith(v)
           /\ \A li \in LedgerInfos \ {v.li} : Signers(li)' = Signers(li)
<1> USE DEF Votes
<1>1. /\ received' \subseteq Votes /\ choice' \in [Honest -> LedgerInfos]
      /\ author_to_vote' \subseteq received'
      /\ li_digest_to_votes' \subseteq LedgerInfos \X Validators
  BY DEF IInv, TypeOK, Receive, Store
<1>2. \A w \in author_to_vote : w.author = v.author => w.li = v.li /\ v.timeout /\ ~w.timeout
  BY DEF IInv, TypeOK, DuplicateVote, EquivocateVote
<1>3. \A w, x \in author_to_vote' : w.author = x.author => w = x
  BY DEF Store, IInv, SignaturesOfVotes
<1>4. \A w \in author_to_vote' : <<w.li, w.author>> \in li_digest_to_votes'
  BY Zenon DEF Store, IInv, SignaturesOfVotes
<1>5. ASSUME NEW li \in LedgerInfos, NEW a \in Validators,
             <<li, a>> \in li_digest_to_votes'
      PROVE  \E w \in author_to_vote' : w.author = a /\ w.li = li
  <2>1. CASE a = v.author
    BY <1>2, <1>5, <2>1 DEF Store, IInv, SignaturesOfVotes
  <2>2. CASE a # v.author
    BY <1>5, <2>2 DEF Store, IInv, SignaturesOfVotes
  <2> QED BY <2>1, <2>2
<1>6. HonestVotes'
  <2> SUFFICES ASSUME NEW x \in received', x.author \in Honest
               PROVE  /\ x.li = choice'[x.author]
                      /\ x.timeout => \E w \in author_to_vote' : w.author = x.author /\ w.timeout
    BY DEF HonestVotes
  <2>1. CASE x = v
    BY <2>1 DEF Receive, Store
  <2>2. CASE x \in received /\ x.author # v.author
    BY <2>2 DEF Receive, Store, IInv, HonestVotes
  <2>3. CASE x \in received /\ x.author = v.author
    <3>1. x.li = choice'[x.author]
      BY <2>3 DEF Receive, IInv, HonestVotes
    <3>2. ~x.timeout
      BY <1>2, <2>3 DEF IInv, HonestVotes
    <3> QED BY <3>1, <3>2
  <2> QED BY <2>1, <2>2, <2>3 DEF Receive
<1>7. Signers(v.li)' = SignersWith(v)
  BY DEF Signers, SignersWith, Store
<1>8. \A li \in LedgerInfos \ {v.li} : Signers(li)' = Signers(li)
  BY DEF Signers, Store
<1> QED BY <1>1, <1>3, <1>4, <1>5, <1>6, <1>7, <1>8 DEF SignaturesOfVotes

(* A vote that is kept was received, so is every signature under it.       *)
LEMMA SignersReceived ==
    ASSUME IInv, NEW v \in Votes, Receive(v)
    PROVE  \A a \in SignersWith(v) :
               a \in Validators /\ \E w \in received' : w.author = a /\ w.li = v.li
<1> USE DEF Votes
<1> SUFFICES ASSUME NEW a \in SignersWith(v)
             PROVE  a \in Validators /\ \E w \in received' : w.author = a /\ w.li = v.li
  OBVIOUS
<1>1. CASE a = v.author
  BY <1>1 DEF Receive
<1>2. CASE a # v.author
  <2>1. a \in Validators /\ \E w \in author_to_vote : w.author = a /\ w.li = v.li
    BY <1>2 DEF SignersWith, IInv, SignaturesOfVotes
  <2> QED BY <2>1 DEF Receive, IInv, TypeOK
<1> QED BY <1>1, <1>2

LEMMA RejectedIInv ==
    ASSUME IInv, NEW v \in Votes, vote_rejected(v)
    PROVE  IInv'
<1> USE DEF Votes
<1>1. UNCHANGED <<choice, author_to_vote, li_digest_to_votes, maybe_partial_tc, qcs, tcs>>
      /\ received' = received \cup {v}
  BY DEF vote_rejected, Receive, kept
<1>2. TypeOK' /\ SignaturesOfVotes' /\ TimeoutsOfVotes' /\ CertificatesSound'
  BY <1>1 DEF IInv, TypeOK, SignaturesOfVotes, TimeoutsOfVotes, CertificatesSound
<1>3. Returned'
  BY <1>1 DEF IInv, Returned, Signers
<1>4. HonestVotes'
  <2>1. ASSUME v.author \in Honest
        PROVE  /\ v.li = choice[v.author]
               /\ v.timeout => \E w \in author_to_vote : w.author = v.author /\ w.timeout
    <3>1. v.li = choice[v.author]
      BY <2>1 DEF vote_rejected, Receive
    <3>2. ~EquivocateVote(v)
      BY <2>1, <3>1 DEF EquivocateVote, IInv, TypeOK, HonestVotes
    <3> QED BY <3>1, <3>2 DEF vote_rejected, DuplicateVote
  <2> QED BY <1>1, <2>1 DEF IInv, HonestVotes
<1> QED BY <1>2, <1>3, <1>4 DEF IInv

LEMMA CompletesQCIInv ==
    ASSUME IInv, NEW v \in Votes, vote_completes_qc(v)
    PROVE  IInv'
<1> USE DEF Votes
<1> DEFINE q == [li |-> v.li, signers |-> SignersWith(v)]
<1>1. /\ received' = received \cup {v} /\ qcs' = qcs \cup {q}
      /\ UNCHANGED <<maybe_partial_tc, tcs>> /\ IsQuorum(SignersWith(v))
  BY DEF vote_completes_qc, Receive
<1>2. Receive(v) /\ Store(v) /\ ~DuplicateVote(v) /\ ~EquivocateVote(v)
  BY DEF vote_completes_qc
<1>3. SignersWith(v) \subseteq Validators
  BY <1>2, SignersReceived
<1>4. TypeOK'
  BY <1>1, <1>2, <1>3, StoreKeeps DEF IInv, TypeOK
<1>5. SignaturesOfVotes' /\ HonestVotes'
  BY <1>2, StoreKeeps
<1>6. TimeoutsOfVotes'
  BY <1>1, Zenon DEF IInv, TimeoutsOfVotes
<1>7. Returned'
  <2>1. ASSUME NEW li \in LedgerInfos, IsQuorum(Signers(li)')
        PROVE  \E p \in qcs' : p.li = li
    <3>1. CASE li = v.li
      <4>1. q.li = v.li /\ q \in qcs'
        BY <1>1
      <4> QED BY <4>1, <3>1
    <3>2. CASE li # v.li
      BY <1>1, <1>2, <2>1, <3>2, StoreKeeps DEF IInv, Returned
    <3> QED BY <3>1, <3>2
  <2> QED BY <1>1, <2>1, Zenon DEF Returned
<1>8. CertificatesSound'
  <2>1. \A p \in qcs' : /\ IsQuorum(p.signers)
                        /\ \A a \in p.signers : \E w \in received' : w.author = a /\ w.li = p.li
    BY <1>1, <1>2, SignersReceived DEF IInv, CertificatesSound
  <2>2. \A t \in tcs' : /\ IsQuorum(t)
                        /\ \A a \in t : \E w \in received' : w.author = a /\ w.timeout
    BY <1>1 DEF IInv, CertificatesSound
  <2> QED BY <2>1, <2>2 DEF CertificatesSound
<1> QED BY <1>4, <1>5, <1>6, <1>7, <1>8 DEF IInv

(* A vote that is kept and completes no QC.                                *)
LEMMA KeptIInv ==
    ASSUME IInv, NEW v \in Votes, vote_completes_tc(v) \/ vote_added(v)
    PROVE  IInv'
<1> USE DEF Votes
<1> DEFINE T == TimeoutsWith(v)
<1>1. /\ received' = received \cup {v} /\ UNCHANGED qcs /\ maybe_partial_tc' = T
      /\ tcs' = tcs \/ (tcs' = tcs \cup {T} /\ IsQuorum(T))
      /\ v.timeout /\ IsQuorum(T) => tcs' = tcs \cup {T}
      /\ ~IsQuorum(SignersWith(v))
  BY DEF vote_completes_tc, vote_added, Receive
<1>2. Receive(v) /\ Store(v) /\ ~DuplicateVote(v) /\ ~EquivocateVote(v)
  BY DEF vote_completes_tc, vote_added
<1>3. /\ T \subseteq Validators
      /\ \A a \in T : \E w \in received' : w.author = a /\ w.timeout
  BY <1>1 DEF TimeoutsWith, IInv, TypeOK, TimeoutsOfVotes
<1>4. TypeOK'
  BY <1>1, <1>2, <1>3, StoreKeeps DEF IInv, TypeOK
<1>5. SignaturesOfVotes' /\ HonestVotes'
  BY <1>2, StoreKeeps
<1>6. TimeoutsOfVotes'
  <2>1. maybe_partial_tc \subseteq T /\ (v.timeout => v.author \in T)
    BY DEF TimeoutsWith
  <2>2. author_to_vote' \subseteq author_to_vote \cup {v}
    BY <1>2 DEF Store
  <2> QED BY <1>1, <1>3, <2>1, <2>2 DEF IInv, TimeoutsOfVotes
<1>7. Returned'
  <2>1. \A li \in LedgerInfos : IsQuorum(Signers(li)') => li # v.li
    BY <1>1, <1>2, StoreKeeps
  <2>2. \A li \in LedgerInfos : IsQuorum(Signers(li)') => \E p \in qcs' : p.li = li
    BY <1>1, <1>2, <2>1, StoreKeeps DEF IInv, Returned
  <2>3. IsQuorum(maybe_partial_tc') => qcs' # {} \/ tcs' # {}
    <3>1. CASE v.timeout
      BY <1>1, <3>1
    <3>2. CASE ~v.timeout
      BY <1>1, <3>2 DEF TimeoutsWith, IInv, Returned
    <3> QED BY <3>1, <3>2
  <2> QED BY <2>2, <2>3 DEF Returned
<1>8. CertificatesSound'
  BY <1>1, <1>3 DEF IInv, CertificatesSound
<1> QED BY <1>4, <1>5, <1>6, <1>7, <1>8 DEF IInv

----------------------------------------------------------------------------

(* The inductive invariant.                                                *)
THEOREM Invariant == Spec => []IInv
<1>1. IInv /\ [Next]_vars => IInv'
  <2> SUFFICES ASSUME IInv, [Next]_vars PROVE IInv'
    OBVIOUS
  <2>1. CASE UNCHANGED vars
    BY <2>1 DEF vars, kept, IInv, TypeOK, SignaturesOfVotes, TimeoutsOfVotes,
                HonestVotes, Returned, Signers, CertificatesSound
  <2>2. ASSUME NEW v \in Votes, insert_vote(v)
        PROVE  IInv'
    BY <2>2, RejectedIInv, CompletesQCIInv, KeptIInv DEF insert_vote
  <2> QED BY <2>1, <2>2 DEF Next
<1> QED BY <1>1, InitIInv, PTL DEF Spec

(* What insert_vote keeps and returns stays well typed.                    *)
THEOREM TypeCorrect == Spec => []TypeOK
<1>1. IInv => TypeOK
  BY DEF IInv
<1> QED BY <1>1, Invariant, PTL

(* Certificates carry only what their signers sent, and a quorum of it.    *)
THEOREM CertificatesAreSound == Spec => []CertificatesSound
<1>1. IInv => CertificatesSound
  BY DEF IInv
<1> QED BY <1>1, Invariant, PTL

(* Two QCs of a round are for the same LedgerInfo: their quorums share an  *)
(* honest validator, which voted for its choice only.                      *)
THEOREM NeverTwoQCs == Spec => []OneQCPerRound
<1>1. IInv => OneQCPerRound
  <2> SUFFICES ASSUME IInv, NEW p \in qcs, NEW q \in qcs PROVE p.li = q.li
    BY DEF OneQCPerRound
  <2>1. /\ p.signers \in SUBSET Validators /\ IsQuorum(p.signers)
        /\ q.signers \in SUBSET Validators /\ IsQuorum(q.signers)
    BY DEF IInv, TypeOK, CertificatesSound
  <2>2. PICK h \in Honest : h \in p.signers /\ h \in q.signers
    BY <2>1, QuorumFacts
  <2>3. p.li = choice[h]
    BY <2>2 DEF IInv, CertificatesSound, HonestVotes
  <2>4. q.li = choice[h]
    BY <2>2 DEF IInv, CertificatesSound, HonestVotes
  <2> QED BY <2>3, <2>4
<1> QED BY <1>1, Invariant, PTL

(* No order of arrival loses a certificate.                                *)
THEOREM NothingLost == Spec => []NoCertificateLost
<1>1. IInv => NoCertificateLost
  <2> SUFFICES ASSUME IInv PROVE NoCertificateLost
    OBVIOUS
  <2>1. ASSUME NEW li \in LedgerInfos
        PROVE  {a \in Validators : \E w \in author_to_vote : w.author = a /\ w.li = li}
                   = Signers(li)
    BY DEF IInv, SignaturesOfVotes, Signers
  <2>2. ASSUME qcs = {}
        PROVE  {a \in Validators : \E w \in author_to_vote : w.author = a /\ w.timeout}
                   \subseteq maybe_partial_tc
    BY <2>2 DEF IInv, TimeoutsOfVotes
  <2>3. maybe_partial_tc \in SUBSET Validators
    BY DEF IInv, TypeOK
  <2> QED BY <2>1, <2>2, <2>3, QuorumFacts DEF NoCertificateLost, IInv, Returned
<1> QED BY <1>1, Invariant, PTL

(* The timeouts of the honest validators end the round.                    *)
THEOREM HonestTimeoutsEndRound == Spec => []HonestTimeoutsSuffice
<1>1. IInv => HonestTimeoutsSuffice
  <2> SUFFICES ASSUME IInv, qcs = {},
                      \A h \in Honest : \E v \in received : v.author = h /\ v.timeout
               PROVE  tcs # {}
    BY DEF HonestTimeoutsSuffice
  <2>1. \A h \in Honest : \E w \in author_to_vote : w.author = h /\ w.timeout
    BY DEF IInv, HonestVotes
  <2>2. Honest \subseteq maybe_partial_tc
    BY <2>1 DEF IInv, TimeoutsOfVotes
  <2>3. maybe_partial_tc \in SUBSET Validators /\ Honest \in SUBSET Validators
    BY DEF IInv, TypeOK, Honest
  <2>4. IsQuorum(maybe_partial_tc)
    BY <2>2, <2>3, QuorumFacts
  <2> QED BY <2>4 DEF IInv, Returned
<1> QED BY <1>1, Invariant, PTL

=============================================================================
