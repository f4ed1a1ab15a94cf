---------------------------- MODULE MempoolProofs ----------------------------
(***************************************************************************)
(* The indexes of the mempool agree with its transactions, its capacities  *)
(* are respected, and get_block offers what consensus can execute next,    *)
(* for any accounts, capacities and submissions and any sequence of calls. *)
(***************************************************************************)
EXTENDS Mempool, FiniteSetTheorems, WellFoundedInduction, TLAPS

(* More time for a step than the provers take by default.                  *)
USE SMTT(20), ZenonT(20)

Txns == [account : Accounts, seq : Nat, gas : Nat, timeline_state : Int]
AllPointers == Accounts \X Nat

Stores ==
    [transactions : SUBSET Txns,
     priority_index : SUBSET [account : Accounts, seq : Nat, gas : Nat],
     system_ttl_index : SUBSET AllPointers, expiration_time_index : SUBSET AllPointers,
     timeline : SUBSET [id : Int, account : Accounts, seq : Nat],
     timeline_id : Nat \ {0}, parking_lot_index : SUBSET AllPointers]

Distinct(T) == \A t, u \in T : TxnPointer(t) = TxnPointer(u) => t = u

(* Ids of the timeline are those given out, each to one transaction.       *)
IdsGiven(T, next) ==
    \A t, u \in T :
        IsReady(t) => /\ t.timeline_state < next
                      /\ t.timeline_state = u.timeline_state => t = u

(* IndexesAgree, for any store.  The timeline has Ready transactions only: *)
(* promotion changes the TimelineState of the others.                      *)
Agree(st) ==
    /\ st \in Stores
    /\ IsFiniteSet(st.transactions)
    /\ Distinct(st.transactions)
    /\ st.system_ttl_index = Pointers(st)
    /\ st.expiration_time_index = Pointers(st)
    /\ st.priority_index \subseteq {OrderedQueueKey(t) : t \in st.transactions}
    /\ st.parking_lot_index \subseteq Pointers(st)
    /\ st.timeline \subseteq {TimelineEntry(t) : t \in {u \in st.transactions : IsReady(u)}}
    /\ IdsGiven(st.transactions, st.timeline_id)

(* What removals do to the transactions of a store.                        *)
Shrinks(new, st) ==
    /\ Agree(new)
    /\ new.transactions \subseteq st.transactions

----------------------------------------------------------------------------

LEMMA PointerType ==
    ASSUME NEW t \in Txns
    PROVE  /\ TxnPointer(t) \in AllPointers
           /\ OrderedQueueKey(t) \in [account : Accounts, seq : Nat, gas : Nat]
           /\ TimelineEntry(t) \in [id : Int, account : Accounts, seq : Nat]
BY DEF Txns, AllPointers, TxnPointer, OrderedQueueKey, TimelineEntry

(* Removing transactions from every index keeps the indexes in agreement.  *)
LEMMA RemoveAgrees ==
    ASSUME NEW st, Agree(st), NEW T \in SUBSET st.transactions
    PROVE  /\ Shrinks(index_remove(st, T), st)
           /\ index_remove(st, T).transactions = st.transactions \ T
<1> DEFINE new == index_remove(st, T)
<1>1. st \in Stores /\ st.transactions \subseteq Txns
  BY DEF Agree, Stores
<1>2. /\ new.transactions = st.transactions \ T
      /\ new.system_ttl_index = st.system_ttl_index \ {TxnPointer(t) : t \in T}
      /\ new.expiration_time_index = st.expiration_time_index \ {TxnPointer(t) : t \in T}
      /\ new.priority_index = st.priority_index \ {OrderedQueueKey(t) : t \in T}
      /\ new.timeline = st.timeline \ {TimelineEntry(t) : t \in T}
      /\ new.parking_lot_index = st.parking_lot_index \ {TxnPointer(t) : t \in T}
      /\ new.timeline_id = st.timeline_id
  BY <1>1 DEF index_remove, Stores
<1>3. new \in Stores
  BY <1>1, Zenon DEF index_remove, Stores
<1> HIDE DEF new
<1>4. Distinct(st.transactions) /\ Distinct(new.transactions)
  BY <1>2 DEF Agree, Distinct
<1>5. Pointers(new) = Pointers(st) \ {TxnPointer(t) : t \in T}
  BY <1>2, <1>4 DEF Pointers, Distinct
<1>6. new.system_ttl_index = Pointers(new) /\ new.expiration_time_index = Pointers(new)
  BY <1>2, <1>5 DEF Agree
<1>7. new.parking_lot_index \subseteq Pointers(new)
  BY <1>2, <1>5 DEF Agree
<1>8. new.priority_index \subseteq {OrderedQueueKey(t) : t \in new.transactions}
  BY <1>2 DEF Agree
<1>9. new.timeline \subseteq {TimelineEntry(t) : t \in {u \in new.transactions : IsReady(u)}}
  BY <1>2 DEF Agree
<1>10. IdsGiven(new.transactions, new.timeline_id)
  BY <1>2 DEF Agree, IdsGiven
<1>11. IsFiniteSet(new.transactions)
  BY <1>2, FS_Subset DEF Agree
<1>12. Shrinks(new, st)
  BY <1>2, <1>3, <1>4, <1>6, <1>7, <1>8, <1>9, <1>10, <1>11 DEF Agree, Shrinks
<1> QED BY <1>2, <1>12 DEF new

LEMMA CollectAgrees ==
    ASSUME NEW st, Agree(st), NEW expired \in SUBSET st.transactions
    PROVE  Shrinks(GarbageCollect(st, expired), st)
<1> DEFINE following == {t \in st.transactions :
                            \E e \in expired : e.account = t.account /\ e.seq < t.seq}
           parked == [st EXCEPT
                        !.parking_lot_index = @ \cup {TxnPointer(t) : t \in following},
                        !.priority_index = @ \ {OrderedQueueKey(t) : t \in following},
                        !.timeline = @ \ {TimelineEntry(t) : t \in following}]
<1>1. st \in Stores /\ st.transactions \subseteq Txns
  BY DEF Agree, Stores
<1>2. following \subseteq st.transactions
  OBVIOUS
<1>3. GarbageCollect(st, expired) = index_remove(parked, expired)
  BY DEF GarbageCollect
<1> HIDE DEF following
<1>4. {TxnPointer(t) : t \in following} \subseteq AllPointers
  BY <1>1, <1>2, PointerType
<1>5. /\ parked.transactions = st.transactions
      /\ parked.system_ttl_index = st.system_ttl_index
      /\ parked.expiration_time_index = st.expiration_time_index
      /\ parked.timeline_id = st.timeline_id
      /\ parked.priority_index \subseteq st.priority_index
      /\ parked.timeline \subseteq st.timeline
      /\ parked.parking_lot_index = st.parking_lot_index \cup {TxnPointer(t) : t \in following}
  BY <1>1 DEF Stores
<1>6. parked \in Stores
  BY <1>1, <1>4, Zenon DEF Stores
<1> HIDE DEF parked
<1>7. Pointers(parked) = Pointers(st)
  BY <1>5 DEF Pointers
<1>8. parked.parking_lot_index \subseteq Pointers(parked)
  BY <1>2, <1>5, <1>7 DEF Agree, Pointers
<1>9. Agree(parked)
  BY <1>5, <1>6, <1>7, <1>8 DEF Agree
<1> QED BY <1>3, <1>5, <1>9, RemoveAgrees DEF Shrinks

LEMMA InsertAgrees ==
    ASSUME NEW st, Agree(st), NEW txn \in Txns, ~IsReady(txn),
           \A t \in st.transactions : TxnPointer(t) # TxnPointer(txn)
    PROVE  /\ Agree(InsertInto(st, txn))
           /\ InsertInto(st, txn).transactions = st.transactions \cup {txn}
<1> DEFINE new == InsertInto(st, txn)
<1>1. st \in Stores /\ TxnPointer(txn) \in AllPointers
  BY PointerType DEF Agree
<1>2. /\ new.transactions = st.transactions \cup {txn}
      /\ new.system_ttl_index = st.system_ttl_index \cup {TxnPointer(txn)}
      /\ new.expiration_time_index = st.expiration_time_index \cup {TxnPointer(txn)}
      /\ new.priority_index = st.priority_index
      /\ new.timeline = st.timeline
      /\ new.parking_lot_index = st.parking_lot_index
      /\ new.timeline_id = st.timeline_id
  BY <1>1 DEF InsertInto, Stores
<1>3. new \in Stores
  BY <1>1, Zenon DEF InsertInto, Stores
<1> HIDE DEF new
<1>4. Distinct(new.transactions)
  BY <1>2 DEF Agree, Distinct
<1>5. Pointers(new) = Pointers(st) \cup {TxnPointer(txn)}
  BY <1>2 DEF Pointers
<1>6. new.system_ttl_index = Pointers(new) /\ new.expiration_time_index = Pointers(new)
  BY <1>2, <1>5 DEF Agree
<1>7. new.parking_lot_index \subseteq Pointers(new)
  BY <1>2, <1>5 DEF Agree
<1>8. new.priority_index \subseteq {OrderedQueueKey(t) : t \in new.transactions}
  BY <1>2 DEF Agree
<1>9. new.timeline \subseteq {TimelineEntry(t) : t \in {u \in new.transactions : IsReady(u)}}
  BY <1>2 DEF Agree
<1>10. IdsGiven(new.transactions, new.timeline_id)
  <2> SUFFICES ASSUME NEW t \in new.transactions, NEW u \in new.transactions, IsReady(t)
               PROVE  /\ t.timeline_state < new.timeline_id
                      /\ t.timeline_state = u.timeline_state => t = u
    BY DEF IdsGiven
  <2>1. t \in st.transactions
    BY <1>2
  <2>2. u = txn => t.timeline_state # u.timeline_state
    BY DEF IsReady
  <2> QED BY <1>2, <2>1, <2>2 DEF Agree, IdsGiven
<1>11. IsFiniteSet(new.transactions)
  BY <1>2, FS_AddElement DEF Agree
<1>12. Agree(new)
  BY <1>3, <1>4, <1>6, <1>7, <1>8, <1>9, <1>10, <1>11 DEF Agree
<1> QED BY <1>2, <1>12 DEF new

(* The ids that process_ready_transactions gives to the transactions of    *)
(* one account that enter the timeline: distinct, and all below the next.  *)
LEMMA NewIds ==
    ASSUME NEW E \in SUBSET Txns, IsFiniteSet(E),
           \A t, u \in E : t.seq = u.seq => t = u
    PROVE  \A t \in E :
              LET rank(v) == Cardinality({w \in E : w.seq < v.seq})
              IN  /\ rank(t) \in Nat /\ rank(t) < Cardinality(E)
                  /\ \A u \in E : rank(t) = rank(u) => t = u
<1> DEFINE below(v) == {w \in E : w.seq < v.seq}
           rank(v) == Cardinality(below(v))
<1>1. \A t \in E : t.seq \in Nat
  BY DEF Txns
<1>2. \A t \in E : below(t) \in SUBSET E /\ t \notin below(t)
  BY <1>1
<1>3. \A t, u \in E : t.seq < u.seq => below(t) \in SUBSET below(u) /\ t \in below(u)
  BY <1>1
<1> HIDE DEF below
<1>4. \A t \in E : IsFiniteSet(below(t)) /\ rank(t) \in Nat
  BY <1>2, FS_Subset, FS_CardinalityType
<1>5. \A t \in E : rank(t) < Cardinality(E)
  <2> TAKE t \in E
  <2>1. rank(t) <= Cardinality(E) /\ rank(t) # Cardinality(E)
    BY <1>2, FS_Subset
  <2>2. Cardinality(E) \in Nat
    BY FS_CardinalityType
  <2> QED BY <1>4, <2>1, <2>2
<1>6. \A t, u \in E : t.seq < u.seq => rank(t) # rank(u)
  <2> SUFFICES ASSUME NEW t \in E, NEW u \in E, t.seq < u.seq
               PROVE  rank(t) # rank(u)
    OBVIOUS
  <2>1. below(t) \in SUBSET below(u) /\ below(t) # below(u)
    BY <1>2, <1>3
  <2> QED BY <1>4, <2>1, FS_Subset
<1>7. \A t, u \in E : rank(t) = rank(u) => t = u
  <2> SUFFICES ASSUME NEW t \in E, NEW u \in E, rank(t) = rank(u)
               PROVE  t = u
    OBVIOUS
  <2>1. ~(t.seq < u.seq) /\ ~(u.seq < t.seq)
    BY <1>6
  <2> QED BY <1>1, <2>1
<1> QED BY <1>4, <1>5, <1>7, Zenon DEF below

(* Promotion replaces transactions of an account one by one.               *)
LEMMA PromoteAgrees ==
    ASSUME NEW st, Agree(st), NEW account \in Accounts, NEW current
    PROVE  /\ Agree(process_ready_transactions(st, account, current))
           /\ LET new == process_ready_transactions(st, account, current)
              IN  /\ Cardinality(new.transactions) <= Cardinality(st.transactions)
                  /\ \A a \in Accounts : Cardinality(AccountTransactions(new, a))
                                          <= Cardinality(AccountTransactions(st, a))
<1> DEFINE X == st.transactions
           gap == FirstGap(st, account, current)
           sequential == {t \in AccountTransactions(st, account) : t.seq \in current .. gap - 1}
           entering == {t \in sequential : t.timeline_state = NotReady}
           rank(t) == Cardinality({u \in entering : u.seq < t.seq})
           broadcast == {[t EXCEPT !.timeline_state = st.timeline_id + rank(t)] : t \in entering}
           later == {t \in AccountTransactions(st, account) : t.seq > gap /\ ~IsReady(t)}
           new == process_ready_transactions(st, account, current)
<1>1. st \in Stores /\ X \in SUBSET Txns /\ IsFiniteSet(X) /\ st.timeline_id \in Nat \ {0}
  BY DEF Agree, Stores
<1>2. new = [st EXCEPT !.transactions = (@ \ entering) \cup broadcast,
                       !.priority_index = @ \cup {OrderedQueueKey(t) : t \in sequential},
                       !.timeline = @ \cup {TimelineEntry(t) : t \in broadcast},
                       !.timeline_id = @ + Cardinality(entering),
                       !.parking_lot_index = @ \cup {TxnPointer(t) : t \in later}]
  BY DEF process_ready_transactions
<1>3. /\ sequential \in SUBSET X /\ later \in SUBSET X
      /\ \A t \in sequential : t.account = account
  BY DEF AccountTransactions
<1> HIDE DEF sequential, later, new
<1>4. /\ entering \in SUBSET X /\ entering \in SUBSET Txns
      /\ \A t \in entering : t.timeline_state = 0 /\ ~IsReady(t)
      /\ \A t, u \in entering : t.seq = u.seq => t = u
  <2>1. entering \in SUBSET X
    BY <1>3
  <2>2. \A t \in entering : t.timeline_state = 0 /\ ~IsReady(t)
    BY DEF NotReady, IsReady
  <2>3. \A t, u \in entering : t.seq = u.seq => t = u
    BY <1>3 DEF Agree, Distinct, TxnPointer
  <2> QED BY <1>1, <2>1, <2>2, <2>3
<1> HIDE DEF entering
<1>5. IsFiniteSet(entering) /\ Cardinality(entering) \in Nat
  BY <1>1, <1>4, FS_Subset, FS_CardinalityType
<1>6. \A t \in entering : /\ rank(t) \in Nat /\ rank(t) < Cardinality(entering)
                          /\ \A u \in entering : rank(t) = rank(u) => t = u
  BY <1>4, <1>5, NewIds
<1> HIDE DEF rank
<1> DEFINE id(t) == st.timeline_id + rank(t)
           g == [t \in X |-> IF t \in entering THEN [t EXCEPT !.timeline_state = id(t)] ELSE t]
           Y == (X \ entering) \cup broadcast
           next == st.timeline_id + Cardinality(entering)
<1>7. \A t \in entering : /\ id(t) \in Nat \ {0} /\ id(t) >= st.timeline_id /\ id(t) < next
                          /\ \A u \in entering : id(t) = id(u) => t = u
  BY <1>1, <1>5, <1>6
<1>8. /\ \A t \in entering : g[t] = [t EXCEPT !.timeline_state = id(t)]
      /\ \A t \in X \ entering : g[t] = t
  BY <1>4
<1>9. Y = {g[t] : t \in X} /\ broadcast = {g[t] : t \in entering} /\ DOMAIN g = X
  <2> DEFINE f(t) == [t EXCEPT !.timeline_state = st.timeline_id + rank(t)]
  <2>a. broadcast = {f(t) : t \in entering} /\ \A t \in entering : f(t) = g[t]
    BY <1>8
  <2> HIDE DEF broadcast, g, f
  <2>1. broadcast = {g[t] : t \in entering}
    BY <2>a
  <2>2. \A y \in Y : \E t \in X : y = g[t]
    BY <1>4, <1>8, <2>1
  <2>3. \A t \in X : g[t] \in Y
    BY <1>8, <2>1
  <2>4. Y = {g[t] : t \in X}
    BY <2>2, <2>3
  <2> QED BY <2>1, <2>4, Zenon DEF g
<1> HIDE DEF id
<1>10. \A t \in X : /\ g[t] \in Txns
                    /\ g[t].account = t.account /\ g[t].seq = t.seq /\ g[t].gas = t.gas
                    /\ t \in entering => g[t].timeline_state = id(t)
                    /\ t \notin entering => g[t] = t
  <2> TAKE t \in X
  <2>1. CASE t \in entering
    <3>1. g[t] = [t EXCEPT !.timeline_state = id(t)] /\ id(t) \in Int /\ t \in Txns
      BY <1>4, <1>7, <1>8, <2>1
    <3> QED BY <2>1, <3>1 DEF Txns
  <2>2. CASE t \notin entering
    BY <1>1, <1>8, <2>2
  <2> QED BY <2>1, <2>2
<1> HIDE DEF g, broadcast, Y
<1>11. \A t \in X : /\ TxnPointer(g[t]) = TxnPointer(t)
                    /\ OrderedQueueKey(g[t]) = OrderedQueueKey(t)
  BY <1>10 DEF TxnPointer, OrderedQueueKey
<1>12. /\ new.transactions = Y
       /\ new.system_ttl_index = st.system_ttl_index
       /\ new.expiration_time_index = st.expiration_time_index
       /\ new.priority_index = st.priority_index \cup {OrderedQueueKey(t) : t \in sequential}
       /\ new.timeline = st.timeline \cup {TimelineEntry(t) : t \in broadcast}
       /\ new.parking_lot_index = st.parking_lot_index \cup {TxnPointer(t) : t \in later}
       /\ new.timeline_id = next
  BY <1>1, <1>2 DEF Stores, Y
<1>13. new \in Stores
  <2>1. Y \in SUBSET Txns
    BY <1>9, <1>10
  <2>2. {OrderedQueueKey(t) : t \in sequential} \subseteq [account : Accounts, seq : Nat, gas : Nat]
    BY <1>1, <1>3, PointerType
  <2>3. {TimelineEntry(t) : t \in broadcast} \subseteq [id : Int, account : Accounts, seq : Nat]
    <3>1. broadcast \subseteq Txns
      BY <1>4, <1>9, <1>10
    <3> QED BY <3>1, PointerType
  <2>4. {TxnPointer(t) : t \in later} \subseteq AllPointers
    BY <1>1, <1>3, PointerType
  <2>5. next \in Nat \ {0}
    BY <1>1, <1>5
  <2> DEFINE K == {OrderedQueueKey(t) : t \in sequential}
             L == {TimelineEntry(t) : t \in broadcast}
             P == {TxnPointer(t) : t \in later}
  <2>6. new = [st EXCEPT !.transactions = Y, !.priority_index = @ \cup K, !.timeline = @ \cup L,
                         !.timeline_id = next, !.parking_lot_index = @ \cup P]
    BY <1>2 DEF Y
  <2> HIDE DEF K, L, P, next
  <2> QED BY <1>1, <2>1, <2>2, <2>3, <2>4, <2>5, <2>6, Zenon DEF Stores, K, L, P
<1> HIDE DEF next
<1>14. Distinct(new.transactions)
  BY <1>9, <1>11, <1>12 DEF Agree, Distinct
<1>15. Pointers(new) = Pointers(st)
  <2>1. {TxnPointer(y) : y \in Y} = {TxnPointer(t) : t \in X}
    BY <1>9, <1>11
  <2> QED BY <1>12, <2>1 DEF Pointers
<1>16. new.system_ttl_index = Pointers(new) /\ new.expiration_time_index = Pointers(new)
  BY <1>12, <1>15 DEF Agree
<1>17. new.parking_lot_index \subseteq Pointers(new)
  BY <1>3, <1>12, <1>15 DEF Agree, Pointers
<1>18. new.priority_index \subseteq {OrderedQueueKey(t) : t \in new.transactions}
  <2>1. {OrderedQueueKey(t) : t \in X} = {OrderedQueueKey(y) : y \in Y}
    BY <1>9, <1>11
  <2> QED BY <1>3, <1>12, <2>1 DEF Agree
<1>19. new.timeline \subseteq {TimelineEntry(t) : t \in {u \in new.transactions : IsReady(u)}}
  <2>1. \A t \in X : IsReady(t) => t \in Y
    BY <1>4, <1>9, <1>10
  <2>2. \A y \in broadcast : y \in Y /\ IsReady(y)
    BY <1>4, <1>7, <1>9, <1>10 DEF IsReady
  <2> QED BY <1>12, <2>1, <2>2 DEF Agree
<1>20. IdsGiven(new.transactions, new.timeline_id)
  <2> SUFFICES ASSUME NEW t \in X, NEW u \in X, IsReady(g[t])
               PROVE  /\ g[t].timeline_state < next
                      /\ g[t].timeline_state = g[u].timeline_state => g[t] = g[u]
    BY <1>9, <1>12 DEF IdsGiven
  <2>1. t \notin entering => g[t].timeline_state < st.timeline_id
    BY <1>10 DEF Agree, IdsGiven
  <2>2. u \notin entering /\ t \in entering => g[t].timeline_state # g[u].timeline_state
    <3> SUFFICES ASSUME u \notin entering, t \in entering,
                        g[t].timeline_state = g[u].timeline_state
                 PROVE  FALSE
      OBVIOUS
    <3>1. g[u] = u /\ IsReady(u)
      BY <1>10 DEF IsReady
    <3>2. u.timeline_state < st.timeline_id
      BY <3>1 DEF Agree, IdsGiven
    <3>3. g[t].timeline_state = id(t) /\ id(t) >= st.timeline_id /\ id(t) \in Nat
      BY <1>7, <1>10
    <3> QED BY <1>1, <3>1, <3>2, <3>3
  <2>3. t \notin entering /\ u \in entering => g[t].timeline_state # g[u].timeline_state
    <3> SUFFICES ASSUME t \notin entering, u \in entering,
                        g[t].timeline_state = g[u].timeline_state
                 PROVE  FALSE
      OBVIOUS
    <3>1. g[u].timeline_state = id(u) /\ id(u) >= st.timeline_id /\ id(u) \in Nat
      BY <1>7, <1>10
    <3> QED BY <1>1, <2>1, <3>1
  <2>4. CASE t \in entering
    BY <1>7, <1>10, <2>2, <2>4
  <2>5. CASE t \notin entering
    <3>1. g[t].timeline_state < next
      <4>1. next >= st.timeline_id /\ next \in Nat
        BY <1>1, <1>5 DEF next
      <4>2. g[t].timeline_state \in Int
        BY <1>10 DEF Txns
      <4> QED BY <1>1, <2>1, <2>5, <4>1, <4>2
    <3>2. u \notin entering /\ g[t].timeline_state = g[u].timeline_state => g[t] = g[u]
      BY <1>10, <2>5 DEF Agree, IdsGiven
    <3> QED BY <2>3, <2>5, <3>1, <3>2
  <2> QED BY <2>4, <2>5
<1>21. IsFiniteSet(Y) /\ Cardinality(Y) <= Cardinality(X)
  <2>1. g \in Surjection(X, Y)
    BY <1>9, Zenon DEF Surjection, g
  <2> QED BY <1>1, <2>1, FS_Surjection
<1>22. ASSUME NEW a \in Accounts
       PROVE  Cardinality(AccountTransactions(new, a)) <= Cardinality(AccountTransactions(st, a))
  <2> DEFINE A == {t \in X : t.account = a}
             B == {y \in Y : y.account = a}
             h == [t \in A |-> g[t]]
  <2>1. \A t \in A : g[t] \in B
    BY <1>9, <1>10
  <2>2. \A y \in B : \E t \in A : g[t] = y
    BY <1>9, <1>10
  <2>3. h \in Surjection(A, B)
    BY <2>1, <2>2 DEF Surjection
  <2>4. IsFiniteSet(A)
    BY <1>1, FS_Subset
  <2> HIDE DEF h
  <2>5. Cardinality(B) <= Cardinality(A)
    BY <2>3, <2>4, FS_Surjection
  <2> QED BY <1>12, <2>5 DEF AccountTransactions
<1>23. Agree(new)
  BY <1>12, <1>13, <1>14, <1>16, <1>17, <1>18, <1>19, <1>20, <1>21 DEF Agree
<1> QED BY <1>12, <1>21, <1>22, <1>23 DEF new

----------------------------------------------------------------------------
(* Sizes.                                                                  *)

(* WithinCapacity, for any store.                                          *)
Bounded(st) ==
    /\ Cardinality(st.transactions) <= capacity
    /\ \A a \in Accounts : Cardinality(AccountTransactions(st, a)) <= capacity_per_user

LEMMA Sizes ==
    ASSUME NEW st, Agree(st)
    PROVE  /\ Cardinality(st.transactions) \in Nat
           /\ \A a : /\ IsFiniteSet(AccountTransactions(st, a))
                    /\ Cardinality(AccountTransactions(st, a)) \in Nat
<1>1. \A a : AccountTransactions(st, a) \in SUBSET st.transactions
  BY DEF AccountTransactions
<1>2. IsFiniteSet(st.transactions)
  BY DEF Agree
<1> QED BY <1>1, <1>2, FS_Subset, FS_CardinalityType

LEMMA ShrinkBounded ==
    ASSUME NEW st, Agree(st), NEW new, Shrinks(new, st)
    PROVE  /\ Cardinality(new.transactions) <= Cardinality(st.transactions)
           /\ Bounded(st) => Bounded(new)
<1>1. Cardinality(new.transactions) <= Cardinality(st.transactions)
  BY FS_Subset DEF Agree, Shrinks
<1>2. ASSUME NEW a
      PROVE  Cardinality(AccountTransactions(new, a)) <= Cardinality(AccountTransactions(st, a))
  <2>1. AccountTransactions(new, a) \in SUBSET AccountTransactions(st, a)
    BY DEF AccountTransactions, Shrinks
  <2> QED BY <2>1, Sizes, FS_Subset
<1>3. Agree(new)
  BY DEF Shrinks
<1>4. ASSUME Bounded(st)
      PROVE  Bounded(new)
  <2>1. Cardinality(new.transactions) <= capacity
    BY <1>1, <1>3, <1>4, Sizes, MempoolAssumption DEF Bounded
  <2>2. ASSUME NEW a \in Accounts
        PROVE  Cardinality(AccountTransactions(new, a)) <= capacity_per_user
    <3>1. Cardinality(AccountTransactions(st, a)) <= capacity_per_user
      BY <1>4 DEF Bounded
    <3> QED BY <1>2, <1>3, <3>1, Sizes, MempoolAssumption
  <2> QED BY <2>1, <2>2 DEF Bounded
<1> QED BY <1>1, <1>4

LEMMA PromoteBounded ==
    ASSUME NEW st, Agree(st), Bounded(st), NEW account \in Accounts, NEW current
    PROVE  Bounded(process_ready_transactions(st, account, current))
<1> DEFINE new == process_ready_transactions(st, account, current)
<1>1. /\ Agree(new)
      /\ Cardinality(new.transactions) <= Cardinality(st.transactions)
      /\ \A a \in Accounts : Cardinality(AccountTransactions(new, a))
                              <= Cardinality(AccountTransactions(st, a))
  BY PromoteAgrees
<1> HIDE DEF new
<1>2. Cardinality(new.transactions) <= capacity
  BY <1>1, Sizes, MempoolAssumption DEF Bounded
<1>3. ASSUME NEW a \in Accounts
      PROVE  Cardinality(AccountTransactions(new, a)) <= capacity_per_user
  <2>1. Cardinality(AccountTransactions(st, a)) <= capacity_per_user
    BY DEF Bounded
  <2>2. Cardinality(AccountTransactions(new, a)) <= Cardinality(AccountTransactions(st, a))
    BY <1>1
  <2> QED BY <1>1, <2>1, <2>2, Sizes, MempoolAssumption
<1>4. Bounded(new)
  BY <1>2, <1>3 DEF Bounded
<1> QED BY <1>4 DEF new

(* The size of the TTL index, which IsFull looks at, is that of the store. *)
LEMMA SizeOfIndex ==
    ASSUME NEW st, Agree(st)
    PROVE  /\ Cardinality(st.transactions) <= Cardinality(st.system_ttl_index)
           /\ Cardinality(st.system_ttl_index) \in Nat
<1> DEFINE X == st.transactions
           P == st.system_ttl_index
           f == [t \in X |-> TxnPointer(t)]
<1>1. P = {TxnPointer(t) : t \in X} /\ IsFiniteSet(X) /\ Distinct(X)
  BY DEF Agree, Pointers
<1> HIDE DEF X, P
<1>2. f \in Surjection(X, P)
  BY <1>1 DEF Surjection
<1>3. f \in Injection(X, P)
  BY <1>1 DEF Injection, IsInjective, Distinct
<1> HIDE DEF f
<1>4. IsFiniteSet(P)
  BY <1>1, <1>2, FS_Surjection
<1>5. Cardinality(X) <= Cardinality(P)
  BY <1>3, <1>4, FS_Injection
<1> QED BY <1>4, <1>5, FS_CardinalityType DEF X, P

----------------------------------------------------------------------------
(* The steps.                                                              *)

LEMMA CleanShrinks ==
    ASSUME NEW st, Agree(st), NEW account, NEW current
    PROVE  Shrinks(clean_committed_transactions(st, account, current), st)
<1> DEFINE T == {t \in AccountTransactions(st, account) : t.seq < current}
<1>1. T \in SUBSET st.transactions
  BY DEF AccountTransactions
<1>2. clean_committed_transactions(st, account, current) = index_remove(st, T)
  BY DEF clean_committed_transactions
<1> HIDE DEF T
<1> QED BY <1>1, <1>2, RemoveAgrees

LEMMA RoomShrinks ==
    ASSUME Agree(store), NEW account, NEW seq, NEW d
    PROVE  /\ Shrinks(StoreWithRoom(account, seq, d), store)
           /\ \A t \in StoreWithRoom(account, seq, d).transactions :
                 TxnPointer(t) # <<account, seq>>
<1> DEFINE T == {t \in store.transactions : TxnPointer(t) = <<account, seq>>}
           st == index_remove(store, T)
           E == {t \in st.transactions : TxnPointer(t) = ParkingLotPop(st)}
           new == StoreWithRoom(account, seq, d)
<1>1. new = st \/ new = index_remove(st, E)
  BY DEF StoreWithRoom, MakeRoom
<1>2. Shrinks(st, store) /\ st.transactions = store.transactions \ T
  BY RemoveAgrees
<1>3. \A t \in st.transactions : TxnPointer(t) # <<account, seq>>
  BY <1>2
<1>4. E \in SUBSET st.transactions
  OBVIOUS
<1> HIDE DEF st, E, new
<1>5. Agree(st)
  BY <1>2 DEF Shrinks
<1>6. Shrinks(new, st)
  <2>1. Shrinks(index_remove(st, E), st)
    BY <1>4, <1>5, RemoveAgrees
  <2> QED BY <1>1, <1>5, <2>1 DEF Shrinks
<1>7. Shrinks(new, store) /\ \A t \in new.transactions : TxnPointer(t) # <<account, seq>>
  BY <1>2, <1>3, <1>6 DEF Shrinks
<1> QED BY <1>7 DEF new

LEMMA CleanStoreShrinks ==
    ASSUME Agree(store), NEW account, NEW seq, NEW d
    PROVE  /\ Shrinks(CleanStore(account, seq, d), StoreWithRoom(account, seq, d))
           /\ Shrinks(CleanStore(account, seq, d), store)
<1>1. Shrinks(StoreWithRoom(account, seq, d), store)
  BY RoomShrinks
<1>2. Shrinks(CleanStore(account, seq, d), StoreWithRoom(account, seq, d))
  BY <1>1, CleanShrinks DEF CleanStore, Shrinks
<1> QED BY <1>1, <1>2 DEF Shrinks

IInv == Agree(store) /\ Bounded(store)

LEMMA ShrinkStep ==
    ASSUME IInv, Shrinks(store', store)
    PROVE  IInv'
BY ShrinkBounded DEF IInv, Shrinks, Agree, Bounded, Pointers, AccountTransactions

LEMMA StoreStep ==
    ASSUME NEW st, Agree(st), Bounded(st), store' = st
    PROVE  IInv'
BY DEF IInv, Agree, Bounded, Pointers, AccountTransactions

(* The only step that adds a transaction has just made room for it.        *)
LEMMA AcceptedStep ==
    ASSUME IInv, NEW account \in Accounts, NEW seq \in Nat, NEW gas \in Nat, NEW d,
           NEW timeline_state \in {NotReady, NonQualified},
           add_txn_accepted(account, seq, gas, d, timeline_state)
    PROVE  IInv'
<1> DEFINE room == StoreWithRoom(account, seq, d)
           st == CleanStore(account, seq, d)
           txn == [account |-> account, seq |-> seq, gas |-> gas,
                   timeline_state |-> timeline_state]
           full == InsertInto(st, txn)
<1>1. /\ ~IsFull(room) /\ ~UserIsFull(st, account)
      /\ store' = process_ready_transactions(full, account, CurrentSeq(account, d))
  BY DEF add_txn_accepted
<1>2. /\ Shrinks(room, store) /\ Shrinks(st, room) /\ Shrinks(st, store)
      /\ \A t \in room.transactions : TxnPointer(t) # <<account, seq>>
  BY RoomShrinks, CleanStoreShrinks DEF IInv
<1>3. /\ txn \in Txns /\ ~IsReady(txn) /\ TxnPointer(txn) = <<account, seq>>
      /\ txn.account = account
  BY DEF Txns, IsReady, TxnPointer, NotReady, NonQualified
<1> HIDE DEF room, st, txn
<1>4. /\ Agree(room) /\ Agree(st) /\ Bounded(st)
      /\ \A t \in st.transactions : TxnPointer(t) # TxnPointer(txn)
      /\ Cardinality(st.transactions) <= Cardinality(room.transactions)
  BY <1>2, <1>3, ShrinkBounded DEF Shrinks, IInv
<1>5. Agree(full) /\ full.transactions = st.transactions \cup {txn}
  BY <1>3, <1>4, InsertAgrees
<1> HIDE DEF full
<1>6. Cardinality(full.transactions) <= capacity
  <2>1. Cardinality(room.transactions) < capacity
    <3>1. Cardinality(room.system_ttl_index) < capacity
      BY <1>1, <1>4, SizeOfIndex, MempoolAssumption DEF IsFull
    <3> QED BY <1>4, <3>1, SizeOfIndex, Sizes, MempoolAssumption
  <2>2. Cardinality(st.transactions) + 1 <= capacity
    BY <1>4, <2>1, Sizes, MempoolAssumption
  <2>3. txn \notin st.transactions
    BY <1>4
  <2>4. Cardinality(full.transactions) = Cardinality(st.transactions) + 1
    BY <1>4, <1>5, <2>3, FS_AddElement DEF Agree
  <2> QED BY <2>2, <2>4
<1>7. ASSUME NEW a \in Accounts
      PROVE  Cardinality(AccountTransactions(full, a)) <= capacity_per_user
  <2>1. CASE a # account
    <3>1. AccountTransactions(full, a) = AccountTransactions(st, a)
      BY <1>3, <1>5, <2>1 DEF AccountTransactions
    <3> QED BY <1>4, <3>1 DEF Bounded
  <2>2. CASE a = account
    <3> DEFINE S == AccountTransactions(st, account)
    <3>1. AccountTransactions(full, a) = S \cup {txn}
      BY <1>3, <1>5, <2>2 DEF AccountTransactions
    <3>2. IsFiniteSet(S) /\ Cardinality(S) \in Nat /\ txn \notin S
      BY <1>4, Sizes DEF AccountTransactions
    <3>3. Cardinality(S) < capacity_per_user
      BY <1>1, <3>2, MempoolAssumption DEF UserIsFull
    <3> HIDE DEF S
    <3>4. Cardinality(S \cup {txn}) = Cardinality(S) + 1
      BY <3>2, FS_AddElement, Zenon
    <3> QED BY <3>1, <3>2, <3>3, <3>4, MempoolAssumption
  <2> QED BY <2>1, <2>2
<1>8. Bounded(full)
  BY <1>6, <1>7 DEF Bounded
<1>9. /\ Agree(process_ready_transactions(full, account, CurrentSeq(account, d)))
      /\ Bounded(process_ready_transactions(full, account, CurrentSeq(account, d)))
  BY <1>5, <1>8, PromoteAgrees, PromoteBounded
<1> QED BY <1>1, <1>9, StoreStep

LEMMA AddStep ==
    ASSUME IInv, NEW account \in Accounts, NEW seq \in Nat, NEW gas \in Nat, NEW d,
           add_txn(account, seq, gas, d)
    PROVE  IInv'
<1>1. CASE UNCHANGED store
  BY <1>1, StoreStep DEF IInv
<1>2. CASE add_txn_full(account, seq, gas, d)
  BY <1>2, RoomShrinks, ShrinkStep DEF add_txn_full, IInv
<1>3. CASE add_txn_too_many(account, seq, gas, d)
  BY <1>3, CleanStoreShrinks, ShrinkStep DEF add_txn_too_many, IInv
<1>4. CASE \E s \in {NotReady, NonQualified} : add_txn_accepted(account, seq, gas, d, s)
  BY <1>4, AcceptedStep
<1> QED BY <1>1, <1>2, <1>3, <1>4 DEF add_txn, add_txn_too_old, add_txn_invalid_update

LEMMA CommitStep ==
    ASSUME IInv, NEW account \in Accounts, NEW seq, process_state_sync_request(account, seq)
    PROVE  IInv'
<1> DEFINE current == Max2(sequence_number_cache[account], seq + 1)
           clean == clean_committed_transactions(store, account, current)
           st == process_ready_transactions(clean, account, current)
<1>1. PICK expired \in SUBSET st.transactions : store' = GarbageCollect(st, expired)
  BY DEF process_state_sync_request, commit_transaction, AnyExpired
<1>2. Shrinks(clean, store)
  BY CleanShrinks DEF IInv
<1> HIDE DEF clean
<1>3. Agree(clean) /\ Bounded(clean)
  BY <1>2, ShrinkBounded DEF Shrinks, IInv
<1>4. Agree(st) /\ Bounded(st)
  BY <1>3, PromoteAgrees, PromoteBounded
<1> HIDE DEF st
<1>5. Shrinks(GarbageCollect(st, expired), st)
  BY <1>4, CollectAgrees
<1>6. Agree(GarbageCollect(st, expired)) /\ Bounded(GarbageCollect(st, expired))
  BY <1>4, <1>5, ShrinkBounded DEF Shrinks
<1> QED BY <1>1, <1>6, StoreStep

LEMMA RejectStep ==
    ASSUME IInv, NEW account, NEW seq, reject(account, seq)
    PROVE  IInv'
<1>1. Shrinks(reject_transaction(store, account), store)
  <2>1. AccountTransactions(store, account) \in SUBSET store.transactions
    BY DEF AccountTransactions
  <2> QED BY <2>1, RemoveAgrees DEF reject_transaction, IInv
<1>2. Shrinks(store, store)
  BY DEF Shrinks, IInv
<1> QED BY <1>1, <1>2, ShrinkStep DEF reject

LEMMA InitIInv == Init => IInv
<1> SUFFICES ASSUME store = EmptyStore
             PROVE  IInv
  BY DEF Init
<1>1. /\ store.transactions = {} /\ store.priority_index = {} /\ store.system_ttl_index = {}
      /\ store.expiration_time_index = {} /\ store.timeline = {}
      /\ store.parking_lot_index = {}
  BY DEF EmptyStore
<1>2. store \in Stores
  BY DEF EmptyStore, Stores
<1>3. IsFiniteSet(store.transactions) /\ Cardinality(store.transactions) = 0
  BY <1>1, FS_EmptySet
<1>4. Agree(store)
  BY <1>1, <1>2, <1>3 DEF Agree, Distinct, IdsGiven, Pointers
<1>5. \A a \in Accounts : AccountTransactions(store, a) = {}
  BY <1>1 DEF AccountTransactions
<1>6. Bounded(store)
  BY <1>3, <1>5, FS_EmptySet, MempoolAssumption DEF Bounded
<1> QED BY <1>4, <1>6 DEF IInv

LEMMA NextIInv == IInv /\ [Next]_vars => IInv'
<1> SUFFICES ASSUME IInv, [Next]_vars
             PROVE  IInv'
  OBVIOUS
<1>1. \A s \in Submissions : s[1] \in Accounts /\ s[2] \in Nat /\ s[3] \in Nat
  BY MempoolAssumption
<1>2. ASSUME NEW s \in Submissions, NEW d \in SequenceNumbers, add_txn(s[1], s[2], s[3], d)
      PROVE  IInv'
  BY <1>1, <1>2, AddStep
<1>3. ASSUME NEW s \in Submissions, process_state_sync_request(s[1], s[2])
      PROVE  IInv'
  BY <1>1, <1>3, CommitStep
<1>4. ASSUME NEW s \in Submissions, reject(s[1], s[2])
      PROVE  IInv'
  BY <1>4, RejectStep
<1>5. ASSUME NEW expired \in SUBSET store.transactions, store' = GarbageCollect(store, expired)
      PROVE  IInv'
  BY <1>5, CollectAgrees, ShrinkStep DEF IInv
<1>6. CASE UNCHANGED vars
  BY <1>6, StoreStep DEF vars, IInv
<1> QED BY <1>2, <1>3, <1>4, <1>5, <1>6 DEF Next, gc, gc_by_expiration_time, AnyExpired

----------------------------------------------------------------------------

(* The inductive invariant holds.                                          *)
THEOREM Invariance == Spec => []IInv
BY InitIInv, NextIInv, PTL DEF Spec

(* The indexes of the mempool agree with its transactions after any        *)
(* sequence of submissions, evictions, commits, rejections and             *)
(* collections.                                                            *)
THEOREM IndexesCorrect == Spec => []IndexesAgree
<1>1. IInv => IndexesAgree
  <2> SUFFICES ASSUME IInv
               PROVE  IndexesAgree
    OBVIOUS
  <2>1. store.timeline \subseteq {TimelineEntry(t) : t \in store.transactions}
    BY DEF IInv, Agree
  <2> QED BY <2>1 DEF IInv, Agree, Distinct, IdsGiven, IndexesAgree
<1> QED BY <1>1, Invariance, PTL

(* The mempool never holds more transactions than its capacity, nor more   *)
(* of one account than the capacity per user.                              *)
THEOREM CapacityRespected == Spec => []WithinCapacity
<1>1. IInv => WithinCapacity
  BY DEF IInv, Bounded, WithinCapacity
<1> QED BY <1>1, Invariance, PTL

----------------------------------------------------------------------------
(* What get_block offers.                                                  *)

(* A set of numbers that is not empty has a least element.                 *)
LEMMA LeastNat ==
    ASSUME NEW T \in SUBSET Nat, T # {}
    PROVE  \E m \in T : \A n \in T : m <= n
<1>1. PICK m \in T : \A n \in T : <<n, m>> \notin OpToRel(<, Nat)
  BY NatLessThanWellFounded, WFMin, Zenon
<1>2. \A n \in T : ~(n < m)
  BY <1>1, Zenon DEF OpToRel
<1> QED BY <1>2

(* f goes from base by step, n times.                                      *)
Iterates(f, base, step, n) ==
    /\ f[0] = base
    /\ \A k \in 1 .. n : f[k] = step[<<f[k - 1], k>>]

(* A step that stays in S can be iterated.  A least number for which it    *)
(* could not would be neither 0 nor a successor.                           *)
LEMMA IteratesExist ==
    ASSUME NEW S, NEW base \in S, NEW L \in Nat, NEW step \in [S \X (1 .. L) -> S]
    PROVE  \E f \in [0 .. L -> S] : Iterates(f, base, step, L)
<1> DEFINE Reached(n) == \E f \in [0 .. n -> S] : Iterates(f, base, step, n)
           Bad == {n \in 0 .. L : ~Reached(n)}
<1>1. Reached(0)
  <2> DEFINE g == [k \in 0 .. 0 |-> base]
  <2>1. g \in [0 .. 0 -> S] /\ g[0] = base
    OBVIOUS
  <2> HIDE DEF g
  <2>2. Iterates(g, base, step, 0)
    BY <2>1 DEF Iterates
  <2> QED BY <2>1, <2>2
<1>2. ASSUME NEW n \in 0 .. L - 1, Reached(n)
      PROVE  Reached(n + 1)
  <2>1. PICK f \in [0 .. n -> S] : Iterates(f, base, step, n)
    BY <1>2
  <2> DEFINE last == step[<<f[n], n + 1>>]
             g == [k \in 0 .. n + 1 |-> IF k <= n THEN f[k] ELSE last]
  <2>2. last \in S
    <3>1. n \in 0 .. n /\ n + 1 \in 1 .. L
      OBVIOUS
    <3>2. f[n] \in S
      BY <3>1
    <3>3. <<f[n], n + 1>> \in S \X (1 .. L)
      BY <3>1, <3>2
    <3> QED BY <3>3
  <2> HIDE DEF last
  <2>3. g \in [0 .. n + 1 -> S]
    <3>1. ASSUME NEW k \in 0 .. n + 1, k <= n
          PROVE  k \in 0 .. n
      BY <3>1
    <3> QED BY <2>2, <3>1
  <2>4. /\ \A k \in 0 .. n : k \in 0 .. n + 1 /\ g[k] = f[k]
        /\ n + 1 \in 0 .. n + 1 /\ g[n + 1] = last
    OBVIOUS
  <2> HIDE DEF g
  <2>6. g[0] = base
    <3>1. 0 \in 0 .. n
      OBVIOUS
    <3> QED BY <2>1, <2>4, <3>1 DEF Iterates
  <2>7. ASSUME NEW k \in 1 .. n + 1
        PROVE  g[k] = step[<<g[k - 1], k>>]
    <3>1. CASE k <= n
      <4>1. k \in 1 .. n /\ k \in 0 .. n /\ k - 1 \in 0 .. n
        BY <3>1
      <4>2. f[k] = step[<<f[k - 1], k>>]
        BY <2>1, <4>1 DEF Iterates
      <4>3. g[k] = f[k] /\ g[k - 1] = f[k - 1]
        BY <2>4, <4>1
      <4> QED BY <4>2, <4>3
    <3>2. CASE k = n + 1
      <4>1. k - 1 = n /\ n \in 0 .. n
        BY <3>2
      <4>2. g[k - 1] = f[n] /\ g[k] = last
        BY <2>4, <3>2, <4>1
      <4>3. last = step[<<f[n], k>>]
        BY <3>2 DEF last
      <4> QED BY <4>2, <4>3
    <3> QED BY <3>1, <3>2
  <2>8. Iterates(g, base, step, n + 1)
    BY <2>6, <2>7 DEF Iterates
  <2> QED BY <2>3, <2>8
<1> HIDE DEF Reached
<1>3. Bad = {}
  <2>1. SUFFICES ASSUME Bad # {} PROVE FALSE
    OBVIOUS
  <2>2. Bad \in SUBSET Nat
    OBVIOUS
  <2>3. PICK m \in Bad : \A k \in Bad : m <= k
    <3> HIDE DEF Bad
    <3> QED BY <2>1, <2>2, LeastNat
  <2>4. m # 0
    BY <1>1
  <2>5. m - 1 \in 0 .. L - 1 /\ (m - 1) + 1 = m /\ m - 1 \notin Bad
    BY <2>3, <2>4
  <2>6. Reached(m - 1)
    BY <2>5
  <2>7. Reached((m - 1) + 1)
    BY <1>2, <2>5, <2>6
  <2> QED BY <2>5, <2>7
<1>4. Reached(L)
  BY <1>3
<1> QED BY <1>4 DEF Reached

(* The pointers of account that follow number s, up to s + m.              *)
Segment(account, s, m) == {<<account, k>> : k \in s + 1 .. s + m}

LEMMA SegmentSize ==
    ASSUME NEW account, NEW s \in Nat, NEW m \in Nat
    PROVE  IsFiniteSet(Segment(account, s, m)) /\ Cardinality(Segment(account, s, m)) = m
<1> DEFINE I == s + 1 .. s + m
           f == [k \in I |-> <<account, k>>]
<1>1. IsFiniteSet(I) /\ Cardinality(I) = m
  BY FS_Interval
<1>2. f \in Bijection(I, Segment(account, s, m))
  <2>1. \A k \in I : f[k] = <<account, k>> /\ f[k] \in Segment(account, s, m)
    BY DEF Segment
  <2>2. f \in [I -> Segment(account, s, m)]
    BY <2>1
  <2>3. \A k, l \in I : f[k] = f[l] => k = l
    BY <2>1
  <2>4. \A p \in Segment(account, s, m) : \E k \in I : f[k] = p
    BY <2>1 DEF Segment
  <2> HIDE DEF f, I
  <2> QED BY <2>2, <2>3, <2>4 DEF Bijection, Injection, Surjection, IsInjective
<1>3. ExistsBijection(I, Segment(account, s, m))
  BY <1>2 DEF ExistsBijection
<1> HIDE DEF I
<1> QED BY <1>1, <1>3, FS_Bijection

(* What the while loop of get_block takes from skipped is a segment.       *)
LEMMA SkippedSegment ==
    ASSUME NEW T \in SUBSET AllPointers, IsFiniteSet(T), NEW account \in Accounts, NEW s \in Nat
    PROVE  LET m == Cardinality(SkippedAfter(T, account, s))
           IN  /\ m \in Nat
               /\ SkippedAfter(T, account, s) = Segment(account, s, m)
               /\ Segment(account, s, m) \subseteq T
               /\ <<account, s + m + 1>> \notin T
<1> DEFINE c == Cardinality(T)
           N == {k \in Nat : k > s /\ <<account, k>> \notin T}
<1>1. c \in Nat
  BY FS_CardinalityType
<1>2. N # {}
  <2>1. SUFFICES ASSUME N = {} PROVE FALSE
    OBVIOUS
  <2> DEFINE I == Segment(account, s, c + 1)
  <2>2. I \in SUBSET T
    <3>1. \A k \in s + 1 .. s + (c + 1) : k \in Nat /\ k > s
      BY <1>1
    <3>2. \A k \in s + 1 .. s + (c + 1) : <<account, k>> \in T
      BY <2>1, <3>1
    <3> QED BY <3>2 DEF Segment
  <2>3. Cardinality(I) = c + 1
    BY <1>1, SegmentSize
  <2>4. Cardinality(I) <= c
    BY <2>2, FS_Subset
  <2> QED BY <1>1, <2>3, <2>4
<1>3. PICK gap \in N : \A k \in N : gap <= k
  <2>1. N \in SUBSET Nat
    OBVIOUS
  <2> HIDE DEF N
  <2> QED BY <1>2, <2>1, LeastNat
<1> DEFINE m == gap - s - 1
<1>4. m \in Nat /\ s + m + 1 = gap /\ \A k \in s + 1 .. s + m : k < gap /\ k \in Nat /\ k > s
  BY <1>3
<1>5. \A k \in s + 1 .. s + m : <<account, k>> \in T
  BY <1>3, <1>4
<1>6. <<account, gap>> \notin T
  BY <1>3
<1> HIDE DEF m, N, c
<1>7. SkippedAfter(T, account, s) \subseteq Segment(account, s, m)
  <2> SUFFICES ASSUME NEW p \in SkippedAfter(T, account, s)
               PROVE  p \in Segment(account, s, m)
    OBVIOUS
  <2>1. /\ p \in AllPointers /\ p[1] = account /\ p[2] > s
        /\ \A n \in s + 1 .. p[2] : <<account, n>> \in T
    BY DEF SkippedAfter
  <2>2. p = <<account, p[2]>> /\ p[2] \in Nat
    BY <2>1 DEF AllPointers
  <2>3. gap \in Nat /\ gap > s
    BY <1>4
  <2>4. p[2] < gap
    BY <1>6, <2>1, <2>2, <2>3
  <2>5. p[2] \in s + 1 .. s + m
    BY <1>4, <2>1, <2>2, <2>4
  <2> QED BY <2>2, <2>5 DEF Segment
<1>8. Segment(account, s, m) \subseteq SkippedAfter(T, account, s)
  <2> SUFFICES ASSUME NEW k \in s + 1 .. s + m
               PROVE  <<account, k>> \in SkippedAfter(T, account, s)
    BY DEF Segment
  <2>1. k > s /\ \A n \in s + 1 .. k : n \in s + 1 .. s + m
    BY <1>4
  <2> QED BY <1>5, <2>1 DEF SkippedAfter
<1>9. SkippedAfter(T, account, s) = Segment(account, s, m)
  BY <1>7, <1>8, Zenon
<1>10. Cardinality(SkippedAfter(T, account, s)) = m
  BY <1>4, <1>9, SegmentSize
<1>11. Segment(account, s, m) \subseteq T
  BY <1>5 DEF Segment
<1> QED BY <1>4, <1>6, <1>9, <1>10, <1>11

(* The state of the loop of get_block.                                     *)
Keys == [account : Accounts, seq : Nat, gas : Nat]
PointerSeqs == Seq(AllPointers)
PointerSets == SUBSET AllPointers
FinitePointerSets == {T \in PointerSets : IsFiniteSet(T)}
Accs == [result : PointerSeqs, seen : PointerSets, skipped : FinitePointerSets]

Pointer(key) == <<key.account, key.seq>>
Previous(p) == <<p[1], p[2] - 1>>

(* The pointers that a turn for key adds to the result, with m skipped     *)
(* before.                                                                 *)
Run(key, m) == [i \in 1 .. m + 1 |-> <<key.account, key.seq + i - 1>>]

(* p is next for its account, or follows what was seen.                    *)
IsNext(p, S) == sequence_number_cache[p[1]] = p[2] \/ Previous(p) \in S

(* A turn of the loop passes over key, takes it with those that follow it  *)
(* among the skipped, or skips it.                                         *)
Passes(acc, key, new) == Pointer(key) \in acc.seen /\ new = acc

Takes(acc, key, new) ==
    /\ Pointer(key) \notin acc.seen
    /\ IsNext(Pointer(key), acc.seen)
    /\ \E m \in Nat :
          LET U == Segment(key.account, key.seq, m)
          IN  /\ U \subseteq acc.skipped
              /\ <<key.account, key.seq + m + 1>> \notin acc.skipped
              /\ new.result = acc.result \o Run(key, m)
              /\ new.seen = acc.seen \cup {Pointer(key)} \cup U
              /\ new.skipped = acc.skipped

Skips(acc, key, new) ==
    /\ Pointer(key) \notin acc.seen
    /\ ~IsNext(Pointer(key), acc.seen)
    /\ new.result = acc.result
    /\ new.seen = acc.seen
    /\ new.skipped = acc.skipped \cup {Pointer(key)}

LEMMA PointerFacts ==
    ASSUME NEW key \in Keys
    PROVE  /\ Pointer(key) \in AllPointers
           /\ key.account \in Accounts /\ key.seq \in Nat
           /\ Pointer(key)[1] = key.account /\ Pointer(key)[2] = key.seq
BY DEF Keys, Pointer, AllPointers

LEMMA Turn ==
    ASSUME NEW acc \in Accs, NEW key \in Keys
    PROVE  LET new == WalkStep(acc, key)
           IN  /\ new \in Accs
               /\ Passes(acc, key, new) \/ Takes(acc, key, new) \/ Skips(acc, key, new)
<1> DEFINE new == WalkStep(acc, key)
           p == Pointer(key)
           U == SkippedAfter(acc.skipped, key.account, key.seq)
           m == Cardinality(U)
           taken == [acc EXCEPT !.result = @ \o Run(key, m), !.seen = @ \cup {p} \cup U]
           skip == [acc EXCEPT !.skipped = @ \cup {p}]
<1>1. /\ acc.result \in Seq(AllPointers) /\ acc.seen \in SUBSET AllPointers
      /\ acc.skipped \in SUBSET AllPointers /\ IsFiniteSet(acc.skipped)
  BY DEF Accs, PointerSeqs, PointerSets, FinitePointerSets
<1>2. /\ m \in Nat /\ U = Segment(key.account, key.seq, m)
      /\ U \subseteq acc.skipped /\ <<key.account, key.seq + m + 1>> \notin acc.skipped
  BY <1>1, SkippedSegment, PointerFacts
<1>3. new = IF p \in acc.seen THEN acc
            ELSE IF \/ key.seq > 0 /\ <<key.account, key.seq - 1>> \in acc.seen
                    \/ sequence_number_cache[key.account] = key.seq
            THEN taken ELSE skip
  BY DEF WalkStep, Pointer, Run
<1>4. IsNext(p, acc.seen) <=> \/ key.seq > 0 /\ <<key.account, key.seq - 1>> \in acc.seen
                              \/ sequence_number_cache[key.account] = key.seq
  <2>1. <<key.account, key.seq - 1>> \in acc.seen => key.seq > 0
    BY <1>1, PointerFacts DEF AllPointers
  <2> QED BY <2>1, PointerFacts DEF IsNext, Previous
<1> HIDE DEF new, U, m, p
<1>5. Run(key, m) \in Seq(AllPointers)
  <2>1. \A i \in 1 .. m + 1 : key.seq + i - 1 \in Nat
    BY <1>2, PointerFacts
  <2>2. \A i \in 1 .. m + 1 : <<key.account, key.seq + i - 1>> \in AllPointers
    BY <2>1, PointerFacts DEF AllPointers
  <2>3. m + 1 \in Nat
    BY <1>2
  <2> QED BY <2>2, <2>3 DEF Run
<1>6. CASE p \in acc.seen
  <2>1. new = acc
    BY <1>3, <1>6
  <2> QED BY <1>6, <2>1 DEF Passes, p, new
<1>7. CASE p \notin acc.seen /\ IsNext(p, acc.seen)
  <2>1. new = taken
    BY <1>3, <1>4, <1>7
  <2>2. acc.result \o Run(key, m) \in PointerSeqs
    BY <1>1, <1>5 DEF PointerSeqs
  <2>3. acc.seen \cup {p} \cup U \in PointerSets
    BY <1>1, <1>2, PointerFacts DEF PointerSets, p
  <2>4. /\ taken.result = acc.result \o Run(key, m)
        /\ taken.seen = acc.seen \cup {p} \cup U
        /\ taken.skipped = acc.skipped
    BY DEF Accs
  <2>5. taken \in Accs
    BY <2>2, <2>3, Zenon DEF Accs
  <2>6. Takes(acc, key, new)
    BY <1>2, <1>7, <2>1, <2>4 DEF Takes, p
  <2> QED BY <2>1, <2>5, <2>6 DEF new
<1>8. CASE p \notin acc.seen /\ ~IsNext(p, acc.seen)
  <2>1. new = skip
    BY <1>3, <1>4, <1>8
  <2>2. acc.skipped \cup {p} \in FinitePointerSets
    <3>1. IsFiniteSet(acc.skipped \cup {p})
      BY <1>1, FS_AddElement
    <3> QED BY <1>1, <3>1, PointerFacts DEF FinitePointerSets, PointerSets, p
  <2>3. /\ skip.result = acc.result /\ skip.seen = acc.seen
        /\ skip.skipped = acc.skipped \cup {p}
    BY DEF Accs
  <2>4. skip \in Accs
    BY <2>2 DEF Accs
  <2>5. Skips(acc, key, new)
    BY <1>8, <2>1, <2>3 DEF Skips, p
  <2> QED BY <2>1, <2>4, <2>5 DEF new
<1> QED BY <1>6, <1>7, <1>8

LEMMA WalkFacts ==
    ASSUME NEW order \in Seq(Keys), NEW seen \in PointerSets
    PROVE  LET w == Walk(order, seen)
           IN  /\ w[0] = [result |-> <<>>, seen |-> seen, skipped |-> {}]
               /\ \A n \in 1 .. Len(order) : w[n] = WalkStep(w[n - 1], order[n])
               /\ \A n \in 0 .. Len(order) : w[n] \in Accs
<1> DEFINE L == Len(order)
           start == [result |-> <<>>, seen |-> seen, skipped |-> {}]
           step == [x \in Accs \X (1 .. L) |-> WalkStep(x[1], order[x[2]])]
           w == Walk(order, seen)
<1>1. L \in Nat /\ \A n \in 1 .. L : order[n] \in Keys
  OBVIOUS
<1>2. start \in Accs
  <2>1. <<>> \in PointerSeqs
    BY DEF PointerSeqs
  <2>2. {} \in FinitePointerSets
    BY FS_EmptySet DEF FinitePointerSets, PointerSets
  <2> QED BY <2>1, <2>2 DEF Accs
<1>3. \A x \in Accs \X (1 .. L) : x[1] \in Accs /\ x[2] \in 1 .. L
  OBVIOUS
<1>4. \A x \in Accs \X (1 .. L) : WalkStep(x[1], order[x[2]]) \in Accs
  BY <1>1, <1>3, Turn
<1>5. step \in [Accs \X (1 .. L) -> Accs]
  BY <1>4
<1>6. \A acc \in Accs, n \in 1 .. L : step[<<acc, n>>] = WalkStep(acc, order[n])
  OBVIOUS
<1> HIDE DEF start, step, L
<1>7. PICK f \in [0 .. L -> Accs] : Iterates(f, start, step, L)
  BY <1>1, <1>2, <1>5, IteratesExist, Zenon
<1>8. \A n \in 1 .. L : f[n] = WalkStep(f[n - 1], order[n])
  <2> SUFFICES ASSUME NEW n \in 1 .. L
               PROVE  f[n] = WalkStep(f[n - 1], order[n])
    OBVIOUS
  <2>1. n - 1 \in 0 .. L
    BY <1>1
  <2>2. f[n] = step[<<f[n - 1], n>>]
    BY <1>7 DEF Iterates
  <2> QED BY <1>6, <2>1, <2>2
<1>9. f[0] = start
  BY <1>7 DEF Iterates
<1>10. f = [n \in 0 .. L |-> IF n = 0 THEN start ELSE WalkStep(f[n - 1], order[n])]
  <2>1. \A n \in 0 .. L : n # 0 => n \in 1 .. L
    BY <1>1
  <2>2. \A n \in 0 .. L : f[n] = IF n = 0 THEN start ELSE WalkStep(f[n - 1], order[n])
    BY <1>8, <1>9, <2>1
  <2> QED BY <2>2
<1>11. w = [n \in 0 .. L |-> IF n = 0 THEN start ELSE WalkStep(w[n - 1], order[n])]
  <2>1. w = CHOOSE g : g = [n \in 0 .. L |-> IF n = 0 THEN start ELSE WalkStep(g[n - 1], order[n])]
    BY DEF Walk, L, start
  <2> HIDE DEF w
  <2> QED BY <1>10, <2>1, Zenon
<1> HIDE DEF w
<1>12. w[0] = start
  BY <1>1, <1>11
<1>13. \A n \in 1 .. L : w[n] = WalkStep(w[n - 1], order[n])
  BY <1>1, <1>11
<1>14. \A n \in 0 .. L : w[n] \in Accs
  <2> DEFINE Bad == {n \in 0 .. L : w[n] \notin Accs}
  <2> SUFFICES ASSUME Bad # {} PROVE FALSE
    OBVIOUS
  <2>1. Bad \in SUBSET Nat
    BY <1>1
  <2>2. PICK n \in Bad : \A k \in Bad : n <= k
    <3> HIDE DEF Bad
    <3> QED BY <2>1, LeastNat
  <2>3. n # 0
    BY <1>2, <1>12
  <2>4. n \in 1 .. L /\ n - 1 \in 0 .. L /\ n - 1 \notin Bad
    BY <1>1, <2>2, <2>3
  <2>5. w[n - 1] \in Accs
    BY <2>4
  <2>6. w[n] \in Accs
    BY <1>1, <1>13, <2>4, <2>5, Turn
  <2> QED BY <2>6
<1> QED BY <1>12, <1>13, <1>14 DEF w, L, start

(* The filter_map keeps every pointer that leads to a transaction.         *)
LEMMA AllExist ==
    ASSUME NEW s \in Seq(AllPointers), \A i \in 1 .. Len(s) : s[i] \in Pointers(store)
    PROVE  Existing(s)[Len(s)] = s
<1> DEFINE L == Len(s)
           K(g) == [n \in 0 .. L |-> IF n = 0 THEN <<>>
                                     ELSE IF \E t \in store.transactions : TxnPointer(t) = s[n]
                                     THEN Append(g[n - 1], s[n])
                                     ELSE g[n - 1]]
           f == [n \in 0 .. L |-> SubSeq(s, 1, n)]
           kept == Existing(s)
<1>1. L \in Nat
  OBVIOUS
<1>2. \A n \in 1 .. L : \E t \in store.transactions : TxnPointer(t) = s[n]
  BY DEF Pointers
<1>3. \A n \in 1 .. L : SubSeq(s, 1, n) = Append(SubSeq(s, 1, n - 1), s[n])
  OBVIOUS
<1>4. SubSeq(s, 1, 0) = <<>> /\ SubSeq(s, 1, L) = s
  OBVIOUS
<1>5. f = K(f)
  <2>1. \A n \in 0 .. L : n # 0 => n \in 1 .. L /\ n - 1 \in 0 .. L
    BY <1>1
  <2>2. \A n \in 0 .. L : f[n] = SubSeq(s, 1, n)
    OBVIOUS
  <2> HIDE DEF L
  <2>3. \A n \in 0 .. L : f[n] = K(f)[n]
    BY <1>2, <1>3, <1>4, <2>1, <2>2
  <2> QED BY <2>3, Zenon
<1>6. kept = K(kept)
  <2>1. kept = CHOOSE g : g = K(g)
    BY DEF Existing
  <2> HIDE DEF kept, f, K
  <2> QED BY <1>5, <2>1
<1> HIDE DEF kept, f, L
<1>7. kept[0] = <<>> /\ \A n \in 1 .. L : kept[n] = Append(kept[n - 1], s[n])
  <2>1. 0 \in 0 .. L /\ \A n \in 1 .. L : n \in 0 .. L /\ n # 0
    BY <1>1
  <2>2. \A n \in 0 .. L : K(kept)[n] = IF n = 0 THEN <<>>
                                      ELSE IF \E t \in store.transactions : TxnPointer(t) = s[n]
                                      THEN Append(kept[n - 1], s[n])
                                      ELSE kept[n - 1]
    BY Zenon
  <2> HIDE DEF K
  <2>3. kept[0] = <<>>
    BY <1>6, <2>1, <2>2, Zenon
  <2>4. \A n \in 1 .. L : kept[n] = Append(kept[n - 1], s[n])
    BY <1>2, <1>6, <2>1, <2>2, Zenon
  <2> QED BY <2>3, <2>4
<1> DEFINE Bad == {n \in 0 .. L : kept[n] # SubSeq(s, 1, n)}
<1>8. Bad = {}
  <2> SUFFICES ASSUME Bad # {} PROVE FALSE
    OBVIOUS
  <2>1. Bad \in SUBSET Nat
    BY <1>1
  <2>2. PICK n \in Bad : \A k \in Bad : n <= k
    <3> HIDE DEF Bad
    <3> QED BY <2>1, LeastNat
  <2>3. n # 0
    BY <1>4, <1>7, Zenon
  <2>4. n \in 1 .. L /\ n - 1 \in 0 .. L /\ n - 1 \notin Bad
    BY <1>1, <2>2, <2>3
  <2>5. kept[n] = SubSeq(s, 1, n)
    BY <1>3, <1>7, <2>4, Zenon
  <2> QED BY <2>5
<1>9. kept[L] = SubSeq(s, 1, L)
  BY <1>1, <1>8
<1> QED BY <1>4, <1>9 DEF kept, L

----------------------------------------------------------------------------
(* The invariant of the loop of get_block, for the pointers P walked so    *)
(* far.                                                                    *)

NoRepeats(s) == \A i, j \in 1 .. Len(s) : s[i] = s[j] => i = j

InOrder(s, seen) ==
    \A i \in 1 .. Len(s) :
        \/ sequence_number_cache[s[i][1]] = s[i][2]
        \/ Previous(s[i]) \in seen
        \/ \E j \in 1 .. i - 1 : s[j] = Previous(s[i])

(* What was skipped is taken as soon as its predecessor is.                *)
Rechecked(skipped, S) ==
    \A q \in skipped :
        /\ sequence_number_cache[q[1]] # q[2]
        /\ q \in S <=> Previous(q) \in S

WalkInv(acc, P, seen) ==
    /\ acc.seen = seen \cup Range(acc.result)
    /\ P \ seen = Range(acc.result) \cup acc.skipped
    /\ NoRepeats(acc.result)
    /\ InOrder(acc.result, seen)
    /\ Rechecked(acc.skipped, acc.seen)

LEMMA RangeOf ==
    ASSUME NEW s \in Seq(AllPointers)
    PROVE  /\ Range(s) \in SUBSET AllPointers
           /\ \A p : p \in Range(s) <=> \E i \in 1 .. Len(s) : s[i] = p
BY DEF Range

LEMMA Concat ==
    ASSUME NEW s \in Seq(AllPointers), NEW t \in Seq(AllPointers)
    PROVE  /\ s \o t \in Seq(AllPointers)
           /\ Len(s \o t) = Len(s) + Len(t)
           /\ \A i \in 1 .. Len(s) : (s \o t)[i] = s[i]
           /\ \A i \in 1 .. Len(t) : (s \o t)[Len(s) + i] = t[i]
           /\ Range(s \o t) = Range(s) \cup Range(t)
<1> DEFINE st == s \o t
<1>1. /\ st \in Seq(AllPointers) /\ Len(st) = Len(s) + Len(t)
      /\ Len(s) \in Nat /\ Len(t) \in Nat
  OBVIOUS
<1>2. \A i \in 1 .. Len(s) : st[i] = s[i]
  OBVIOUS
<1>3. \A i \in 1 .. Len(t) : st[Len(s) + i] = t[i]
  OBVIOUS
<1> HIDE DEF st
<1>4. ASSUME NEW i \in 1 .. Len(st)
      PROVE  st[i] \in Range(s) \cup Range(t)
  <2>1. CASE i <= Len(s)
    BY <1>1, <1>2, <2>1, RangeOf
  <2>2. CASE i > Len(s)
    <3>1. i - Len(s) \in 1 .. Len(t) /\ Len(s) + (i - Len(s)) = i
      BY <1>1, <2>2
    <3>2. st[i] = t[i - Len(s)]
      BY <1>3, <3>1
    <3> QED BY <3>1, <3>2, RangeOf
  <2> QED BY <1>1, <2>1, <2>2
<1>5. \A i \in 1 .. Len(s) : i \in 1 .. Len(st)
  BY <1>1
<1>6. \A i \in 1 .. Len(t) : Len(s) + i \in 1 .. Len(st)
  BY <1>1
<1>7. Range(st) = Range(s) \cup Range(t)
  <2>1. \A p \in Range(st) : p \in Range(s) \cup Range(t)
    BY <1>1, <1>4, RangeOf
  <2>2. \A p \in Range(s) : p \in Range(st)
    BY <1>1, <1>2, <1>5, RangeOf
  <2>3. ASSUME NEW p \in Range(t)
        PROVE  p \in Range(st)
    <3>1. PICK i \in 1 .. Len(t) : t[i] = p
      BY RangeOf
    <3>2. Len(s) + i \in 1 .. Len(st) /\ st[Len(s) + i] = p
      BY <1>3, <1>6, <3>1
    <3> QED BY <1>1, <3>2, RangeOf, Zenon
  <2> QED BY <2>1, <2>2, <2>3
<1> QED BY <1>1, <1>2, <1>3, <1>7 DEF st

LEMMA RunFacts ==
    ASSUME NEW key \in Keys, NEW m \in Nat
    PROVE  /\ Run(key, m) \in Seq(AllPointers)
           /\ Len(Run(key, m)) = m + 1
           /\ Range(Run(key, m)) = {Pointer(key)} \cup Segment(key.account, key.seq, m)
           /\ NoRepeats(Run(key, m))
           /\ Run(key, m)[1] = Pointer(key)
           /\ \A i \in 2 .. m + 1 : Previous(Run(key, m)[i]) = Run(key, m)[i - 1]
<1> DEFINE r == Run(key, m)
<1>1. \A i \in 1 .. m + 1 : r[i] = <<key.account, key.seq + i - 1>>
  BY DEF Run
<1>2. \A i \in 1 .. m + 1 : <<key.account, key.seq + i - 1>> \in AllPointers
  <2>1. \A i \in 1 .. m + 1 : key.seq + i - 1 \in Nat
    BY PointerFacts
  <2> QED BY <2>1, PointerFacts DEF AllPointers
<1>3. r \in Seq(AllPointers) /\ Len(r) = m + 1
  <2>1. m + 1 \in Nat
    OBVIOUS
  <2> QED BY <1>2, <2>1 DEF Run
<1> HIDE DEF r
<1>4. Range(r) = {Pointer(key)} \cup Segment(key.account, key.seq, m)
  <2>1. ASSUME NEW i \in 1 .. m + 1
        PROVE  r[i] \in {Pointer(key)} \cup Segment(key.account, key.seq, m)
    <3>1. CASE i = 1
      <4>1. key.seq + i - 1 = key.seq
        BY <3>1, PointerFacts
      <4> QED BY <1>1, <4>1, Zenon DEF Pointer
    <3>2. CASE i # 1
      <4>1. key.seq + i - 1 \in key.seq + 1 .. key.seq + m
        BY <3>2, PointerFacts
      <4> QED BY <1>1, <4>1, Zenon DEF Segment
    <3> QED BY <3>1, <3>2
  <2>2. Pointer(key) = r[1] /\ 1 \in 1 .. m + 1
    <3>1. 1 \in 1 .. m + 1 /\ key.seq + 1 - 1 = key.seq
      BY PointerFacts
    <3> QED BY <1>1, <3>1 DEF Pointer
  <2>3. ASSUME NEW k \in key.seq + 1 .. key.seq + m
        PROVE  \E i \in 1 .. m + 1 : r[i] = <<key.account, k>>
    <3>1. k - key.seq + 1 \in 1 .. m + 1 /\ key.seq + (k - key.seq + 1) - 1 = k
      BY PointerFacts
    <3> QED BY <1>1, <3>1
  <2>4. \A p \in Range(r) : p \in {Pointer(key)} \cup Segment(key.account, key.seq, m)
    BY <1>3, <2>1, RangeOf
  <2>5. \A p \in Segment(key.account, key.seq, m) : p \in Range(r)
    BY <1>3, <2>3, RangeOf, Zenon DEF Segment
  <2>6. Pointer(key) \in Range(r)
    BY <1>3, <2>2, RangeOf
  <2> QED BY <2>4, <2>5, <2>6
<1>5. NoRepeats(r)
  <2>1. \A i, j \in 1 .. m + 1 : key.seq + i - 1 = key.seq + j - 1 => i = j
    BY PointerFacts
  <2>2. ASSUME NEW i \in 1 .. m + 1, NEW j \in 1 .. m + 1, r[i] = r[j]
        PROVE  i = j
    <3>1. key.seq + i - 1 = key.seq + j - 1
      BY <1>1, <2>2
    <3> QED BY <2>1, <3>1
  <2> QED BY <1>3, <2>2 DEF NoRepeats
<1>6. r[1] = Pointer(key)
  <2>1. 1 \in 1 .. m + 1 /\ key.seq + 1 - 1 = key.seq
    BY PointerFacts
  <2> QED BY <1>1, <2>1 DEF Pointer
<1>7. ASSUME NEW i \in 2 .. m + 1
      PROVE  Previous(r[i]) = r[i - 1]
  <2>1. i \in 1 .. m + 1 /\ i - 1 \in 1 .. m + 1
    OBVIOUS
  <2>2. (key.seq + i - 1) - 1 = key.seq + (i - 1) - 1
    BY PointerFacts
  <2> QED BY <1>1, <2>1, <2>2 DEF Previous
<1> QED BY <1>3, <1>4, <1>5, <1>6, <1>7 DEF r

(* What a turn takes was not seen: of the skipped pointers after key, the  *)
(* first that was seen would follow one that was.                          *)
LEMMA SegmentUnseen ==
    ASSUME NEW key \in Keys, NEW m \in Nat, NEW S \in SUBSET AllPointers,
           NEW skipped \in SUBSET AllPointers, Rechecked(skipped, S),
           Segment(key.account, key.seq, m) \subseteq skipped, Pointer(key) \notin S
    PROVE  Segment(key.account, key.seq, m) \cap S = {}
<1> DEFINE a == key.account
           s == key.seq
           Bad == {k \in s + 1 .. s + m : <<a, k>> \in S}
<1>1. s \in Nat /\ <<a, s>> \notin S
  BY PointerFacts DEF Pointer
<1>2. Bad = {}
  <2> SUFFICES ASSUME Bad # {} PROVE FALSE
    OBVIOUS
  <2>1. Bad \in SUBSET Nat
    BY <1>1
  <2>2. PICK k \in Bad : \A l \in Bad : k <= l
    <3> HIDE DEF Bad
    <3> QED BY <2>1, LeastNat
  <2>3. <<a, k>> \in skipped /\ <<a, k>> \in S
    BY <2>2 DEF Segment
  <2>4. <<a, k - 1>> \in S
    BY <2>3 DEF Rechecked, Previous
  <2>5. k - 1 # s
    BY <1>1, <2>4
  <2>6. k - 1 \in s + 1 .. s + m
    BY <1>1, <2>2, <2>5
  <2>7. k - 1 \in Bad
    BY <2>4, <2>6
  <2> QED BY <1>1, <2>2, <2>7
<1> QED BY <1>2 DEF Segment

LEMMA RunKeepsOrder ==
    ASSUME NEW s \in Seq(AllPointers), NEW seen \in SUBSET AllPointers,
           NEW key \in Keys, NEW m \in Nat,
           NoRepeats(s), InOrder(s, seen),
           IsNext(Pointer(key), seen \cup Range(s)),
           Range(s) \cap Range(Run(key, m)) = {}
    PROVE  NoRepeats(s \o Run(key, m)) /\ InOrder(s \o Run(key, m), seen)
<1> DEFINE r == Run(key, m)
           st == s \o r
           L == Len(s)
<1>1. /\ r \in Seq(AllPointers) /\ Len(r) = m + 1 /\ NoRepeats(r)
      /\ r[1] = Pointer(key) /\ \A i \in 2 .. m + 1 : Previous(r[i]) = r[i - 1]
  BY RunFacts, Zenon
<1> HIDE DEF r
<1>2. /\ L \in Nat /\ Len(st) = L + m + 1
      /\ \A i \in 1 .. L : st[i] = s[i]
      /\ \A i \in 1 .. m + 1 : st[L + i] = r[i]
  <2>1. L \in Nat /\ m + 1 = Len(r)
    BY <1>1
  <2>2. Len(st) = L + Len(r) /\ \A i \in 1 .. L : st[i] = s[i]
    BY <1>1, Concat, Zenon
  <2>3. \A i \in 1 .. Len(r) : st[L + i] = r[i]
    BY <1>1, Concat
  <2> HIDE DEF st, L
  <2>4. Len(st) = L + m + 1
    BY <2>1, <2>2
  <2>5. \A i \in 1 .. m + 1 : st[L + i] = r[i]
    BY <2>1, <2>3, Zenon
  <2> QED BY <2>1, <2>2, <2>4, <2>5, Zenon
<1>3. \A i \in 1 .. L, j \in 1 .. m + 1 : s[i] # r[j]
  <2>1. \A i \in 1 .. L : s[i] \in Range(s)
    BY RangeOf
  <2>2. \A j \in 1 .. m + 1 : r[j] \in Range(r)
    BY <1>1, RangeOf
  <2> QED BY <2>1, <2>2 DEF r
<1> HIDE DEF st, L
<1>4. \A i \in 1 .. Len(st) : i \in 1 .. L \/ \E j \in 1 .. m + 1 : i = L + j
  <2> SUFFICES ASSUME NEW i \in 1 .. Len(st), i \notin 1 .. L
               PROVE  i - L \in 1 .. m + 1 /\ i = L + (i - L)
    OBVIOUS
  <2> QED BY <1>2
<1>5. NoRepeats(st)
  <2> SUFFICES ASSUME NEW i \in 1 .. Len(st), NEW j \in 1 .. Len(st), st[i] = st[j]
               PROVE  i = j
    BY DEF NoRepeats
  <2>1. CASE i \in 1 .. L /\ j \in 1 .. L
    BY <1>2, <2>1 DEF NoRepeats, L
  <2>2. ASSUME NEW k \in 1 .. m + 1, NEW l \in 1 .. m + 1, i = L + k, j = L + l
        PROVE  i = j
    <3>1. r[k] = r[l]
      BY <1>2, <2>2
    <3>2. k = l
      BY <1>1, <3>1 DEF NoRepeats
    <3> QED BY <2>2, <3>2
  <2>3. ASSUME NEW k \in 1 .. m + 1, i \in 1 .. L, j = L + k
        PROVE  FALSE
    BY <1>2, <1>3, <2>3
  <2>4. ASSUME NEW k \in 1 .. m + 1, j \in 1 .. L, i = L + k
        PROVE  FALSE
    BY <1>2, <1>3, <2>4, ZenonT(30)
  <2> QED BY <1>4, <2>1, <2>2, <2>3, <2>4
<1>6. InOrder(st, seen)
  <2> DEFINE Fine(i) == \/ sequence_number_cache[st[i][1]] = st[i][2]
                        \/ Previous(st[i]) \in seen
                        \/ \E j \in 1 .. i - 1 : st[j] = Previous(st[i])
  <2>1. ASSUME NEW i \in 1 .. L
        PROVE  Fine(i)
    <3>1. st[i] = s[i] /\ \A j \in 1 .. i - 1 : j \in 1 .. L /\ st[j] = s[j]
      BY <1>2
    <3>2. \/ sequence_number_cache[s[i][1]] = s[i][2]
          \/ Previous(s[i]) \in seen
          \/ \E j \in 1 .. i - 1 : s[j] = Previous(s[i])
      BY DEF InOrder, L
    <3> QED BY <3>1, <3>2
  <2>2. Fine(L + 1)
    <3>1. st[L + 1] = Pointer(key)
      BY <1>1, <1>2
    <3>2. \A j \in 1 .. L : j \in 1 .. (L + 1) - 1 /\ st[j] = s[j]
      BY <1>2
    <3>3. \A q \in Range(s) : \E j \in 1 .. L : s[j] = q
      BY RangeOf DEF L
    <3> QED BY <3>1, <3>2, <3>3 DEF IsNext
  <2>3. ASSUME NEW k \in 2 .. m + 1
        PROVE  Fine(L + k)
    <3>1. k \in 1 .. m + 1 /\ k - 1 \in 1 .. m + 1 /\ L + (k - 1) \in 1 .. (L + k) - 1
      BY <1>2
    <3>2. st[L + k] = r[k] /\ st[L + (k - 1)] = r[k - 1]
      BY <1>2, <3>1
    <3>3. st[L + (k - 1)] = Previous(st[L + k])
      BY <1>1, <3>2
    <3> QED BY <3>1, <3>3
  <2> HIDE DEF Fine
  <2>4. \A k \in 1 .. m + 1 : Fine(L + k)
    <3>1. \A k \in 1 .. m + 1 : k = 1 \/ k \in 2 .. m + 1
      OBVIOUS
    <3> QED BY <2>2, <2>3, <3>1
  <2>5. \A i \in 1 .. Len(st) : Fine(i)
    BY <1>4, <2>1, <2>4
  <2> QED BY <2>5 DEF InOrder, Fine
<1> QED BY <1>5, <1>6 DEF st, r

(* Taking p = <<a, s>> and the m transactions skipped after it leaves no   *)
(* skipped transaction whose predecessor is seen and which is not.         *)
LEMMA TakeRechecks ==
    ASSUME NEW skipped \in SUBSET AllPointers, NEW seen \in SUBSET AllPointers,
           NEW a \in Accounts, NEW s \in Nat, NEW m \in Nat,
           Rechecked(skipped, seen), <<a, s>> \notin skipped, <<a, s + m + 1>> \notin skipped
    PROVE  Rechecked(skipped, seen \cup {<<a, s>>} \cup Segment(a, s, m))
<1> DEFINE p == <<a, s>>
           U == Segment(a, s, m)
<1> SUFFICES ASSUME NEW q \in skipped
             PROVE  /\ sequence_number_cache[q[1]] # q[2]
                    /\ q \in seen \cup {p} \cup U <=> Previous(q) \in seen \cup {p} \cup U
  BY DEF Rechecked
<1>1. sequence_number_cache[q[1]] # q[2] /\ (q \in seen <=> Previous(q) \in seen)
  BY DEF Rechecked
<1>2. q # p
  OBVIOUS
<1>3. q = <<q[1], q[2]>> /\ q[2] \in Nat /\ Previous(q) = <<q[1], q[2] - 1>>
  BY DEF AllPointers, Previous
<1>4. ASSUME NEW k \in s + 1 .. s + m, q = <<a, k>>
      PROVE  Previous(q) \in {p} \cup U
  <2>1. Previous(q) = <<a, k - 1>>
    BY <1>4 DEF Previous
  <2>2. k - 1 = s \/ k - 1 \in s + 1 .. s + m
    OBVIOUS
  <2> QED BY <2>1, <2>2 DEF Segment
<1>5. q \in U => Previous(q) \in {p} \cup U
  BY <1>4 DEF Segment
<1>6. ASSUME NEW k \in s .. s + m, Previous(q) = <<a, k>> PROVE q \in U
  <2>1. q = <<a, k + 1>>
    BY <1>3, <1>6
  <2>2. k # s + m
    BY <2>1
  <2>3. k + 1 \in s + 1 .. s + m
    BY <2>2
  <2> QED BY <2>1, <2>3 DEF Segment
<1>7. Previous(q) \in {p} \cup U => q \in U
  <2>1. s \in s .. s + m /\ \A k \in s + 1 .. s + m : k \in s .. s + m
    OBVIOUS
  <2> QED BY <1>6, <2>1 DEF Segment
<1> HIDE DEF p, U
<1> QED BY <1>1, <1>2, <1>5, <1>7

(* A turn of the loop keeps its invariant.                                 *)
LEMMA PassKeeps ==
    ASSUME NEW acc, NEW new, NEW key, NEW seen, NEW P, Pointer(key) \notin P,
           WalkInv(acc, P, seen), Passes(acc, key, new)
    PROVE  WalkInv(new, P \cup {Pointer(key)}, seen)
<1>1. new = acc /\ Pointer(key) \in seen
  <2>1. new = acc /\ Pointer(key) \in acc.seen
    BY Zenon DEF Passes
  <2>2. acc.seen = seen \cup Range(acc.result) /\ P \ seen = Range(acc.result) \cup acc.skipped
    BY DEF WalkInv
  <2> QED BY <2>1, <2>2
<1>2. (P \cup {Pointer(key)}) \ seen = P \ seen
  BY <1>1
<1> QED BY <1>1, <1>2, Zenon DEF WalkInv

LEMMA SkipKeeps ==
    ASSUME NEW acc, NEW new, NEW key, NEW seen, NEW P, Pointer(key) \notin P,
           WalkInv(acc, P, seen), Skips(acc, key, new)
    PROVE  WalkInv(new, P \cup {Pointer(key)}, seen)
<1> DEFINE p == Pointer(key)
<1>1. /\ p \notin acc.seen /\ ~IsNext(p, acc.seen)
      /\ new.result = acc.result /\ new.seen = acc.seen
      /\ new.skipped = acc.skipped \cup {p}
  BY Zenon DEF Skips
<1>2. /\ acc.seen = seen \cup Range(acc.result)
      /\ P \ seen = Range(acc.result) \cup acc.skipped
      /\ NoRepeats(acc.result) /\ InOrder(acc.result, seen)
      /\ Rechecked(acc.skipped, acc.seen)
  BY DEF WalkInv
<1> HIDE DEF p
<1>3. (P \cup {p}) \ seen = Range(new.result) \cup new.skipped
  BY <1>1, <1>2
<1>4. Rechecked(new.skipped, new.seen)
  BY <1>1, <1>2 DEF Rechecked, IsNext
<1> QED BY <1>1, <1>2, <1>3, <1>4, Zenon DEF WalkInv, p

LEMMA TakeKeeps ==
    ASSUME NEW acc \in Accs, NEW new \in Accs, NEW key \in Keys,
           NEW seen \in SUBSET AllPointers, NEW P, Pointer(key) \notin P,
           WalkInv(acc, P, seen), Takes(acc, key, new)
    PROVE  WalkInv(new, P \cup {Pointer(key)}, seen)
<1> DEFINE p == Pointer(key)
           a == key.account
           s == key.seq
<1>1. /\ acc.result \in Seq(AllPointers) /\ acc.seen \in SUBSET AllPointers
      /\ acc.skipped \in SUBSET AllPointers
  BY DEF Accs, PointerSeqs, PointerSets, FinitePointerSets
<1>2. /\ acc.seen = seen \cup Range(acc.result)
      /\ P \ seen = Range(acc.result) \cup acc.skipped
      /\ NoRepeats(acc.result) /\ InOrder(acc.result, seen)
      /\ Rechecked(acc.skipped, acc.seen)
  BY DEF WalkInv
<1>3. p \in AllPointers /\ a \in Accounts /\ s \in Nat /\ p = <<a, s>>
  BY PointerFacts DEF Pointer
<1>4. p \notin Range(acc.result) /\ p \notin acc.skipped
  BY <1>2
<1>5. PICK m \in Nat :
        /\ Segment(a, s, m) \subseteq acc.skipped
        /\ <<a, s + m + 1>> \notin acc.skipped
        /\ new.result = acc.result \o Run(key, m)
        /\ new.seen = acc.seen \cup {p} \cup Segment(a, s, m)
        /\ new.skipped = acc.skipped
  BY Zenon DEF Takes
<1> DEFINE U == Segment(a, s, m)
<1>6. p \notin acc.seen /\ IsNext(p, acc.seen)
  BY Zenon DEF Takes
<1>7. U \cap acc.seen = {}
  <2>1. Rechecked(acc.skipped, acc.seen) /\ U \subseteq acc.skipped /\ p \notin acc.seen
    BY <1>2, <1>5, <1>6, Zenon
  <2> QED BY <1>1, <2>1, SegmentUnseen, Zenon
<1>8. Run(key, m) \in Seq(AllPointers) /\ Range(Run(key, m)) = {p} \cup U
  BY RunFacts
<1>9. Rechecked(new.skipped, new.seen)
  <2>1. Rechecked(acc.skipped, acc.seen) /\ <<a, s>> \notin acc.skipped
    BY <1>2, <1>3, <1>4, Zenon
  <2>2. Rechecked(acc.skipped, acc.seen \cup {<<a, s>>} \cup Segment(a, s, m))
    <3> HIDE DEF a, s
    <3> QED BY <1>1, <1>3, <1>5, <2>1, TakeRechecks, Zenon
  <2> QED BY <1>3, <1>5, <2>2, Zenon
<1> HIDE DEF p, a, s, U
<1>10. Range(new.result) = Range(acc.result) \cup {p} \cup U
  <2>1. Range(acc.result \o Run(key, m)) = Range(acc.result) \cup Range(Run(key, m))
    BY <1>1, <1>8, Concat
  <2> QED BY <1>5, <1>8, <2>1
<1>11. new.seen = seen \cup Range(new.result)
  BY <1>2, <1>5, <1>10 DEF U
<1>12. (P \cup {p}) \ seen = Range(new.result) \cup new.skipped
  <2>1. U \subseteq acc.skipped /\ new.skipped = acc.skipped
    BY <1>5 DEF U
  <2>2. p \notin seen
    BY <1>2, <1>6
  <2> QED BY <1>2, <1>10, <2>1, <2>2
<1>13. NoRepeats(new.result) /\ InOrder(new.result, seen)
  <2>1. Range(acc.result) \cap Range(Run(key, m)) = {}
    BY <1>2, <1>4, <1>7, <1>8
  <2>2. IsNext(Pointer(key), seen \cup Range(acc.result))
    BY <1>2, <1>6, Zenon DEF p
  <2>3. NoRepeats(acc.result \o Run(key, m)) /\ InOrder(acc.result \o Run(key, m), seen)
    BY <1>1, <1>2, <2>1, <2>2, RunKeepsOrder, Zenon
  <2> QED BY <1>5, <2>3, Zenon
<1> QED BY <1>9, <1>11, <1>12, <1>13, Zenon DEF WalkInv, p

LEMMA TurnKeeps ==
    ASSUME NEW acc \in Accs, NEW new \in Accs, NEW key \in Keys,
           NEW seen \in SUBSET AllPointers, NEW P \in SUBSET AllPointers,
           Pointer(key) \notin P, WalkInv(acc, P, seen),
           Passes(acc, key, new) \/ Takes(acc, key, new) \/ Skips(acc, key, new)
    PROVE  WalkInv(new, P \cup {Pointer(key)}, seen)
BY PassKeeps, SkipKeeps, TakeKeeps, Zenon

FirstPointers(order, n) == {Pointer(order[i]) : i \in 1 .. n}

LEMMA WalkKeeps ==
    ASSUME NEW order \in Seq(Keys), NEW seen \in SUBSET AllPointers,
           \A i, j \in 1 .. Len(order) : Pointer(order[i]) = Pointer(order[j]) => i = j
    PROVE  LET acc == Walk(order, seen)[Len(order)]
           IN  acc \in Accs /\ WalkInv(acc, FirstPointers(order, Len(order)), seen)
<1> DEFINE L == Len(order)
           w == Walk(order, seen)
           P(n) == FirstPointers(order, n)
           Bad == {n \in 0 .. L : ~WalkInv(w[n], P(n), seen)}
<1>1. L \in Nat /\ \A n \in 1 .. L : order[n] \in Keys /\ Pointer(order[n]) \in AllPointers
  BY PointerFacts
<1>2. /\ w[0] = [result |-> <<>>, seen |-> seen, skipped |-> {}]
      /\ \A n \in 1 .. L : w[n] = WalkStep(w[n - 1], order[n])
      /\ \A n \in 0 .. L : w[n] \in Accs
  BY WalkFacts DEF PointerSets
<1> HIDE DEF w, L
<1>3. WalkInv(w[0], P(0), seen)
  <2>1. w[0].result = <<>> /\ w[0].seen = seen /\ w[0].skipped = {}
    BY <1>2
  <2>2. Range(<<>>) = {} /\ Len(<<>>) = 0
    BY DEF Range
  <2>3. P(0) = {}
    BY DEF FirstPointers
  <2>4. NoRepeats(<<>>) /\ InOrder(<<>>, seen)
    BY <2>2 DEF NoRepeats, InOrder
  <2> QED BY <2>1, <2>2, <2>3, <2>4 DEF WalkInv, Rechecked
<1>4. ASSUME NEW n \in 1 .. L, WalkInv(w[n - 1], P(n - 1), seen)
      PROVE  WalkInv(w[n], P(n), seen)
  <2>1. n - 1 \in 0 .. L /\ n \in 0 .. L /\ n \in Nat
    BY <1>1
  <2>2. P(n) = P(n - 1) \cup {Pointer(order[n])}
    <3>1. \A i \in 1 .. n : i \in 1 .. n - 1 \/ i = n
      BY <2>1
    <3>2. n \in 1 .. n /\ \A i \in 1 .. n - 1 : i \in 1 .. n
      BY <2>1
    <3> QED BY <3>1, <3>2 DEF FirstPointers
  <2>3. Pointer(order[n]) \notin P(n - 1)
    <3>1. \A i \in 1 .. n - 1 : i \in 1 .. L /\ i # n
      BY <1>1, <2>1
    <3> QED BY <3>1 DEF FirstPointers, L
  <2>4. P(n - 1) \in SUBSET AllPointers
    <3>1. \A i \in 1 .. n - 1 : i \in 1 .. L
      BY <1>1, <2>1
    <3> QED BY <1>1, <3>1 DEF FirstPointers
  <2>5. /\ w[n - 1] \in Accs /\ w[n] \in Accs
        /\ \/ Passes(w[n - 1], order[n], w[n])
           \/ Takes(w[n - 1], order[n], w[n])
           \/ Skips(w[n - 1], order[n], w[n])
    <3>1. w[n] = WalkStep(w[n - 1], order[n]) /\ w[n - 1] \in Accs /\ w[n] \in Accs
      BY <1>2, <2>1
    <3> QED BY <1>1, <3>1, Turn
  <2>6. WalkInv(w[n], P(n - 1) \cup {Pointer(order[n])}, seen)
    <3> HIDE DEF P
    <3> QED BY <1>1, <1>4, <2>3, <2>4, <2>5, TurnKeeps
  <2> QED BY <2>2, <2>6
<1> HIDE DEF P
<1>5. Bad = {}
  <2> SUFFICES ASSUME Bad # {} PROVE FALSE
    OBVIOUS
  <2>1. Bad \in SUBSET Nat
    BY <1>1
  <2>2. PICK n \in Bad : \A k \in Bad : n <= k
    <3> HIDE DEF Bad
    <3> QED BY <2>1, LeastNat
  <2>3. n # 0
    BY <1>3
  <2>4. n \in 1 .. L /\ n - 1 \in 0 .. L /\ n - 1 \notin Bad
    BY <1>1, <2>2, <2>3
  <2>5. WalkInv(w[n - 1], P(n - 1), seen)
    BY <2>4
  <2> QED BY <1>4, <2>4, <2>5
<1>6. L \in 0 .. L
  BY <1>1
<1>7. WalkInv(w[L], P(L), seen) /\ w[L] \in Accs
  BY <1>2, <1>5, <1>6
<1> QED BY <1>7 DEF w, L, P

(* At the end of the walk, the result has exactly the pointers that follow *)
(* the account's sequence number, or one seen before, with no gap.         *)
LEMMA WalkComplete ==
    ASSUME NEW acc \in Accs, NEW seen \in SUBSET AllPointers, NEW P \in SUBSET AllPointers,
           WalkInv(acc, P, seen)
    PROVE  Range(acc.result) =
             {p \in P \ seen :
                \E first \in 0 .. p[2] :
                   /\ \A n \in first .. p[2] : <<p[1], n>> \in P \ seen
                   /\ first = sequence_number_cache[p[1]] \/ <<p[1], first - 1>> \in seen}
<1> DEFINE R == Range(acc.result)
           Chain(p, first) ==
             /\ \A n \in first .. p[2] : <<p[1], n>> \in P \ seen
             /\ first = sequence_number_cache[p[1]] \/ <<p[1], first - 1>> \in seen
           E == {p \in P \ seen : \E first \in 0 .. p[2] : Chain(p, first)}
<1>1. acc.result \in Seq(AllPointers)
  BY DEF Accs, PointerSeqs
<1>2. R \subseteq P \ seen /\ R \subseteq AllPointers
  BY DEF WalkInv
<1>3. ASSUME NEW p \in R
      PROVE  \/ sequence_number_cache[p[1]] = p[2]
             \/ <<p[1], p[2] - 1>> \in seen
             \/ <<p[1], p[2] - 1>> \in R
  <2>1. PICK i \in 1 .. Len(acc.result) : acc.result[i] = p
    BY <1>1, RangeOf
  <2>2. \/ sequence_number_cache[p[1]] = p[2]
        \/ Previous(p) \in seen
        \/ \E j \in 1 .. i - 1 : acc.result[j] = Previous(p)
    BY <2>1 DEF WalkInv, InOrder
  <2>3. \A j \in 1 .. i - 1 : acc.result[j] \in R
    <3>1. \A j \in 1 .. i - 1 : j \in 1 .. Len(acc.result)
      BY <1>1
    <3> QED BY <1>1, <3>1, RangeOf
  <2> QED BY <2>2, <2>3 DEF Previous
<1>4. \A p \in AllPointers : p[1] \in Accounts /\ p[2] \in Nat /\ p = <<p[1], p[2]>>
  BY DEF AllPointers
<1> HIDE DEF R
<1>5. R \subseteq E
  <2> DEFINE Bad == {n \in Nat : \E p \in R : p[2] = n /\ ~ \E first \in 0 .. p[2] : Chain(p, first)}
  <2>1. Bad = {}
    <3> SUFFICES ASSUME Bad # {} PROVE FALSE
      BY Zenon
    <3>1. PICK n \in Bad : \A k \in Bad : n <= k
      <4>1. Bad \in SUBSET Nat
        OBVIOUS
      <4> HIDE DEF Bad
      <4> QED BY <4>1, LeastNat
    <3>2. PICK p \in R : p[2] = n /\ ~ \E first \in 0 .. p[2] : Chain(p, first)
      BY <3>1
    <3>3. p \in P \ seen /\ p[2] \in Nat /\ p = <<p[1], p[2]>>
      BY <1>2, <1>4
    <3>4. ~Chain(p, p[2])
      BY <3>2, <3>3
    <3>5. \A k \in p[2] .. p[2] : k = p[2]
      BY <3>3
    <3>6. p[2] # sequence_number_cache[p[1]] /\ <<p[1], p[2] - 1>> \notin seen
      BY <3>3, <3>4, <3>5
    <3> DEFINE q == <<p[1], p[2] - 1>>
    <3>7. q \in R
      BY <1>3, <3>6
    <3>8. q[1] = p[1] /\ q[2] = p[2] - 1 /\ q[2] \in Nat
      BY <1>2, <1>4, <3>7
    <3> HIDE DEF q
    <3>9. q[2] \notin Bad
      <4> HIDE DEF Bad
      <4> QED BY <3>1, <3>2, <3>3, <3>8
    <3>10. PICK first \in 0 .. q[2] : Chain(q, first)
      BY <3>7, <3>8, <3>9, Zenon
    <3>11. first \in 0 .. p[2] /\ \A k \in first .. p[2] : k \in first .. q[2] \/ k = p[2]
      BY <3>3, <3>8
    <3>12. Chain(p, first)
      BY <3>3, <3>8, <3>10, <3>11
    <3> QED BY <3>2, <3>11, <3>12, Zenon
  <2>2. \A p \in R : p[2] \in Nat
    BY <1>2, <1>4
  <2> QED BY <1>2, <2>1, <2>2
<1>6. E \subseteq R
  <2> SUFFICES ASSUME NEW p \in P \ seen, NEW first \in 0 .. p[2], Chain(p, first)
               PROVE  p \in R
    BY Zenon
  <2> DEFINE a == p[1]
             Bad == {n \in first .. p[2] : <<a, n>> \notin R}
  <2>1. p = <<a, p[2]>> /\ p[2] \in Nat /\ first \in Nat
    BY <1>4
  <2>2. Bad = {}
    <3> SUFFICES ASSUME Bad # {} PROVE FALSE
      OBVIOUS
    <3>1. PICK n \in Bad : \A k \in Bad : n <= k
      <4>1. Bad \in SUBSET Nat
        BY <2>1
      <4> HIDE DEF Bad
      <4> QED BY <4>1, LeastNat
    <3>2. n \in first .. p[2] /\ <<a, n>> \notin R /\ <<a, n>> \in P \ seen
      BY <3>1
    <3>3. <<a, n>> \in acc.skipped /\ <<a, n>> \notin acc.seen
      BY <3>2 DEF WalkInv, R
    <3>4. sequence_number_cache[a] # n /\ <<a, n - 1>> \notin acc.seen
      BY <3>3 DEF WalkInv, Rechecked, Previous
    <3>5. n # first
      BY <3>4 DEF WalkInv
    <3>6. n - 1 \in first .. p[2]
      BY <2>1, <3>2, <3>5
    <3>7. n - 1 \notin Bad
      <4> HIDE DEF Bad
      <4> QED BY <2>1, <3>1, <3>2
    <3>8. <<a, n - 1>> \in R
      BY <3>6, <3>7
    <3> QED BY <3>4, <3>8 DEF WalkInv, R
  <2>3. p[2] \in first .. p[2]
    BY <2>1
  <2> QED BY <2>1, <2>2, <2>3
<1> QED BY <1>5, <1>6 DEF R

(* An order of the priority index has the pointer of each transaction in   *)
(* the index once.                                                         *)
LEMMA OrderFacts ==
    ASSUME Agree(store), NEW order \in PriorityOrders
    PROVE  /\ order \in Seq(Keys)
           /\ \A i, j \in 1 .. Len(order) : Pointer(order[i]) = Pointer(order[j]) => i = j
           /\ FirstPointers(order, Len(order)) = {Pointer(k) : k \in store.priority_index}
           /\ FirstPointers(order, Len(order)) \subseteq Pointers(store)
<1> DEFINE K == store.priority_index
           c == Cardinality(K)
<1>1. K \subseteq Keys /\ K \subseteq {OrderedQueueKey(t) : t \in store.transactions}
  BY DEF Agree, Stores, Keys
<1>2. c \in Nat
  <2> DEFINE X == store.transactions
             Q == {OrderedQueueKey(t) : t \in X}
             f == [t \in X |-> OrderedQueueKey(t)]
  <2>1. IsFiniteSet(X)
    BY DEF Agree
  <2>2. f \in Surjection(X, Q)
    BY DEF Surjection
  <2> HIDE DEF f, Q, X
  <2>3. IsFiniteSet(Q)
    BY <2>1, <2>2, FS_Surjection
  <2>4. IsFiniteSet(K)
    BY <1>1, <2>3, FS_Subset DEF Q, X
  <2> QED BY <2>4, FS_CardinalityType
<1>3. /\ order \in [1 .. c -> K]
      /\ \A i, j \in 1 .. c : order[i] = order[j] => i = j
      /\ \A k \in K : \E i \in 1 .. c : order[i] = k
  BY DEF PriorityOrders, Bijection, Injection, IsInjective, Surjection
<1> HIDE DEF c
<1>4. order \in Seq(Keys) /\ Len(order) = c
  <2>1. order \in [1 .. c -> Keys]
    BY <1>1, <1>3
  <2> QED BY <1>2, <2>1
<1>5. \A k \in K : \E t \in store.transactions : k = OrderedQueueKey(t) /\ Pointer(k) = TxnPointer(t)
  <2>1. \A t \in store.transactions : Pointer(OrderedQueueKey(t)) = TxnPointer(t)
    BY DEF Pointer, OrderedQueueKey, TxnPointer
  <2> QED BY <1>1, <2>1
<1>6. \A k, l \in K : Pointer(k) = Pointer(l) => k = l
  BY <1>5 DEF Agree, Distinct
<1>7. \A i, j \in 1 .. c : Pointer(order[i]) = Pointer(order[j]) => i = j
  BY <1>3, <1>6
<1>8. FirstPointers(order, c) = {Pointer(k) : k \in K}
  BY <1>3 DEF FirstPointers
<1>9. {Pointer(k) : k \in K} \subseteq Pointers(store)
  BY <1>5 DEF Pointers
<1> QED BY <1>4, <1>7, <1>8, <1>9

LEMMA NoRepeatsFits ==
    ASSUME NEW s \in Seq(AllPointers), NoRepeats(s), NEW T, IsFiniteSet(T), Range(s) \subseteq T
    PROVE  Len(s) <= Cardinality(T)
<1>1. Len(s) \in Nat
  OBVIOUS
<1>2. s \in [1 .. Len(s) -> T]
  BY RangeOf
<1>3. s \in Injection(1 .. Len(s), T)
  BY <1>2 DEF NoRepeats, Injection, IsInjective
<1>4. Cardinality(1 .. Len(s)) <= Cardinality(T)
  BY <1>3, FS_Injection
<1>5. Cardinality(1 .. Len(s)) = Len(s)
  <2>1. \A n \in Nat : Cardinality(1 .. n) = n
    BY FS_Interval
  <2> QED BY <1>1, <2>1
<1> QED BY <1>4, <1>5

LEMMA StorePointers ==
    ASSUME Agree(store)
    PROVE  /\ IsFiniteSet(Pointers(store)) /\ Pointers(store) \subseteq AllPointers
           /\ Cardinality(Pointers(store)) <= Cardinality(store.transactions)
<1> DEFINE X == store.transactions
           f == [t \in X |-> TxnPointer(t)]
<1>1. IsFiniteSet(X) /\ X \subseteq Txns
  BY DEF Agree, Stores
<1>2. f \in Surjection(X, Pointers(store))
  BY DEF Surjection, Pointers
<1>3. Pointers(store) \subseteq AllPointers
  BY <1>1, PointerType DEF Pointers
<1> HIDE DEF f
<1> QED BY <1>1, <1>2, <1>3, FS_Surjection

(* Whatever the order of the priority index and whatever was sent to       *)
(* consensus before, get_block offers all the transactions that could be   *)
(* executed next, each once and after its predecessor.                     *)
THEOREM BlocksAlwaysInOrder == Spec => []BlockInOrder
<1>1. IInv => BlockInOrder
  <2> SUFFICES ASSUME Agree(store), Bounded(store),
                      NEW seen \in SUBSET Pointers(store), NEW order \in PriorityOrders
               PROVE  LET block == get_block(order, seen, capacity)
                      IN  /\ Range(block) = Eligible(seen)
                          /\ \A i \in DOMAIN block :
                                LET p == block[i]
                                IN  /\ \A j \in 1 .. i - 1 : block[j] # p
                                    /\ \/ p[2] = sequence_number_cache[p[1]]
                                       \/ <<p[1], p[2] - 1>> \in seen
                                       \/ \E j \in 1 .. i - 1 : block[j] = <<p[1], p[2] - 1>>
    BY Zenon DEF IInv, BlockInOrder
  <2> DEFINE acc == Walk(order, seen)[Len(order)]
             s == acc.result
             P == FirstPointers(order, Len(order))
             block == get_block(order, seen, capacity)
  <2>1. seen \in SUBSET AllPointers /\ P \in SUBSET AllPointers /\ P \subseteq Pointers(store)
    <3>1. Pointers(store) \subseteq AllPointers
      BY StorePointers
    <3>2. P \subseteq Pointers(store)
      BY OrderFacts, Zenon
    <3> HIDE DEF P
    <3> QED BY <3>1, <3>2
  <2>2. acc \in Accs /\ WalkInv(acc, P, seen)
    BY <2>1, OrderFacts, WalkKeeps
  <2> HIDE DEF acc, P
  <2>3. /\ s \in Seq(AllPointers) /\ NoRepeats(s) /\ InOrder(s, seen)
        /\ Range(s) \subseteq Pointers(store)
    BY <2>1, <2>2 DEF Accs, PointerSeqs, WalkInv
  <2>4. Len(s) <= capacity
    <3>1. Len(s) <= Cardinality(Pointers(store))
      BY <2>3, StorePointers, NoRepeatsFits
    <3>2. Len(s) \in Nat /\ Cardinality(Pointers(store)) \in Nat
      BY <2>3, StorePointers, FS_CardinalityType
    <3>3. Cardinality(store.transactions) \in Nat /\ Cardinality(store.transactions) <= capacity
      BY Sizes DEF Bounded
    <3> QED BY <3>1, <3>2, <3>3, StorePointers, MempoolAssumption
  <2>5. block = s
    <3>1. \A i \in 1 .. Len(s) : s[i] \in Pointers(store)
      BY <2>3, RangeOf
    <3>2. Existing(s)[Len(s)] = s
      BY <2>3, <3>1, AllExist
    <3>3. block = Existing(s)[Len(s)]
      BY <2>4 DEF get_block, acc
    <3> QED BY <3>2, <3>3
  <2>6. Range(s) = Eligible(seen)
    <3>1. {Pointer(k) : k \in store.priority_index} = {<<k.account, k.seq>> : k \in store.priority_index}
      BY DEF Pointer
    <3>2. P = {<<k.account, k.seq>> : k \in store.priority_index}
      BY <3>1, OrderFacts DEF P
    <3>3. Eligible(seen) =
            {p \in P \ seen :
               \E first \in 0 .. p[2] :
                  /\ \A n \in first .. p[2] : <<p[1], n>> \in P \ seen
                  /\ first = sequence_number_cache[p[1]] \/ <<p[1], first - 1>> \in seen}
      BY <3>2 DEF Eligible
    <3> QED BY <2>1, <2>2, <3>3, WalkComplete, ZenonT(30)
  <2>7. ASSUME NEW i \in 1 .. Len(s)
        PROVE  /\ \A j \in 1 .. i - 1 : s[j] # s[i]
               /\ \/ s[i][2] = sequence_number_cache[s[i][1]]
                  \/ <<s[i][1], s[i][2] - 1>> \in seen
                  \/ \E j \in 1 .. i - 1 : s[j] = <<s[i][1], s[i][2] - 1>>
    <3>1. \A j \in 1 .. i - 1 : j \in 1 .. Len(s) /\ j # i
      BY <2>3
    <3>2. \A j \in 1 .. i - 1 : s[j] # s[i]
      BY <2>3, <3>1 DEF NoRepeats
    <3> QED BY <2>3, <3>2, Zenon DEF InOrder, Previous
  <2>8. DOMAIN s = 1 .. Len(s)
    BY <2>3
  <2> HIDE DEF s, block
  <2>9. /\ Range(block) = Eligible(seen)
        /\ \A i \in DOMAIN block :
              /\ \A j \in 1 .. i - 1 : block[j] # block[i]
              /\ \/ block[i][2] = sequence_number_cache[block[i][1]]
                 \/ <<block[i][1], block[i][2] - 1>> \in seen
                 \/ \E j \in 1 .. i - 1 : block[j] = <<block[i][1], block[i][2] - 1>>
    BY <2>5, <2>6, <2>7, <2>8, Zenon
  <2> QED BY <2>9, ZenonT(30) DEF block
<1> QED BY <1>1, Invariance, PTL

=============================================================================
