------------------------------ MODULE Mempool ------------------------------
(***************************************************************************)
(* The core mempool of one node: the transaction store with its six        *)
(* structures, and the cache of account sequence numbers.  The tasks of    *)
(* the shared mempool call it under one lock, in any order: transactions   *)
(* of clients and peers, commit notifications (each a task of its own),    *)
(* rejections, requests for a block and garbage collection.  Storage runs  *)
(* ahead of the notifications by any amount, and a task may have read it   *)
(* long ago: the sequence numbers that come with a submission or a         *)
(* notification are arbitrary.                                             *)
(*                                                                         *)
(* A transaction is its account, its sequence number, its gas price and    *)
(* its TimelineState.  The store is one record, on which the operators     *)
(* below work the way the methods do on self.  Expiration times are        *)
(* arbitrary, so a collection expires an arbitrary set of transactions.    *)
(***************************************************************************)
EXTENDS Integers, FiniteSets, Sequences, Functions

CONSTANTS
    Accounts,           \* addresses: naturals, as they are ordered
    MaxSeq,             \* bound on the sequence numbers submitted
    Submissions,        \* the account, number and gas price of the
                        \* transactions that may be submitted
    capacity, capacity_per_user,
    MaxTimelineId       \* bound on the timeline: no submission beyond

ASSUME MempoolAssumption ==
    /\ Accounts \subseteq Nat
    /\ MaxSeq \in Nat
    /\ Submissions \subseteq Accounts \X (0..MaxSeq) \X Nat
    /\ capacity \in Nat
    /\ capacity_per_user \in Nat

VARIABLES
    store,                  \* the TransactionStore
    sequence_number_cache   \* account -> sequence number, or None

vars == <<store, sequence_number_cache>>

None == -1

(* TimelineState: NotReady, NonQualified, or the id of Ready(id).          *)
NotReady == 0
NonQualified == -1
IsReady(txn) == txn.timeline_state > 0

SequenceNumbers == 0..MaxSeq

Transactions ==
    [account : Accounts, seq : SequenceNumbers, gas : Nat,
     timeline_state : Nat \cup {NonQualified}]

TxnPointers == Accounts \X SequenceNumbers

Max2(x, y) == IF x >= y THEN x ELSE y

TxnPointer(txn) == <<txn.account, txn.seq>>
OrderedQueueKey(txn) == [account |-> txn.account, seq |-> txn.seq, gas |-> txn.gas]
TimelineEntry(txn) ==
    [id |-> txn.timeline_state, account |-> txn.account, seq |-> txn.seq]

EmptyStore ==
    [transactions |-> {}, priority_index |-> {},
     system_ttl_index |-> {}, expiration_time_index |-> {},
     timeline |-> {}, timeline_id |-> 1, parking_lot_index |-> {}]

AccountTransactions(st, account) == {t \in st.transactions : t.account = account}

----------------------------------------------------------------------------
(* The transaction store.                                                  *)

(* Faulty variant: the parking lot keeps its pointers.                     *)
index_remove_NotParkingLot(st, T) ==
    [st EXCEPT !.transactions = @ \ T,
               !.system_ttl_index = @ \ {TxnPointer(t) : t \in T},
               !.expiration_time_index = @ \ {TxnPointer(t) : t \in T},
               !.priority_index = @ \ {OrderedQueueKey(t) : t \in T},
               !.timeline = @ \ {TimelineEntry(t) : t \in T}]

(* Transactions T leave the store and all its indexes.                     *)
index_remove(st, T) ==
    [st EXCEPT !.transactions = @ \ T,
               !.system_ttl_index = @ \ {TxnPointer(t) : t \in T},
               !.expiration_time_index = @ \ {TxnPointer(t) : t \in T},
               !.priority_index = @ \ {OrderedQueueKey(t) : t \in T},
               !.timeline = @ \ {TimelineEntry(t) : t \in T},
               !.parking_lot_index = @ \ {TxnPointer(t) : t \in T}]

(* It would be ready for broadcast once inserted.                          *)
check_txn_ready(st, account, seq, current) ==
    \/ seq = current
    \/ \E t \in st.transactions :
          t.account = account /\ t.seq = seq - 1 /\ IsReady(t)

(* The greatest pointer of the parking lot, which pop does not remove.     *)
ParkingLotPop(st) ==
    CHOOSE p \in st.parking_lot_index :
        \A q \in st.parking_lot_index :
            q[1] < p[1] \/ (q[1] = p[1] /\ q[2] <= p[2])

IsFull(st) == Cardinality(st.system_ttl_index) >= capacity

(* check_if_full: a ready transaction may evict one of the parking lot.    *)
MakeRoom(st, account, seq, current) ==
    IF IsFull(st) /\ check_txn_ready(st, account, seq, current) /\ st.parking_lot_index # {}
    THEN index_remove(st, {t \in st.transactions : TxnPointer(t) = ParkingLotPop(st)})
    ELSE st

clean_committed_transactions(st, account, current) ==
    index_remove(st, {t \in AccountTransactions(st, account) : t.seq < current})

(* The end of the account's transactions that follow current with no gap.  *)
FirstGap(st, account, current) ==
    LET seqs == {t.seq : t \in AccountTransactions(st, account)}
    IN  CHOOSE n \in current .. current + MaxSeq + 1 :
            n \notin seqs /\ \A m \in current .. n - 1 : m \in seqs

(* Promotion: transactions with no gap enter the priority index and, when  *)
(* NotReady, the timeline; later ones that are not Ready are parked.       *)
process_ready_transactions(st, account, current) ==
    LET gap == FirstGap(st, account, current)
        sequential == {t \in AccountTransactions(st, account) : t.seq \in current .. gap - 1}
        entering == {t \in sequential : t.timeline_state = NotReady}
        NewId(t) == st.timeline_id + Cardinality({u \in entering : u.seq < t.seq})
        broadcast == {[t EXCEPT !.timeline_state = NewId(t)] : t \in entering}
        later == {t \in AccountTransactions(st, account) : t.seq > gap /\ ~IsReady(t)}
    IN  [st EXCEPT !.transactions = (@ \ entering) \cup broadcast,
                   !.priority_index = @ \cup {OrderedQueueKey(t) : t \in sequential},
                   !.timeline = @ \cup {TimelineEntry(t) : t \in broadcast},
                   !.timeline_id = @ + Cardinality(entering),
                   !.parking_lot_index = @ \cup {TxnPointer(t) : t \in later}]

commit_transaction(st, account, current) ==
    process_ready_transactions(
        clean_committed_transactions(st, account, current), account, current)

reject_transaction(st, account) == index_remove(st, AccountTransactions(st, account))

(* Garbage collection of the transactions expired: those that follow one   *)
(* of them are parked, but keep their TimelineState.                       *)
GarbageCollect(st, expired) ==
    LET following == {t \in st.transactions :
                         \E e \in expired : e.account = t.account /\ e.seq < t.seq}
        parked == [st EXCEPT
                     !.parking_lot_index = @ \cup {TxnPointer(t) : t \in following},
                     !.priority_index = @ \ {OrderedQueueKey(t) : t \in following},
                     !.timeline = @ \ {TimelineEntry(t) : t \in following}]
    IN  index_remove(parked, expired)

----------------------------------------------------------------------------
(* Mempool.add_txn, by its outcomes.  The sequence number d was read from  *)
(* storage before the transaction was validated.                           *)

CurrentSeq(account, d) == Max2(sequence_number_cache[account], d)

Submit(account, seq, d) ==
    /\ seq >= d
    /\ store.timeline_id <= MaxTimelineId
    /\ sequence_number_cache' =
           [sequence_number_cache EXCEPT ![account] = CurrentSeq(account, d)]

(* InvalidSeqNumber.                                                       *)
add_txn_too_old(account, seq, d) ==
    /\ Submit(account, seq, d)
    /\ seq < CurrentSeq(account, d)
    /\ UNCHANGED store

(* InvalidUpdate: it is known, with other contents or no lower a gas price. *)
add_txn_invalid_update(account, seq, d) ==
    /\ Submit(account, seq, d)
    /\ seq >= CurrentSeq(account, d)
    /\ \E t \in store.transactions : TxnPointer(t) = <<account, seq>>
    /\ UNCHANGED store

(* The store of insert after handle_gas_price_update and check_if_full,    *)
(* for a transaction that is new or raises the gas price.                  *)
CanInsert(account, seq, gas, d) ==
    /\ Submit(account, seq, d)
    /\ seq >= CurrentSeq(account, d)
    /\ \A t \in store.transactions : TxnPointer(t) = <<account, seq>> => t.gas < gas

StoreWithRoom(account, seq, d) ==
    MakeRoom(index_remove(store, {t \in store.transactions : TxnPointer(t) = <<account, seq>>}),
             account, seq, CurrentSeq(account, d))

(* MempoolIsFull.                                                          *)
add_txn_full(account, seq, gas, d) ==
    /\ CanInsert(account, seq, gas, d)
    /\ store' = StoreWithRoom(account, seq, d)
    /\ IsFull(store')

CleanStore(account, seq, d) ==
    clean_committed_transactions(StoreWithRoom(account, seq, d), account, CurrentSeq(account, d))

(* Faulty variant: the account may have one transaction too many.          *)
UserIsFull_Exceeded(st, account) ==
    Cardinality(AccountTransactions(st, account)) > capacity_per_user

UserIsFull(st, account) ==
    Cardinality(AccountTransactions(st, account)) >= capacity_per_user

(* TooManyTransactions.                                                    *)
add_txn_too_many(account, seq, gas, d) ==
    /\ CanInsert(account, seq, gas, d)
    /\ ~IsFull(StoreWithRoom(account, seq, d))
    /\ store' = CleanStore(account, seq, d)
    /\ UserIsFull(store', account)

(* The transaction enters the store and the two TTL indexes.               *)
InsertInto(st, txn) ==
    [st EXCEPT !.transactions = @ \cup {txn},
               !.system_ttl_index = @ \cup {TxnPointer(txn)},
               !.expiration_time_index = @ \cup {TxnPointer(txn)}]

(* Accepted.                                                               *)
add_txn_accepted(account, seq, gas, d, timeline_state) ==
    /\ CanInsert(account, seq, gas, d)
    /\ ~IsFull(StoreWithRoom(account, seq, d))
    /\ ~UserIsFull(CleanStore(account, seq, d), account)
    /\ LET txn == [account |-> account, seq |-> seq, gas |-> gas,
                   timeline_state |-> timeline_state]
       IN  store' = process_ready_transactions(
                       InsertInto(CleanStore(account, seq, d), txn),
                       account, CurrentSeq(account, d))

(* A client's transaction is NotReady, an upstream peer's NonQualified.    *)
add_txn(account, seq, gas, d) ==
    \/ add_txn_too_old(account, seq, d)
    \/ add_txn_invalid_update(account, seq, d)
    \/ add_txn_full(account, seq, gas, d)
    \/ add_txn_too_many(account, seq, gas, d)
    \/ \E s \in {NotReady, NonQualified} : add_txn_accepted(account, seq, gas, d, s)

----------------------------------------------------------------------------
(* Commits, rejections and garbage collection.                             *)

AnyExpired(st) == SUBSET st.transactions

(* commit_txns for a committed block: remove_transaction, then collection  *)
(* by the block's timestamp.                                               *)
process_state_sync_request(account, seq) ==
    LET current == Max2(sequence_number_cache[account], seq + 1)
        st == commit_transaction(store, account, current)
    IN  /\ sequence_number_cache' = [sequence_number_cache EXCEPT ![account] = current]
        /\ \E expired \in AnyExpired(st) : store' = GarbageCollect(st, expired)

(* commit_txns for a transaction that consensus rejected.                  *)
reject(account, seq) ==
    /\ sequence_number_cache' = [sequence_number_cache EXCEPT ![account] = None]
    /\ store' = IF seq >= sequence_number_cache[account]
                THEN reject_transaction(store, account) ELSE store

(* The collection that precedes get_block in process_consensus_request.    *)
gc_by_expiration_time(expired) ==
    /\ store' = GarbageCollect(store, expired)
    /\ UNCHANGED sequence_number_cache

(* The periodic collection: by system TTL, and of the cached numbers.      *)
gc(expired, accounts) ==
    /\ store' = GarbageCollect(store, expired)
    /\ sequence_number_cache' =
           [a \in Accounts |-> IF a \in accounts THEN None ELSE sequence_number_cache[a]]

Init ==
    /\ store = EmptyStore
    /\ sequence_number_cache = [a \in Accounts |-> None]

Next ==
    \/ \E s \in Submissions :
          \/ \E d \in SequenceNumbers : add_txn(s[1], s[2], s[3], d)
          \/ process_state_sync_request(s[1], s[2])
          \/ reject(s[1], s[2])
    \/ \E expired \in AnyExpired(store) : gc_by_expiration_time(expired)
    \/ \E expired \in AnyExpired(store), accounts \in SUBSET Accounts : gc(expired, accounts)

Spec == Init /\ [][Next]_vars

----------------------------------------------------------------------------
(* get_block: the transactions offered to consensus, for the pointers seen *)
(* (sent to consensus before) and an order of the priority index.          *)

(* The pointers skipped that follow <<account, seq>> with no gap.          *)
SkippedAfter(skipped, account, seq) ==
    {p \in skipped : p[1] = account /\ p[2] > seq
                     /\ \A n \in seq + 1 .. p[2] : <<account, n>> \in skipped}

(* Faulty variant: transactions skipped before are not looked at again.    *)
WalkStep_NoRecheck(acc, key) ==
    LET p == <<key.account, key.seq>>
    IN  IF p \in acc.seen THEN acc
        ELSE IF \/ key.seq > 0 /\ <<key.account, key.seq - 1>> \in acc.seen
                \/ sequence_number_cache[key.account] = key.seq
        THEN [acc EXCEPT !.result = Append(@, p), !.seen = @ \cup {p}]
        ELSE [acc EXCEPT !.skipped = @ \cup {p}]

(* One turn of the loop of get_block.                                      *)
WalkStep(acc, key) ==
    LET p == <<key.account, key.seq>>
        unblocked == SkippedAfter(acc.skipped, key.account, key.seq)
    IN  IF p \in acc.seen THEN acc
        ELSE IF \/ key.seq > 0 /\ <<key.account, key.seq - 1>> \in acc.seen
                \/ sequence_number_cache[key.account] = key.seq
        THEN [acc EXCEPT
                !.result = @ \o [i \in 1 .. Cardinality(unblocked) + 1 |->
                                    <<key.account, key.seq + i - 1>>],
                !.seen = @ \cup {p} \cup unblocked]
        ELSE [acc EXCEPT !.skipped = @ \cup {p}]

(* The state of the loop after the first n keys of order.                  *)
Walk(order, seen) ==
    LET walk[n \in 0 .. Len(order)] ==
            IF n = 0 THEN [result |-> <<>>, seen |-> seen, skipped |-> {}]
            ELSE WalkStep(walk[n - 1], order[n])
    IN  walk

(* The filter_map at the end: the first n pointers without those that lead *)
(* to no transaction.                                                      *)
Existing(pointers) ==
    LET kept[n \in 0 .. Len(pointers)] ==
            IF n = 0 THEN <<>>
            ELSE IF \E t \in store.transactions : TxnPointer(t) = pointers[n]
            THEN Append(kept[n - 1], pointers[n])
            ELSE kept[n - 1]
    IN  kept

(* The walk stops as soon as batch_size pointers are found.                *)
get_block(order, seen, batch_size) ==
    LET result == Walk(order, seen)[Len(order)].result
        found == IF Len(result) <= batch_size THEN result ELSE SubSeq(result, 1, batch_size)
    IN  Existing(found)[Len(found)]

(* The orders of the priority index: by gas price, and among equal prices  *)
(* by expiration time, which is arbitrary.                                 *)
PriorityOrders ==
    {o \in Bijection(1 .. Cardinality(store.priority_index), store.priority_index) :
        \A i, j \in DOMAIN o : i < j => o[i].gas >= o[j].gas}

----------------------------------------------------------------------------
(* Properties.                                                             *)

TypeOK ==
    /\ store.transactions \subseteq Transactions
    /\ store.priority_index \subseteq [account : Accounts, seq : SequenceNumbers, gas : Nat]
    /\ store.system_ttl_index \subseteq TxnPointers
    /\ store.expiration_time_index \subseteq TxnPointers
    /\ store.parking_lot_index \subseteq TxnPointers
    /\ store.timeline \subseteq [id : Nat, account : Accounts, seq : SequenceNumbers]
    /\ store.timeline_id \in Nat \ {0}
    /\ sequence_number_cache \in [Accounts -> Nat \cup {None}]

Pointers(st) == {TxnPointer(t) : t \in st.transactions}

(* The five indexes never disagree with the store, whatever order inserts, *)
(* updates, evictions, commits, rejections and collections come in: a      *)
(* transaction is known once, is in both TTL indexes (so that it counts    *)
(* for the capacity and will expire), and every other entry leads to the   *)
(* transaction it was made for (so that read_timeline finds the first      *)
(* entry that broadcast_single_peer expects, and pop frees a place).       *)
IndexesAgree ==
    /\ \A t, u \in store.transactions : TxnPointer(t) = TxnPointer(u) => t = u
    /\ store.system_ttl_index = Pointers(store)
    /\ store.expiration_time_index = Pointers(store)
    /\ store.priority_index \subseteq {OrderedQueueKey(t) : t \in store.transactions}
    /\ store.parking_lot_index \subseteq Pointers(store)
    /\ store.timeline \subseteq {TimelineEntry(t) : t \in store.transactions}
    /\ \A t, u \in store.transactions :
          IsReady(t) => /\ t.timeline_state < store.timeline_id
                        /\ t.timeline_state = u.timeline_state => t = u

(* The store never holds more transactions than its capacities.            *)
WithinCapacity ==
    /\ Cardinality(store.transactions) <= capacity
    /\ \A a \in Accounts : Cardinality(AccountTransactions(store, a)) <= capacity_per_user

(* What get_block should offer: the transactions of the priority index not *)
(* seen that follow, with no gap, the account's sequence number or a       *)
(* transaction seen.                                                       *)
Eligible(seen) ==
    LET ready == {<<k.account, k.seq>> : k \in store.priority_index} \ seen
    IN  {p \in ready :
            \E first \in 0 .. p[2] :
                /\ \A n \in first .. p[2] : <<p[1], n>> \in ready
                /\ first = sequence_number_cache[p[1]] \/ <<p[1], first - 1>> \in seen}

(* Whatever the order of the queue and whatever was sent before, get_block *)
(* offers all that consensus could execute next, each transaction once and *)
(* after its predecessor, up to the size of the batch.                     *)
BlockInOrder ==
    \A seen \in SUBSET Pointers(store), order \in PriorityOrders :
        LET block == get_block(order, seen, capacity)
        IN  /\ Range(block) = Eligible(seen)
            /\ \A i \in DOMAIN block :
                  LET p == block[i]
                  IN  /\ \A j \in 1 .. i - 1 : block[j] # p
                      /\ \/ p[2] = sequence_number_cache[p[1]]
                         \/ <<p[1], p[2] - 1>> \in seen
                         \/ \E j \in 1 .. i - 1 : block[j] = <<p[1], p[2] - 1>>

(* What process_ready_transactions says it fixes: a transaction ready for  *)
(* consensus is also in the timeline, from which it is broadcast, unless   *)
(* it came from an upstream peer.                                          *)
ReadyInTimeline ==
    \A t \in store.transactions :
        OrderedQueueKey(t) \in store.priority_index /\ t.timeline_state # NonQualified
            => TimelineEntry(t) \in store.timeline

=============================================================================
