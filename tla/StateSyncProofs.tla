--------------------------- MODULE StateSyncProofs ---------------------------
(***************************************************************************)
(* State synchronization is safe for every history of LedgerInfos and      *)
(* epochs, every waypoint, chunk size and set of peers, and any number of  *)
(* failures.                                                               *)
(***************************************************************************)
EXTENDS StateSync, TLAPS, FiniteSetTheorems

(* More time for a step than the provers take by default.                  *)
USE SMTT(20), ZenonT(20)

Nodes ==
    [li : Nat, synced : Nat, pending_li_queue : SUBSET Nat, target_li : Nat \cup {None},
     sync_request : Nat \cup {None}, failed : BOOLEAN]

(* A request names the epoch of the chunk that it asks for, and a node     *)
(* below its waypoint asks for nothing else.                               *)
Requests ==
    {r \in [known_version : Nat, current_epoch : Nat,
            type : {"Waypoint", "HighestAvailable", "TargetLedgerInfo"},
            target : Nat \cup {None}] :
        /\ r.current_epoch = EpochOf(r.known_version + 1)
        /\ r.type = "Waypoint" => r.target = waypoint}

(* A chunk does not go past its LI.  The LI that comes along with a chunk  *)
(* on the way to the waypoint tells whether the chunk ends an epoch.       *)
Chunks ==
    {c \in [kind : {"Verifiable", "Progressive", "Waypoint"}, first : Nat, last : Nat,
            li : Nat, other_li : Nat \cup {None}] :
        /\ c.last <= c.li
        /\ c.kind = "Progressive" => c.other_li \in Nat
        /\ c.kind = "Waypoint" =>
              /\ c.li = waypoint
              /\ c.first <= c.last /\ c.last < waypoint =>
                    EpochOf(c.last + 1) =
                        IF c.other_li = c.last THEN EpochOf(c.first) + 1 ELSE EpochOf(c.first)}

(* The inductive invariant.  The synced version may be past the last LI,   *)
(* but never past the end of its epoch.                                    *)
NodeInv ==
    /\ node \in Nodes
    /\ node.li <= node.synced
    /\ EpochOf(node.synced + 1) = epoch(node)
    /\ node.sync_request # None => is_initialized(node)
    /\ ~node.failed

MessagesInv ==
    /\ requests \in [Peers -> SUBSET Requests]
    /\ subscriptions \in [Peers -> SUBSET Requests]
    /\ responses \in [Peers -> SUBSET Chunks]

IInv == NodeInv /\ MessagesInv /\ upstream \in [Peers -> Nat]

----------------------------------------------------------------------------
(* Naturals and epochs.                                                    *)

(* A nonempty set of naturals has a least element, which is its Min.       *)
LEMMA MinNat ==
    ASSUME NEW T \in SUBSET Nat, T # {}
    PROVE  Min(T) \in T /\ \A n \in T : Min(T) <= n
<1>1. PICK m \in T : \A n \in T : <<n, m>> \notin OpToRel(<, Nat)
  BY NatLessThanWellFounded, WFMin, Zenon
<1>2. \A n \in T : ~(n < m)
  BY <1>1, Zenon DEF OpToRel
<1>3. \A n \in T : m <= n
  BY <1>2
<1> QED BY <1>3, Zenon DEF Min

(* A bounded one has a greatest element, which is its Max.                 *)
LEMMA MaxNat ==
    ASSUME NEW T \in SUBSET Nat, T # {}, NEW b \in Nat, \A n \in T : n <= b
    PROVE  Max(T) \in T
<1> DEFINE D == {b - n : n \in T}
<1>1. \A d \in D : d \in Nat
  OBVIOUS
<1>a. D # {}
  BY Zenon
<1>2. PICK d \in D : \A e \in D : d <= e
  BY <1>1, <1>a, MinNat, Zenon
<1>3. PICK m \in T : d = b - m
  OBVIOUS
<1>4. \A n \in T : m >= n
  <2> TAKE n \in T
  <2>1. b - m <= b - n
    BY <1>2, <1>3, Zenon
  <2> QED BY <2>1
<1> QED BY <1>4, Zenon DEF Max

LEMMA MinOfTwo ==
    ASSUME NEW a \in Nat, NEW b \in Nat
    PROVE  Min({a, b}) \in Nat /\ Min({a, b}) <= a /\ Min({a, b}) <= b
BY MinNat, {a, b} \in SUBSET Nat, {a, b} # {}

LEMMA ConstantsNat ==
    /\ \A e \in EpochEnds : e \in Nat
    /\ \A l \in LIs : l \in Nat
    /\ waypoint \in EpochEnds /\ waypoint \in Nat
    /\ chunk_limit \in Nat /\ chunk_limit > 0
BY StateSyncAssumption

USE ConstantsNat

LEMMA EpochFinite ==
    ASSUME NEW v \in Nat
    PROVE  IsFiniteSet({e \in EpochEnds : e < v})
<1> DEFINE S == {e \in EpochEnds : e < v}
<1>1. S \subseteq Nat
  BY Zenon
<1>a. \A e \in S : e <= v
  OBVIOUS
<1> HIDE DEF S
<1>2. IsFiniteSet(S)
  BY <1>1, <1>a, FS_BoundedSetOfNaturals
<1> QED BY <1>2 DEF S

LEMMA EpochNat == \A v \in Nat : EpochOf(v) \in Nat
BY EpochFinite, FS_CardinalityType DEF EpochOf

(* Epochs grow with versions.                                              *)
LEMMA EpochMonotone ==
    ASSUME NEW u \in Nat, NEW v \in Nat, u <= v
    PROVE  EpochOf(u) <= EpochOf(v)
<1> DEFINE S == {e \in EpochEnds : e < v}
           T == {e \in EpochEnds : e < u}
<1>1. \A e \in T : e \in S
  OBVIOUS
<1>2. IsFiniteSet(S)
  BY EpochFinite
<1> HIDE DEF S, T
<1>3. Cardinality(T) <= Cardinality(S)
  BY <1>1, <1>2, FS_Subset
<1> QED BY <1>3 DEF EpochOf, S, T

(* An epoch begins after the version that ends the one before.             *)
LEMMA EpochStep ==
    ASSUME NEW v \in Nat
    PROVE  EpochOf(v + 1) = IF v \in EpochEnds THEN EpochOf(v) + 1 ELSE EpochOf(v)
<1> DEFINE S == {e \in EpochEnds : e < v}
           T == {e \in EpochEnds : e < v + 1}
<1>1. IsFiniteSet(S)
  BY EpochFinite
<1>2. CASE v \in EpochEnds
  <2>a. \A e \in T : e \in S \cup {v}
    OBVIOUS
  <2>b. \A e \in S \cup {v} : e \in T
    BY <1>2
  <2>c. v \notin S
    OBVIOUS
  <2> HIDE DEF S, T
  <2>1. T = S \cup {v}
    BY <2>a, <2>b
  <2>2. Cardinality(T) = Cardinality(S) + 1
    BY <1>1, <2>c, <2>1, FS_AddElement
  <2> QED BY <1>2, <2>2 DEF EpochOf, S, T
<1>3. CASE v \notin EpochEnds
  <2>1. \A e \in EpochEnds : e < v <=> e < v + 1
    BY <1>3
  <2> QED BY <1>3, <2>1, Zenon DEF EpochOf
<1> QED BY <1>2, <1>3

(* An epoch that is over by version w, and that version v belongs to, has  *)
(* an end.                                                                 *)
LEMMA EpochHasEnd ==
    ASSUME NEW v \in Nat, NEW w \in EpochEnds, v <= w
    PROVE  /\ EndOfEpoch(EpochOf(v)) \in EpochEnds
           /\ EpochOf(EndOfEpoch(EpochOf(v))) = EpochOf(v)
<1> DEFINE T == {e \in EpochEnds : v <= e}
<1>1. T \in SUBSET Nat /\ T # {}
  BY Zenon
<1>2. PICK m \in T : \A n \in T : m <= n
  BY <1>1, MinNat, Zenon
<1>3. \A e \in EpochEnds : e < v <=> e < m
  BY <1>2
<1>4. EpochOf(m) = EpochOf(v)
  BY <1>3, Zenon DEF EpochOf
<1> QED BY <1>4 DEF EndOfEpoch

----------------------------------------------------------------------------
(* What the operators on a node and on messages return.                    *)

(* m differs from n in its pending LIs at most.                            *)
Kept(m, n) ==
    /\ m \in Nodes
    /\ m.li = n.li /\ m.synced = n.synced
    /\ m.sync_request = n.sync_request /\ m.failed = n.failed

LEMMA UpdateKeeps ==
    ASSUME NEW n \in Nodes
    PROVE  Kept(update(n), n)
<1> DEFINE queue == {l \in n.pending_li_queue : l > n.li}
           fits  == {l \in queue : n.li # n.synced \/ l <= n.synced + chunk_limit}
           t     == IF fits = {} THEN None
                    ELSE IF n.li = n.synced THEN Max(fits) ELSE Min(fits)
<1>1. queue \in SUBSET Nat
  BY DEF Nodes
<1>2. fits \in SUBSET Nat
  BY <1>1
<1>3. n.li = n.synced => \A l \in fits : l <= n.synced + chunk_limit
  OBVIOUS
<1>4. n.synced + chunk_limit \in Nat
  BY DEF Nodes
<1>5. update(n) = [n EXCEPT !.pending_li_queue = queue, !.target_li = t]
  BY DEF update
<1> HIDE DEF queue, fits
<1>6. t \in Nat \cup {None}
  <2>1. CASE fits = {}
    BY <2>1
  <2>2. CASE fits # {} /\ n.li = n.synced
    BY <2>2, <1>2, <1>3, <1>4, MaxNat, Zenon
  <2>3. CASE fits # {} /\ n.li # n.synced
    BY <2>3, <1>2, MinNat, Zenon
  <2> QED BY <2>1, <2>2, <2>3
<1> HIDE DEF t
<1> QED BY <1>1, <1>5, <1>6, Zenon DEF Kept, Nodes

LEMMA NotedKeeps ==
    ASSUME node \in Nodes, NEW c \in Chunks
    PROVE  Kept(Noted(c), node)
<1>1. c.kind = "Progressive" => c.other_li \in Nat
  BY DEF Chunks
<1> QED BY <1>1 DEF Noted, add_li, Kept, Nodes

(* process_commit does not panic on a node that has not synced past its    *)
(* target, and ends the sync request only at the target.                   *)
LEMMA ProcessCommit ==
    ASSUME NEW n \in Nodes, ~n.failed,
           n.sync_request # None => n.synced <= n.sync_request
    PROVE  /\ process_commit(n) \in Nodes
           /\ process_commit(n).li = n.li /\ process_commit(n).synced = n.synced
           /\ ~process_commit(n).failed
           /\ process_commit(n).sync_request # None =>
                 process_commit(n).sync_request = n.sync_request
           /\ n.sync_request # None /\ process_commit(n).sync_request = None =>
                 n.synced = n.sync_request
<1> DEFINE m == update(n)
<1>1. Kept(m, n)
  BY UpdateKeeps
<1>2. process_commit(n) = IF m.sync_request = None \/ m.synced < m.sync_request THEN m
                          ELSE IF m.synced = m.sync_request
                               THEN [m EXCEPT !.sync_request = None]
                               ELSE [m EXCEPT !.failed = TRUE]
  BY DEF process_commit
<1> HIDE DEF m
<1>3. CASE m.sync_request = None \/ m.synced < m.sync_request
  BY <1>1, <1>2, <1>3 DEF Kept
<1>4. CASE ~(m.sync_request = None \/ m.synced < m.sync_request)
  <2>1. m.synced = m.sync_request
    BY <1>1, <1>4 DEF Kept, Nodes
  <2>2. process_commit(n) = [m EXCEPT !.sync_request = None]
    BY <1>2, <1>4, <2>1
  <2> QED BY <1>1, <2>1, <2>2 DEF Kept, Nodes, None
<1> QED BY <1>3, <1>4

(* A chunk is stored with an LI at its end, or with none if it does not    *)
(* end an epoch.                                                           *)
Stored(m, n, c, e) ==
    /\ m \in Nodes
    /\ m.synced = c.last
    /\ m.sync_request = n.sync_request
    /\ m.failed = n.failed
    /\ \/ m.li = c.last /\ (c.li = c.last \/ e = c.last)
       \/ m.li = n.li /\ c.li # c.last /\ c.last \notin EpochEnds /\ e = None

LEMMA ChunkStored ==
    ASSUME NEW n \in Nodes, NEW c \in Chunks, NEW e \in Nat \cup {None},
           NEW m \in execute_and_commit_chunk(n, c, e)
    PROVE  Stored(m, n, c, e)
<1>1. PICK li \in find_chunk_li(c, e) :
          m = [n EXCEPT !.synced = c.last, !.li = IF li = None THEN @ ELSE li]
  BY Zenon DEF execute_and_commit_chunk
<1>2. c.last \in Nat /\ c.li \in Nat
  BY DEF Chunks
<1>3. \/ li = c.last /\ (c.li = c.last \/ e = c.last)
      \/ li = None /\ c.li # c.last /\ c.last \notin EpochEnds /\ e = None
  BY DEF find_chunk_li
<1>4. CASE li = c.last
  <2>a. li # None
    BY <1>2, <1>4 DEF None
  <2>1. m = [n EXCEPT !.synced = c.last, !.li = c.last]
    BY <1>1, <1>4, <2>a
  <2> QED BY <1>2, <1>3, <2>a, <2>1, Zenon DEF Nodes, Stored
<1>5. CASE li = None
  <2>1. m = [n EXCEPT !.synced = c.last, !.li = n.li]
    BY <1>1, <1>5
  <2>2. li # c.last
    BY <1>2, <1>5 DEF None
  <2> QED BY <1>2, <1>3, <2>1, <2>2, Zenon DEF Nodes, Stored
<1> QED BY <1>3, <1>4, <1>5

LEMMA RequestsMade ==
    ASSUME NEW n \in Nodes, NEW v \in Nat
    PROVE  ChunkRequest(n, v, EpochOf(v + 1)) \subseteq Requests
BY EpochNat DEF ChunkRequest, Requests, Nodes

(* The chunks that a peer gives out.                                       *)
LEMMA GetChunk ==
    ASSUME NEW highest \in Nat, NEW r \in Requests, NEW limit \in Nat,
           NEW kind, NEW li \in Nat, NEW other_li,
           NEW c \in get_chunk(highest, r, limit, kind, li, other_li)
    PROVE  /\ c = [kind |-> kind, first |-> r.known_version + 1, last |-> c.last,
                   li |-> li, other_li |-> other_li]
           /\ c.last \in Nat /\ c.last <= li /\ c.last <= r.known_version + limit
<1>1. r.known_version + limit \in Nat
  BY DEF Requests
<1> DEFINE last == Min({r.known_version + limit, li})
<1>2. last \in Nat /\ last <= li /\ last <= r.known_version + limit
  BY <1>1, MinOfTwo
<1>3. c = [kind |-> kind, first |-> r.known_version + 1, last |-> last,
           li |-> li, other_li |-> other_li]
  BY DEF get_chunk
<1> HIDE DEF last
<1> QED BY <1>2, <1>3

LEMMA ResponseLI ==
    ASSUME NEW highest \in Nat, NEW r \in Requests,
           NEW li \in choose_response_li(highest, r.current_epoch, r.target)
    PROVE  li \in Nat
<1>1. r.target \in Nat \cup {None}
  BY DEF Requests
<1> QED BY <1>1 DEF choose_response_li

LEMMA TargetChunks ==
    ASSUME NEW highest \in Nat, NEW r \in Requests
    PROVE  process_request_target_li(highest, r) \subseteq Chunks
<1> SUFFICES ASSUME NEW li \in choose_response_li(highest, r.current_epoch, r.target),
                    NEW c \in get_chunk(highest, r, chunk_limit, "Verifiable", li, None)
             PROVE  c \in Chunks
  BY DEF process_request_target_li
<1>1. li \in Nat
  BY ResponseLI
<1>2. r.known_version + 1 \in Nat
  BY DEF Requests
<1> QED BY <1>1, <1>2, GetChunk DEF Chunks

LEMMA HighestChunks ==
    ASSUME NEW highest \in Nat, NEW r \in Requests
    PROVE  process_request_highest_available(highest, r) \subseteq Chunks
<1> SUFFICES ASSUME NEW li \in choose_response_li(highest, r.current_epoch, r.target),
                    NEW c \in get_chunk(highest, r, chunk_limit, "Progressive", li, highest)
             PROVE  c \in Chunks
  BY DEF process_request_highest_available
<1>1. li \in Nat
  BY ResponseLI
<1>2. r.known_version + 1 \in Nat
  BY DEF Requests
<1> QED BY <1>1, <1>2, GetChunk DEF Chunks

(* A chunk on the way to the waypoint stays in the epoch of its first      *)
(* transaction, and ends it exactly when the LI that comes along is at the *)
(* end of the chunk.                                                       *)
LEMMA WaypointChunks ==
    ASSUME NEW highest \in Nat, NEW r \in Requests, r.type = "Waypoint"
    PROVE  process_request_waypoint(highest, r) \subseteq Chunks
<1> SUFFICES ASSUME NEW c \in process_request_waypoint(highest, r)
             PROVE  c \in Chunks
  OBVIOUS
<1> DEFINE known == r.known_version
           first == known + 1
<1>1. known \in Nat /\ first \in Nat /\ r.target = waypoint /\ r.current_epoch = EpochOf(first)
  BY DEF Requests
<1> HIDE DEF known, first
<1>2. known < waypoint
  BY <1>1 DEF process_request_waypoint, known
<1>3. CASE EpochOf(waypoint) <= EpochOf(first)
  <2>1. c \in get_chunk(highest, r, chunk_limit, "Waypoint", waypoint, None)
    BY <1>1, <1>3 DEF process_request_waypoint
  <2>2. /\ c = [kind |-> "Waypoint", first |-> first, last |-> c.last,
                li |-> waypoint, other_li |-> None]
        /\ c.last \in Nat /\ c.last <= waypoint
    BY <2>1, GetChunk DEF first, known
  <2>3. ASSUME first <= c.last, c.last < waypoint
        PROVE  EpochOf(c.last + 1) = EpochOf(first)
    <3>1. EpochOf(first) <= EpochOf(c.last + 1) /\ EpochOf(c.last + 1) <= EpochOf(waypoint)
      BY <1>1, <2>2, <2>3, EpochMonotone, c.last + 1 \in Nat, first <= c.last + 1, c.last + 1 <= waypoint
    <3> QED BY <1>1, <1>3, <2>2, <3>1, EpochNat, c.last + 1 \in Nat
  <2>4. c.other_li # c.last
    BY <2>2 DEF None
  <2> QED BY <1>1, <2>2, <2>3, <2>4 DEF Chunks
<1>4. CASE ~(EpochOf(waypoint) <= EpochOf(first))
  <2> DEFINE end == EndOfEpoch(EpochOf(first))
             limit == Min({chunk_limit, end - known})
  <2>1. c \in get_chunk(highest, r, limit, "Waypoint", waypoint, end)
    BY <1>1, <1>4 DEF process_request_waypoint, known
  <2>2. end \in EpochEnds /\ EpochOf(end) = EpochOf(first) /\ end \in Nat
    BY <1>1, <1>2, EpochHasEnd, first <= waypoint, Zenon DEF first
  <2> HIDE DEF end
  <2>3. EpochOf(end + 1) = EpochOf(first) + 1
    BY <2>2, EpochStep
  <2>4. first <= end
    <3>1. ASSUME end + 1 <= first
          PROVE  FALSE
      <4>1. EpochOf(end + 1) <= EpochOf(first)
        BY <1>1, <2>2, <3>1, EpochMonotone, end + 1 \in Nat
      <4> QED BY <1>1, <2>3, <4>1, EpochNat
    <3> QED BY <1>1, <2>2, <3>1
  <2>5. end - known \in Nat
    BY <1>1, <2>2, <2>4 DEF first
  <2>6. limit \in Nat /\ limit <= end - known
    BY <2>5, MinOfTwo
  <2> HIDE DEF limit
  <2>7. /\ c = [kind |-> "Waypoint", first |-> first, last |-> c.last,
                li |-> waypoint, other_li |-> end]
        /\ c.last \in Nat /\ c.last <= waypoint /\ c.last <= known + limit
    BY <2>1, <2>6, GetChunk DEF first, known
  <2>8. c.last <= end
    BY <1>1, <2>2, <2>6, <2>7
  <2>9. ASSUME first <= c.last, c.last # end
        PROVE  EpochOf(c.last + 1) = EpochOf(first)
    <3>1. c.last + 1 \in Nat /\ first <= c.last + 1 /\ c.last + 1 <= end
      BY <1>1, <2>2, <2>7, <2>8, <2>9
    <3>2. EpochOf(first) <= EpochOf(c.last + 1) /\ EpochOf(c.last + 1) <= EpochOf(end)
      BY <1>1, <2>2, <3>1, EpochMonotone
    <3> QED BY <1>1, <2>2, <3>1, <3>2, EpochNat
  <2> QED BY <1>1, <2>2, <2>3, <2>7, <2>9 DEF Chunks
<1> QED BY <1>3, <1>4

LEMMA Answers ==
    ASSUME NEW highest \in Nat, NEW r \in Requests
    PROVE  Answer(highest, r) \subseteq Chunks
<1>1. r.type \in {"Waypoint", "HighestAvailable", "TargetLedgerInfo"}
  BY DEF Requests
<1> QED BY <1>1, TargetChunks, HighestChunks, WaypointChunks DEF Answer

----------------------------------------------------------------------------
(* Every step preserves the invariant.                                     *)

LEMMA RequestsSent ==
    ASSUME requests \in [Peers -> SUBSET Requests],
           NEW rs \in SUBSET Requests, send_chunk_request(rs)
    PROVE  requests' \in [Peers -> SUBSET Requests]
BY Zenon DEF send_chunk_request

LEMMA Delivered ==
    ASSUME responses \in [Peers -> SUBSET Chunks], NEW p \in Peers,
           NEW chunks \in SUBSET Chunks, Deliver(p, chunks)
    PROVE  responses' \in [Peers -> SUBSET Chunks]
BY DEF Deliver

LEMMA InitIInv == Init => IInv
<1> SUFFICES ASSUME Init
             PROVE  IInv
  OBVIOUS
<1>1. node = [li |-> 0, synced |-> 0, pending_li_queue |-> {}, target_li |-> None,
              sync_request |-> None, failed |-> FALSE]
  BY DEF Init, Started
<1>2. node \in Nodes /\ node.li = 0 /\ node.synced = 0 /\ node.sync_request = None
  BY <1>1 DEF Nodes
<1>3. ~node.failed
  BY <1>1
<1>4. NodeInv
  BY <1>2, <1>3 DEF NodeInv, epoch
<1>5. MessagesInv
  BY DEF Init, MessagesInv
<1>6. upstream \in [Peers -> Nat]
  BY DEF Init
<1> QED BY <1>4, <1>5, <1>6 DEF IInv

LEMMA RequestStep ==
    ASSUME IInv, NEW p \in Peers, process_chunk_request(p)
    PROVE  IInv'
<1>1. PICK r \in requests[p] :
          /\ requests' = [requests EXCEPT ![p] = {}]
          /\ IF Polls(upstream[p], r)
             THEN /\ subscriptions' = [subscriptions EXCEPT ![p] = {[r EXCEPT !.target = None]}]
                  /\ UNCHANGED responses
             ELSE Deliver(p, Answer(upstream[p], r)) /\ UNCHANGED subscriptions
          /\ UNCHANGED <<role, node, alive, upstream, faults>>
  BY DEF process_chunk_request
<1>2. r \in Requests /\ upstream[p] \in Nat
  BY DEF IInv, MessagesInv
<1>3. MessagesInv'
  <2>1. CASE Polls(upstream[p], r)
    <3>1. [r EXCEPT !.target = None] \in Requests
      BY <1>2, <2>1 DEF Requests, Polls
    <3> QED BY <1>1, <2>1, <3>1 DEF IInv, MessagesInv
  <2>2. CASE ~Polls(upstream[p], r)
    <3>a. Answer(upstream[p], r) \in SUBSET Chunks
      BY <1>2, Answers
    <3>1. responses' \in [Peers -> SUBSET Chunks]
      BY <1>1, <2>2, <3>a, Delivered DEF IInv, MessagesInv
    <3> QED BY <1>1, <2>2, <3>1, Zenon DEF IInv, MessagesInv
  <2> QED BY <2>1, <2>2
<1> QED BY <1>1, <1>3 DEF IInv, NodeInv, epoch, is_initialized

LEMMA SubscriptionsStep ==
    ASSUME IInv, NEW p \in Peers, check_subscriptions(p)
    PROVE  IInv'
<1> DEFINE later == {l \in LIs : l > upstream[p]}
<1>1. later \in SUBSET Nat /\ later # {}
  BY DEF check_subscriptions
<1>2. upstream' = [upstream EXCEPT ![p] = Min(later)]
  BY DEF check_subscriptions
<1> HIDE DEF later
<1>3. Min(later) \in Nat
  BY <1>1, MinNat, Zenon
<1>4. upstream' \in [Peers -> Nat] /\ upstream'[p] \in Nat
  BY <1>2, <1>3 DEF IInv
<1>5. ASSUME NEW r \in subscriptions[p], Deliver(p, process_request_target_li(upstream'[p], r))
      PROVE  responses' \in [Peers -> SUBSET Chunks]
  <2>1. r \in Requests
    BY DEF IInv, MessagesInv
  <2>2. process_request_target_li(upstream'[p], r) \in SUBSET Chunks
    BY <1>4, <2>1, TargetChunks
  <2> QED BY <1>5, <2>2, Delivered DEF IInv, MessagesInv
<1>6. /\ \/ UNCHANGED responses
         \/ \E r \in subscriptions[p] : Deliver(p, process_request_target_li(upstream'[p], r))
      /\ UNCHANGED subscriptions \/ subscriptions' = [subscriptions EXCEPT ![p] = {}]
      /\ UNCHANGED <<role, node, alive, requests, faults>>
  BY Zenon DEF check_subscriptions
<1>7. MessagesInv'
  BY <1>5, <1>6 DEF IInv, MessagesInv
<1> QED BY <1>4, <1>6, <1>7 DEF IInv, NodeInv, epoch, is_initialized

(* A response, taken from the queue, and what its handlers leave alone.    *)
LEMMA ReceivedInv ==
    ASSUME IInv, NEW p \in Peers, NEW c, Received(p, c)
    PROVE  /\ c \in Chunks
           /\ responses' \in [Peers -> SUBSET Chunks]
           /\ subscriptions' \in [Peers -> SUBSET Requests]
           /\ upstream' \in [Peers -> Nat]
BY DEF IInv, MessagesInv, Received

LEMMA RejectedStep ==
    ASSUME IInv, NEW p \in Peers, NEW c, response_rejected(p, c)
    PROVE  IInv'
<1>1. Received(p, c) /\ UNCHANGED requests
  BY DEF response_rejected
<1>2. MessagesInv' /\ upstream' \in [Peers -> Nat] /\ c \in Chunks
  BY <1>1, ReceivedInv DEF IInv, MessagesInv
<1>3. Kept(node', node)
  <2>1. CASE node' = node
    BY <2>1 DEF Kept, IInv, NodeInv
  <2>2. CASE node' = Noted(c)
    BY <1>2, <2>2, NotedKeeps DEF IInv, NodeInv
  <2> QED BY <2>1, <2>2 DEF response_rejected
<1> QED BY <1>2, <1>3 DEF IInv, NodeInv, Kept, epoch, is_initialized

(* What the node is after a chunk is stored, in every case that matters to *)
(* the invariant; the next request then has the right epoch.               *)
Advanced(n, next_epoch) ==
    /\ n \in Nodes /\ ~n.failed
    /\ node.li <= n.li /\ n.li <= n.synced
    /\ EpochOf(n.synced + 1) = epoch(n)
    /\ EpochOf(n.synced + 1) = next_epoch
    /\ n.sync_request = node.sync_request
    /\ node.sync_request # None =>
          /\ n.synced <= node.sync_request
          /\ n.synced = node.sync_request => n.li = node.sync_request

LEMMA VerifiableAdvances ==
    ASSUME IInv, NEW c \in Chunks, Applicable(c), Verifies(c),
           NEW n \in execute_and_commit_chunk(Noted(c), c, None)
    PROVE  Advanced(n, NextEpoch(c)) /\ n.synced = c.last
<1>1. Kept(Noted(c), node)
  BY NotedKeeps DEF IInv, NodeInv
<1>2. Noted(c) \in Nodes
  BY <1>1 DEF Kept
<1>3. /\ n \in Nodes
      /\ n.synced = c.last
      /\ n.sync_request = Noted(c).sync_request /\ n.failed = Noted(c).failed
      /\ \/ n.li = c.last /\ c.li = c.last
         \/ n.li = Noted(c).li /\ c.li # c.last /\ c.last \notin EpochEnds
  <2>1. c.last # None
    BY DEF Chunks, None
  <2>2. None \in Nat \cup {None}
    OBVIOUS
  <2>3. Stored(n, Noted(c), c, None)
    BY <1>2, <2>2, ChunkStored, Zenon
  <2> QED BY <2>1, <2>3 DEF Stored
<1>a. ~n.failed
  <2>1. n.failed = node.failed
    BY <1>1, <1>3 DEF Kept
  <2> QED BY <2>1 DEF IInv, NodeInv
<1>4. /\ n.sync_request = node.sync_request
      /\ \/ n.li = c.last /\ c.li = c.last
         \/ n.li = node.li /\ c.li # c.last /\ c.last \notin EpochEnds
  BY <1>1, <1>3 DEF Kept
<1>5. /\ c.first \in Nat /\ c.last \in Nat /\ c.li \in Nat
      /\ node.li \in Nat /\ node.synced \in Nat /\ node.li <= node.synced
      /\ node.sync_request \in Nat \cup {None}
      /\ c.first = node.synced + 1 /\ c.first <= c.last /\ c.last <= c.li
  BY DEF IInv, NodeInv, Nodes, Chunks, Applicable
<1>6. EpochOf(c.last) = epoch(node)
  <2>1. EpochOf(c.first) = epoch(node) /\ EpochOf(c.li) = epoch(node)
    BY <1>5 DEF IInv, NodeInv, Verifies
  <2>2. EpochOf(c.first) <= EpochOf(c.last) /\ EpochOf(c.last) <= EpochOf(c.li)
    BY <1>5, EpochMonotone
  <2> QED BY <1>5, <2>1, <2>2, EpochNat
<1>7. EpochOf(c.last + 1) = IF c.last \in EpochEnds THEN epoch(node) + 1 ELSE epoch(node)
  BY <1>5, <1>6, EpochStep
<1>8. EpochOf(n.synced + 1) = NextEpoch(c)
  BY <1>3, <1>4, <1>7 DEF NextEpoch
<1>9. EpochOf(n.synced + 1) = epoch(n)
  <2>1. CASE n.li = c.last
    BY <1>3, <2>1 DEF epoch
  <2>2. CASE n.li = node.li /\ c.last \notin EpochEnds
    BY <1>3, <1>7, <2>2 DEF epoch
  <2> QED BY <1>4, <2>1, <2>2
<1>10. node.li <= n.li /\ n.li <= n.synced
  BY <1>3, <1>4, <1>5
<1>11. node.sync_request # None =>
          /\ n.synced <= node.sync_request
          /\ n.synced = node.sync_request => n.li = node.sync_request
  <2> SUFFICES ASSUME node.sync_request # None
               PROVE  /\ n.synced <= node.sync_request
                      /\ n.synced = node.sync_request => n.li = node.sync_request
    OBVIOUS
  <2>1. c.li <= node.sync_request /\ node.sync_request \in Nat
    BY <1>5 DEF Verifies
  <2>2. c.last <= node.sync_request
    BY <1>5, <2>1
  <2>3. c.last = node.sync_request => c.li = c.last
    BY <1>5, <2>1
  <2> QED BY <1>3, <2>2, <2>3
<1> QED BY <1>3, <1>a, <1>4, <1>8, <1>9, <1>10, <1>11 DEF Advanced

(* Below the waypoint there is no sync request.                            *)
LEMMA WaypointAdvances ==
    ASSUME IInv, NEW c \in Chunks, Applicable(c), c.kind = "Waypoint", ~is_initialized(node),
           NEW n \in execute_and_commit_chunk(node, c, c.other_li)
    PROVE  Advanced(n, EpochOf(c.last + 1)) /\ n.synced = c.last
<1>2. c.other_li \in Nat \cup {None} /\ node \in Nodes
  BY DEF Chunks, IInv, NodeInv
<1>3. /\ n \in Nodes
      /\ n.synced = c.last
      /\ n.sync_request = node.sync_request /\ n.failed = node.failed
      /\ \/ n.li = c.last
         \/ n.li = node.li /\ c.li # c.last /\ c.other_li = None
  <2>1. Stored(n, node, c, c.other_li)
    BY <1>2, ChunkStored, Zenon
  <2> QED BY <2>1 DEF Stored
<1>4. node.sync_request = None /\ ~n.failed
  BY <1>3 DEF IInv, NodeInv
<1>5. /\ c.first \in Nat /\ c.last \in Nat /\ c.li = waypoint
      /\ node.li \in Nat /\ node.synced \in Nat /\ node.li <= node.synced
      /\ c.first = node.synced + 1 /\ c.first <= c.last /\ c.last <= c.li
  BY DEF IInv, NodeInv, Nodes, Chunks, Applicable
<1>6. EpochOf(n.synced + 1) = epoch(n)
  <2>1. CASE n.li = c.last
    BY <1>3, <2>1 DEF epoch
  <2>2. CASE n.li = node.li /\ c.li # c.last /\ c.other_li = None
    <3>1. c.last < waypoint /\ c.other_li # c.last
      BY <1>5, <2>2 DEF None
    <3>2. EpochOf(c.last + 1) = EpochOf(c.first)
      BY <1>5, <3>1 DEF Chunks
    <3> QED BY <1>3, <1>5, <2>2, <3>2 DEF IInv, NodeInv, epoch
  <2> QED BY <1>3, <2>1, <2>2
<1>7. node.li <= n.li /\ n.li <= n.synced
  BY <1>3, <1>5
<1> QED BY <1>3, <1>4, <1>6, <1>7 DEF Advanced

(* process_commit after that.                                              *)
LEMMA AdvancedCommits ==
    ASSUME IInv, NEW n, NEW e, Advanced(n, e), node' = process_commit(n)
    PROVE  /\ NodeInv'
           /\ node.sync_request # None /\ node'.sync_request = None =>
                 node'.li = node.sync_request
<1>1. /\ node' \in Nodes
      /\ node'.li = n.li /\ node'.synced = n.synced
      /\ ~node'.failed
      /\ node'.sync_request # None => node'.sync_request = n.sync_request
      /\ n.sync_request # None /\ node'.sync_request = None => n.synced = n.sync_request
  BY ProcessCommit DEF Advanced
<1>2. node'.li <= node'.synced /\ EpochOf(node'.synced + 1) = epoch(node')
  BY <1>1 DEF Advanced, epoch
<1>3. node'.sync_request # None => is_initialized(node')
  <2>1. is_initialized(node) => is_initialized(node')
    BY <1>1 DEF is_initialized, Advanced, IInv, NodeInv, Nodes
  <2> QED BY <1>1, <2>1 DEF Advanced, IInv, NodeInv
<1>4. NodeInv'
  BY <1>1, <1>2, <1>3 DEF NodeInv, epoch, is_initialized
<1> QED BY <1>1, <1>4 DEF Advanced

LEMMA AdvancedUpdates ==
    ASSUME IInv, NEW n, NEW e, Advanced(n, e), node' = update(n)
    PROVE  NodeInv' /\ node'.sync_request = node.sync_request
<1>1. Kept(node', n)
  BY UpdateKeeps DEF Advanced
<1>2. is_initialized(node) => is_initialized(node')
  BY <1>1 DEF is_initialized, Kept, Advanced, IInv, NodeInv, Nodes
<1> QED BY <1>1, <1>2 DEF NodeInv, IInv, Kept, Advanced, epoch, is_initialized

LEMMA VerifiableStep ==
    ASSUME IInv, NEW p \in Peers, NEW c, process_response_with_verifiable_li(p, c)
    PROVE  /\ IInv'
           /\ node.sync_request # None /\ node'.sync_request = None =>
                 node'.li = node.sync_request
<1>1. Received(p, c) /\ Applicable(c) /\ Verifies(c)
  BY DEF process_response_with_verifiable_li
<1>2. /\ c \in Chunks
      /\ responses' \in [Peers -> SUBSET Chunks]
      /\ subscriptions' \in [Peers -> SUBSET Requests]
      /\ upstream' \in [Peers -> Nat]
  BY <1>1, ReceivedInv
<1>3. PICK n \in execute_and_commit_chunk(Noted(c), c, None) :
          IF eligible_peers = {}
          THEN node' = update(n) /\ UNCHANGED requests
          ELSE /\ node' = process_commit(n)
               /\ send_chunk_request(ChunkRequest(update(n), n.synced, NextEpoch(c)))
  BY DEF process_response_with_verifiable_li
<1>4. Advanced(n, NextEpoch(c))
  BY <1>1, <1>2, VerifiableAdvances
<1>5. CASE eligible_peers = {}
  <2>1. NodeInv' /\ node'.sync_request = node.sync_request
    BY <1>3, <1>4, <1>5, AdvancedUpdates
  <2>2. MessagesInv'
    BY <1>2, <1>3, <1>5 DEF MessagesInv, IInv
  <2> QED BY <1>2, <2>1, <2>2 DEF IInv
<1>6. CASE eligible_peers # {}
  <2>1. /\ NodeInv'
        /\ node.sync_request # None /\ node'.sync_request = None =>
              node'.li = node.sync_request
    BY <1>3, <1>4, <1>6, AdvancedCommits
  <2>2. n \in Nodes /\ n.synced \in Nat /\ NextEpoch(c) = EpochOf(n.synced + 1)
    BY <1>4 DEF Advanced, Nodes
  <2>3. update(n) \in Nodes
    BY <2>2, UpdateKeeps DEF Kept
  <2>4. ChunkRequest(update(n), n.synced, NextEpoch(c)) \in SUBSET Requests
    BY <2>2, <2>3, RequestsMade
  <2>5. requests' \in [Peers -> SUBSET Requests]
    BY <1>3, <1>6, <2>4, RequestsSent DEF IInv, MessagesInv
  <2>6. MessagesInv'
    BY <1>2, <2>5 DEF MessagesInv
  <2> QED BY <1>2, <2>1, <2>6 DEF IInv
<1> QED BY <1>5, <1>6

LEMMA WaypointStep ==
    ASSUME IInv, NEW p \in Peers, NEW c, process_response_with_waypoint_li(p, c)
    PROVE  /\ IInv'
           /\ node.sync_request = None
<1> DEFINE next_epoch == IF c.other_li = c.last THEN epoch(node) + 1 ELSE epoch(node)
           stored == execute_and_commit_chunk(node, c, c.other_li)
<1>1. Received(p, c) /\ Applicable(c) /\ c.kind = "Waypoint" /\ ~is_initialized(node)
  BY DEF process_response_with_waypoint_li
<1>2. /\ c \in Chunks
      /\ responses' \in [Peers -> SUBSET Chunks]
      /\ subscriptions' \in [Peers -> SUBSET Requests]
      /\ upstream' \in [Peers -> Nat]
  BY <1>1, ReceivedInv
<1>3. /\ \/ UNCHANGED requests
         \/ c.last < waypoint /\ send_chunk_request(ChunkRequest(node, c.last, next_epoch))
      /\ node' = node \/ \E n \in stored : node' = process_commit(n)
  BY DEF process_response_with_waypoint_li
<1> HIDE DEF stored
<1>4. NodeInv'
  <2>1. CASE node' = node
    BY <2>1 DEF IInv, NodeInv, epoch, is_initialized
  <2>2. ASSUME NEW n \in stored, node' = process_commit(n)
        PROVE  NodeInv'
    <3>1. Advanced(n, EpochOf(c.last + 1))
      BY <1>1, <1>2, WaypointAdvances DEF stored
    <3> QED BY <2>2, <3>1, AdvancedCommits
  <2> QED BY <1>3, <2>1, <2>2
<1>5. ASSUME c.last < waypoint
      PROVE  ChunkRequest(node, c.last, next_epoch) \in SUBSET Requests
  <2>1. c.last \in Nat /\ c.first <= c.last /\ c.first = node.synced + 1
    BY <1>1, <1>2 DEF Chunks, Applicable
  <2>2. EpochOf(c.last + 1) =
            IF c.other_li = c.last THEN EpochOf(c.first) + 1 ELSE EpochOf(c.first)
    BY <1>1, <1>2, <1>5, <2>1 DEF Chunks
  <2>3. next_epoch = EpochOf(c.last + 1)
    BY <2>1, <2>2 DEF IInv, NodeInv
  <2> QED BY <2>1, <2>3, RequestsMade DEF IInv, NodeInv
<1> HIDE DEF next_epoch
<1>6. requests' \in [Peers -> SUBSET Requests]
  BY <1>3, <1>5, RequestsSent DEF IInv, MessagesInv
<1>7. node.sync_request = None
  BY <1>1 DEF IInv, NodeInv
<1> QED BY <1>2, <1>4, <1>6, <1>7 DEF IInv, MessagesInv

LEMMA RejectedKeeps ==
    ASSUME IInv, NEW p \in Peers, NEW c, response_rejected(p, c)
    PROVE  node'.sync_request = node.sync_request
<1>1. c \in Chunks
  BY ReceivedInv DEF response_rejected
<1>2. node' = node \/ node' = Noted(c)
  BY DEF response_rejected
<1> QED BY <1>1, <1>2, NotedKeeps DEF IInv, NodeInv, Kept

LEMMA ResponseStep ==
    ASSUME IInv, NEW p \in Peers, process_chunk_response(p)
    PROVE  /\ IInv'
           /\ node.sync_request # None /\ node'.sync_request = None =>
                 node'.li = node.sync_request
<1>1. PICK c \in responses[p] : \/ response_rejected(p, c)
                                \/ process_response_with_verifiable_li(p, c)
                                \/ process_response_with_waypoint_li(p, c)
  BY DEF process_chunk_response
<1>2. CASE response_rejected(p, c)
  BY <1>2, RejectedStep, RejectedKeeps
<1>3. CASE process_response_with_verifiable_li(p, c)
  BY <1>3, VerifiableStep
<1>4. CASE process_response_with_waypoint_li(p, c)
  BY <1>4, WaypointStep
<1> QED BY <1>1, <1>2, <1>3, <1>4

(* A tick, or a new peer.                                                  *)
LEMMA ProgressStep ==
    ASSUME IInv, CheckProgress, UNCHANGED <<upstream, subscriptions, responses>>
    PROVE  IInv'
<1> DEFINE rs == ChunkRequest(node', node.synced, epoch(node))
<1>1. /\ node' = node \/ node' = [node EXCEPT !.sync_request = None]
      /\ requests' = requests \/ send_chunk_request(rs)
  BY DEF CheckProgress
<1>2. /\ node' \in Nodes /\ node'.li = node.li /\ node'.synced = node.synced
      /\ node'.failed = node.failed
      /\ node'.sync_request # None => node'.sync_request = node.sync_request
  BY <1>1 DEF IInv, NodeInv, Nodes
<1>3. NodeInv'
  BY <1>2 DEF IInv, NodeInv, epoch, is_initialized
<1>4. rs \in SUBSET Requests
  <2>1. epoch(node) = EpochOf(node.synced + 1) /\ node.synced \in Nat
    BY DEF IInv, NodeInv, Nodes
  <2> QED BY <1>2, <2>1, RequestsMade
<1> HIDE DEF rs
<1>5. requests' \in [Peers -> SUBSET Requests]
  BY <1>1, <1>4, RequestsSent DEF IInv, MessagesInv
<1> QED BY <1>3, <1>5 DEF IInv, MessagesInv

LEMMA SyncStep ==
    ASSUME IInv, NEW target \in LIs, request_sync(target)
    PROVE  IInv'
<1> DEFINE n == update(node)
           rs == ChunkRequest(node', n.synced, epoch(n))
<1>1. /\ is_initialized(node) /\ ~node.failed
      /\ UNCHANGED <<role, alive, upstream, subscriptions, responses, faults>>
      /\ node' = n \/ node' = [n EXCEPT !.sync_request = target]
      /\ requests' = requests \/ send_chunk_request(rs)
  BY DEF request_sync
<1>2. Kept(n, node)
  BY UpdateKeeps DEF IInv, NodeInv
<1> HIDE DEF n
<1>3. /\ node' \in Nodes /\ node'.li = node.li /\ node'.synced = node.synced
      /\ node'.failed = node.failed
  BY <1>1, <1>2 DEF Kept, Nodes
<1>4. NodeInv'
  BY <1>1, <1>3 DEF IInv, NodeInv, epoch, is_initialized
<1>5. rs \in SUBSET Requests
  <2>1. epoch(n) = EpochOf(n.synced + 1) /\ n.synced \in Nat
    BY <1>2 DEF IInv, NodeInv, Nodes, Kept, epoch
  <2> QED BY <1>3, <2>1, RequestsMade
<1> HIDE DEF rs
<1>6. requests' \in [Peers -> SUBSET Requests]
  BY <1>1, <1>5, RequestsSent DEF IInv, MessagesInv
<1> QED BY <1>1, <1>4, <1>6 DEF IInv, MessagesInv

LEMMA RestartStep ==
    ASSUME IInv, restart
    PROVE  IInv'
<1>1. node' = [li |-> node.li, synced |-> node.synced, pending_li_queue |-> {},
               target_li |-> None, sync_request |-> None, failed |-> FALSE]
  BY DEF restart, Started
<1>2. /\ node' \in Nodes /\ node'.li = node.li /\ node'.synced = node.synced
      /\ node'.sync_request = None
  BY <1>1 DEF Nodes, IInv, NodeInv
<1>3. ~node'.failed
  BY <1>1
<1>4. NodeInv'
  BY <1>2, <1>3 DEF IInv, NodeInv, epoch
<1>5. MessagesInv' /\ upstream' = upstream
  BY DEF restart, IInv, MessagesInv
<1> QED BY <1>4, <1>5 DEF IInv

LEMMA NextIInv == IInv /\ [Next]_vars => IInv'
<1> SUFFICES ASSUME IInv, [Next]_vars
             PROVE  IInv'
  OBVIOUS
<1>1. ASSUME NEW p \in Peers, process_chunk_request(p)
      PROVE  IInv'
  BY <1>1, RequestStep
<1>2. ASSUME NEW p \in Peers, check_subscriptions(p)
      PROVE  IInv'
  BY <1>2, SubscriptionsStep
<1>3. ASSUME NEW p \in Peers, process_chunk_response(p)
      PROVE  IInv'
  BY <1>3, ResponseStep
<1>4. ASSUME NEW p \in Peers, new_peer(p)
      PROVE  IInv'
  BY <1>4, ProgressStep DEF new_peer
<1>5. ASSUME NEW p \in Peers, lost_peer(p)
      PROVE  IInv'
  BY <1>5 DEF lost_peer, IInv, NodeInv, MessagesInv, epoch, is_initialized
<1>6. ASSUME NEW p \in Peers, lose(p)
      PROVE  IInv'
  BY <1>6 DEF lose, IInv, NodeInv, MessagesInv, epoch, is_initialized
<1>7. CASE check_progress
  BY <1>7, ProgressStep DEF check_progress
<1>8. ASSUME NEW target \in LIs, request_sync(target)
      PROVE  IInv'
  BY <1>8, SyncStep
<1>9. CASE restart
  BY <1>9, RestartStep
<1>10. CASE UNCHANGED vars
  BY <1>10 DEF vars, IInv, NodeInv, MessagesInv, epoch, is_initialized
<1> QED BY <1>1, <1>2, <1>3, <1>4, <1>5, <1>6, <1>7, <1>8, <1>9, <1>10 DEF Next

----------------------------------------------------------------------------

(* The inductive invariant holds.                                          *)
THEOREM Invariance == Spec => []IInv
<1>1. Init => IInv
  BY InitIInv
<1>2. IInv /\ [Next]_vars => IInv'
  BY NextIInv
<1> QED BY <1>1, <1>2, PTL DEF Spec

(* Every chunk request, and every long poll that a peer holds, names the   *)
(* epoch of the chunk that it asks for.                                    *)
THEOREM RequestsCorrect == Spec => []RequestsNameTheirEpoch
<1>1. IInv => RequestsNameTheirEpoch
  BY DEF IInv, MessagesInv, Requests, RequestsNameTheirEpoch
<1> QED BY <1>1, Invariance, PTL

(* process_commit never panics: the node does not sync past its target.    *)
THEOREM NoPanic == Spec => []NeverBeyondTarget
<1>1. IInv => NeverBeyondTarget
  BY DEF IInv, NodeInv, NeverBeyondTarget
<1> QED BY <1>1, Invariance, PTL

(* Consensus is told that its sync request is complete only when the LI    *)
(* that it asked for is committed.                                         *)
THEOREM CompletionSound == Spec => CompleteMeansCommitted
<1>1. IInv /\ [Next]_vars =>
        [\A p \in Peers :
            process_chunk_response(p) /\ node.sync_request # None /\ node'.sync_request = None
                => node'.li = node.sync_request]_vars
  BY ResponseStep
<1> QED BY <1>1, Invariance, PTL DEF Spec, CompleteMeansCommitted

=============================================================================
