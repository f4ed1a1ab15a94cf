------------------------------ MODULE StateSync ------------------------------
(***************************************************************************)
(* State synchronization: a node that fetches chunks of transactions from  *)
(* its upstream peers, and the peers that serve them.  The node first      *)
(* reaches its waypoint; from then on a full node follows the highest      *)
(* LedgerInfo (LI) of its peers, and a validator syncs to the targets that *)
(* its consensus asks for.                                                 *)
(*                                                                         *)
(* There is one history of transactions, so that a version stands for the  *)
(* transaction, and for the LI, at that version.  Peers serve what they    *)
(* have; signatures and proofs then verify exactly when the epochs agree.  *)
(* The inbound queue of a node keeps the newest message of each peer.      *)
(* Time is left out: a timer may expire at any moment.                     *)
(***************************************************************************)
EXTENDS Integers, FiniteSets, FiniteSetsExt

CONSTANTS
    LIs,            \* the versions at which an LI was signed
    EpochEnds,      \* those whose LI ends its epoch; 0, genesis, is one
    waypoint,       \* the version of the waypoint, the end of an epoch
    chunk_limit,    \* what the node asks for; peers allow at least as much
    Peers,          \* the upstream peers
    Preference,     \* peer -> the rank of its network in UpstreamConfig
    MaxFaults       \* how many messages, connections, sync requests and
                    \* processes fail

None == -1
Roles == {"FullNode", "Validator"}

ASSUME StateSyncAssumption ==
    /\ LIs \subseteq Nat /\ EpochEnds \subseteq LIs /\ 0 \in EpochEnds
    /\ waypoint \in EpochEnds
    /\ chunk_limit \in Nat \ {0}
    /\ Preference \in [Peers -> Nat]

VARIABLES
    role,
    node,           \* the coordinator, and the local storage: its LI and
                    \* the version that it has synced
    alive,          \* the peers that the node is connected to
    upstream,       \* peer -> the version of its highest LI
    subscriptions,  \* peer -> the node's long poll that it holds, if any
    requests,       \* peer -> the chunk request on its way, if any
    responses,      \* peer -> the chunk response on its way, if any
    faults

vars == <<role, node, alive, upstream, subscriptions, requests, responses, faults>>

(* The epoch of the transaction, and of the LI, at a version.              *)
EpochOf(version) == Cardinality({e \in EpochEnds : e < version})

(* The LI that ends an epoch.                                              *)
EndOfEpoch(epoch) == CHOOSE e \in EpochEnds : EpochOf(e) = epoch

(* The epoch whose validators are trusted: the next one once the LI ends   *)
(* its epoch.                                                              *)
epoch(n) == EpochOf(n.li + 1)

is_initialized(n) == waypoint <= n.li

----------------------------------------------------------------------------
(* PendingLedgerInfos                                                      *)

add_li(n, li) ==
    IF li > (IF n.target_li = None THEN 0 ELSE n.target_li)
    THEN [n EXCEPT !.pending_li_queue = @ \cup {li}] ELSE n

(* Faulty variant: LIs that were committed stay in the queue.              *)
update_NoPrune(n) ==
    LET fits == {l \in n.pending_li_queue : n.li # n.synced \/ l <= n.synced + chunk_limit}
    IN  [n EXCEPT !.target_li = IF fits = {} THEN None
                                ELSE IF n.li = n.synced THEN Max(fits) ELSE Min(fits)]

(* LIs that were committed are dropped; the target is the highest that a   *)
(* chunk reaches, or the next one if the synced version has no LI.         *)
update(n) ==
    LET queue == {l \in n.pending_li_queue : l > n.li}
        fits  == {l \in queue : n.li # n.synced \/ l <= n.synced + chunk_limit}
    IN  [n EXCEPT !.pending_li_queue = queue,
                  !.target_li = IF fits = {} THEN None
                                ELSE IF n.li = n.synced THEN Max(fits) ELSE Min(fits)]

----------------------------------------------------------------------------
(* The peers' side of the coordinator                                      *)

(* The LI of a response: the target, or the highest LI, unless the         *)
(* request's epoch ends before.  There is none if the peer has not seen    *)
(* the end of that epoch.                                                  *)
choose_response_li(highest, request_epoch, target) ==
    LET li == IF target = None THEN highest ELSE target
    IN  IF EpochOf(li) <= request_epoch THEN {li}
        ELSE {EndOfEpoch(request_epoch)} \cap 0..highest

(* The chunk that storage gives out, if it has synced the LI that the      *)
(* proofs are relative to.  A chunk may be empty.                          *)
get_chunk(highest, r, limit, kind, li, other_li) ==
    {c \in {[kind |-> kind, first |-> r.known_version + 1,
             last |-> Min({r.known_version + limit, li}), li |-> li, other_li |-> other_li]} :
        c.first > c.last \/ li <= highest}

process_request_target_li(highest, r) ==
    UNION {get_chunk(highest, r, chunk_limit, "Verifiable", li, None) :
               li \in choose_response_li(highest, r.current_epoch, r.target)}

process_request_highest_available(highest, r) ==
    UNION {get_chunk(highest, r, chunk_limit, "Progressive", li, highest) :
               li \in choose_response_li(highest, r.current_epoch, r.target)}

(* The chunk stops at the end of the request's epoch, whose LI comes along.*)
process_request_waypoint(highest, r) ==
    IF highest < r.target \/ r.known_version >= r.target THEN {}
    ELSE IF EpochOf(r.target) <= r.current_epoch
         THEN get_chunk(highest, r, chunk_limit, "Waypoint", r.target, None)
         ELSE LET end == EndOfEpoch(r.current_epoch)
              IN  get_chunk(highest, r, Min({chunk_limit, end - r.known_version}),
                            "Waypoint", r.target, end)

(* Nothing new for a request that allows long polling.                     *)
Polls(highest, r) ==
    /\ r.type = "HighestAvailable"
    /\ choose_response_li(highest, r.current_epoch, r.target) # {}
    /\ highest <= r.known_version

Answer(highest, r) ==
    CASE r.type = "TargetLedgerInfo" -> process_request_target_li(highest, r)
      [] r.type = "HighestAvailable" -> process_request_highest_available(highest, r)
      [] r.type = "Waypoint"         -> process_request_waypoint(highest, r)

(* A message reaches the node if it is connected, and then replaces the    *)
(* one that is still in the queue.                                         *)
Deliver(p, chunks) ==
    responses' = IF p \in alive /\ chunks # {} THEN [responses EXCEPT ![p] = chunks]
                 ELSE responses

process_chunk_request(p) ==
    \E r \in requests[p] :
        /\ requests' = [requests EXCEPT ![p] = {}]
        /\ IF Polls(upstream[p], r)
           THEN /\ subscriptions' = [subscriptions EXCEPT ![p] = {[r EXCEPT !.target = None]}]
                /\ UNCHANGED responses
           ELSE Deliver(p, Answer(upstream[p], r)) /\ UNCHANGED subscriptions
        /\ UNCHANGED <<role, node, alive, upstream, faults>>

(* A peer commits the next LI and answers the long poll that it holds,     *)
(* unless that has expired.                                                *)
check_subscriptions(p) ==
    /\ \E l \in LIs : l > upstream[p]
    /\ upstream' = [upstream EXCEPT ![p] = Min({l \in LIs : l > upstream[p]})]
    /\ \/ UNCHANGED <<subscriptions, responses>> /\ subscriptions[p] = {}
       \/ \E r \in subscriptions[p] :
             IF r.known_version < upstream'[p]
             THEN /\ subscriptions' = [subscriptions EXCEPT ![p] = {}]
                  /\ Deliver(p, process_request_target_li(upstream'[p], r))
             ELSE UNCHANGED <<subscriptions, responses>>
       \/ /\ subscriptions[p] # {}
          /\ subscriptions' = [subscriptions EXCEPT ![p] = {}]
          /\ UNCHANGED responses
    /\ UNCHANGED <<role, node, alive, requests, faults>>

----------------------------------------------------------------------------
(* The node's side of the coordinator                                      *)

(* The live peers of the preferred network that has any.                   *)
Eligible(peers) == {p \in peers : \A q \in peers : Preference[p] <= Preference[q]}

eligible_peers == Eligible(alive)

(* Faulty variant: the version of the target is taken for a number of      *)
(* transactions.                                                           *)
ChunkRequest_OffByOne(n, known_version, current_epoch) ==
    LET request(type, target) ==
            [known_version |-> known_version, current_epoch |-> current_epoch,
             type |-> type, target |-> target]
    IN  IF ~is_initialized(n) THEN {request("Waypoint", waypoint)}
        ELSE IF n.sync_request = None THEN {request("HighestAvailable", n.target_li)}
        ELSE {r \in {request("TargetLedgerInfo", n.sync_request)} : r.target > known_version + 1}

(* The request for the chunk after known_version, unless the sync request  *)
(* has been reached.                                                       *)
ChunkRequest(n, known_version, current_epoch) ==
    LET request(type, target) ==
            [known_version |-> known_version, current_epoch |-> current_epoch,
             type |-> type, target |-> target]
    IN  IF ~is_initialized(n) THEN {request("Waypoint", waypoint)}
        ELSE IF n.sync_request = None THEN {request("HighestAvailable", n.target_li)}
        ELSE {r \in {request("TargetLedgerInfo", n.sync_request)} : r.target > known_version}

(* pick_peer draws one of the eligible peers; there must be one.           *)
send_chunk_request(rs) ==
    \E p \in Eligible(alive') :
        requests' = IF rs = {} THEN requests ELSE [requests EXCEPT ![p] = rs]

(* Faulty variant: only the LI that ends an epoch is stored.               *)
execute_and_commit_chunk_EpochLIs(n, c, end_of_epoch_li) ==
    {[n EXCEPT !.synced = c.last, !.li = IF c.last \in EpochEnds THEN c.last ELSE @]}

(* The LI that covers the end of a chunk, or None: the target, or the end  *)
(* of the epoch.  The chunk is refused if the end of the epoch came along  *)
(* and is not where the chunk ends, or is where it ends and did not.       *)
find_chunk_li(c, end_of_epoch_li) ==
    IF c.li = c.last THEN {c.li}
    ELSE IF end_of_epoch_li # None THEN {end_of_epoch_li} \cap {c.last}
    ELSE {l \in {None} : c.last \notin EpochEnds}

(* Execute the chunk and store it with that LI: the outcomes, if any.      *)
execute_and_commit_chunk(n, c, end_of_epoch_li) ==
    {[n EXCEPT !.synced = c.last, !.li = IF li = None THEN @ ELSE li] :
        li \in find_chunk_li(c, end_of_epoch_li)}

(* Bring the pending LIs up to date, and tell consensus when its sync      *)
(* request is complete.                                                    *)
process_commit(n) ==
    LET m == update(n)
    IN  IF m.sync_request = None \/ m.synced < m.sync_request THEN m
        ELSE IF m.synced = m.sync_request
             THEN [m EXCEPT !.sync_request = None]
             ELSE [m EXCEPT !.failed = TRUE]

Received(p, c) ==
    /\ ~node.failed
    /\ c \in responses[p]
    /\ responses' = [responses EXCEPT ![p] = {}]
    /\ UNCHANGED <<role, alive, upstream, subscriptions, faults>>

Applicable(c) == c.first <= c.last /\ c.first = node.synced + 1

(* Faulty variant: any LI of the trusted epoch will do.                    *)
Verifies_AnyLI(c) ==
    /\ is_initialized(node)
    /\ EpochOf(c.li) = epoch(node)

(* An LI of the trusted epoch, not past the target of the sync request.    *)
Verifies(c) ==
    /\ is_initialized(node)
    /\ node.sync_request # None => c.li <= node.sync_request
    /\ EpochOf(c.li) = epoch(node)

(* The highest LI of a progressive response is noted before the chunk is   *)
(* looked at.                                                              *)
Noted(c) == IF c.kind = "Progressive" THEN add_li(node, c.other_li) ELSE node

response_rejected(p, c) ==
    /\ Received(p, c)
    /\ \/ /\ ~Applicable(c) \/ (c.kind = "Waypoint" /\ is_initialized(node))
          /\ UNCHANGED node
       \/ /\ Applicable(c) /\ c.kind # "Waypoint" /\ ~Verifies(c)
          /\ node' = Noted(c)
    /\ UNCHANGED requests

(* Faulty variant: an LI that ends the epoch ends it with this chunk.      *)
NextEpoch_AnyChunk(c) == IF c.li \in EpochEnds THEN epoch(node) + 1 ELSE epoch(node)

(* The epoch of the next chunk.                                            *)
NextEpoch(c) ==
    IF c.li = c.last /\ c.li \in EpochEnds THEN epoch(node) + 1 ELSE epoch(node)

(* The next chunk is requested once this one is stored; without a peer to  *)
(* ask, the rest of the handler is skipped.                                *)
process_response_with_verifiable_li(p, c) ==
    /\ Received(p, c)
    /\ Applicable(c) /\ c.kind # "Waypoint" /\ Verifies(c)
    /\ \E n \in execute_and_commit_chunk(Noted(c), c, None) :
          IF eligible_peers = {}
          THEN node' = update(n) /\ UNCHANGED requests
          ELSE /\ node' = process_commit(n)
               /\ send_chunk_request(ChunkRequest(update(n), n.synced, NextEpoch(c)))

(* The next chunk is requested before this one is executed.                *)
process_response_with_waypoint_li(p, c) ==
    /\ Received(p, c)
    /\ Applicable(c) /\ c.kind = "Waypoint" /\ ~is_initialized(node)
    /\ LET next_epoch == IF c.other_li = c.last THEN epoch(node) + 1 ELSE epoch(node)
           stored == execute_and_commit_chunk(node, c, c.other_li)
       IN  IF c.last < waypoint /\ eligible_peers = {}
           THEN UNCHANGED <<node, requests>>
           ELSE /\ IF c.last < waypoint
                   THEN send_chunk_request(ChunkRequest(node, c.last, next_epoch))
                   ELSE UNCHANGED requests
                /\ node' \in IF stored = {} THEN {node} ELSE {process_commit(n) : n \in stored}

process_chunk_response(p) ==
    \E c \in responses[p] :
        \/ response_rejected(p, c)
        \/ process_response_with_verifiable_li(p, c)
        \/ process_response_with_waypoint_li(p, c)

(* With peers to ask and something to sync: repeat the request when it has *)
(* not been answered in time, and give the sync request up when there was  *)
(* no progress for too long.                                               *)
CheckProgress ==
    \/ UNCHANGED <<node, requests, faults>>
    \/ /\ Eligible(alive') # {}
       /\ role = "FullNode" \/ node.sync_request # None \/ ~is_initialized(node)
       /\ \/ UNCHANGED <<node, faults>>
          \/ /\ node.sync_request # None /\ faults < MaxFaults
             /\ node' = [node EXCEPT !.sync_request = None]
             /\ faults' = faults + 1
       /\ \/ send_chunk_request(ChunkRequest(node', node.synced, epoch(node)))
          \/ node' # node /\ UNCHANGED requests

check_progress ==
    /\ ~node.failed
    /\ UNCHANGED <<role, alive, upstream, subscriptions, responses>>
    /\ CheckProgress

(* Consensus, which runs once the node is initialized and waits for each   *)
(* answer, asks for a target.  An old one is answered at once.             *)
request_sync(target) ==
    /\ ~node.failed
    /\ role = "Validator" /\ is_initialized(node) /\ node.sync_request = None
    /\ UNCHANGED <<role, alive, upstream, subscriptions, responses, faults>>
    /\ LET n == update(node)
       IN  IF target <= n.li
           THEN node' = n /\ UNCHANGED requests
           ELSE /\ node' = [n EXCEPT !.sync_request = target]
                /\ IF eligible_peers = {} THEN UNCHANGED requests
                   ELSE send_chunk_request(ChunkRequest(node', n.synced, epoch(n)))

(* The progress is checked at once.                                        *)
new_peer(p) ==
    /\ ~node.failed
    /\ p \notin alive
    /\ alive' = alive \cup {p}
    /\ UNCHANGED <<role, upstream, subscriptions, responses>>
    /\ CheckProgress

(* The request on its way is lost; a response that has come in is not.     *)
lost_peer(p) ==
    /\ ~node.failed /\ faults < MaxFaults
    /\ p \in alive
    /\ alive' = alive \ {p}
    /\ requests' = [requests EXCEPT ![p] = {}]
    /\ faults' = faults + 1
    /\ UNCHANGED <<role, node, upstream, subscriptions, responses>>

lose(p) ==
    /\ faults < MaxFaults
    /\ \/ requests[p] # {} /\ requests' = [requests EXCEPT ![p] = {}] /\ UNCHANGED responses
       \/ responses[p] # {} /\ responses' = [responses EXCEPT ![p] = {}] /\ UNCHANGED requests
    /\ faults' = faults + 1
    /\ UNCHANGED <<role, node, alive, upstream, subscriptions>>

Started(li, synced) ==
    [li |-> li, synced |-> synced, pending_li_queue |-> {}, target_li |-> None,
     sync_request |-> None, failed |-> FALSE]

(* The process stops, if it has not panicked, and starts from its storage. *)
restart ==
    /\ node.failed \/ faults < MaxFaults
    /\ node' = Started(node.li, node.synced)
    /\ alive' = {}
    /\ requests' = [p \in Peers |-> {}] /\ responses' = [p \in Peers |-> {}]
    /\ faults' = IF node.failed THEN faults ELSE faults + 1
    /\ UNCHANGED <<role, upstream, subscriptions>>

Init ==
    /\ role \in Roles
    /\ node = Started(0, 0)
    /\ alive = {}
    /\ upstream = [p \in Peers |-> 0]
    /\ subscriptions = [p \in Peers |-> {}]
    /\ requests = [p \in Peers |-> {}] /\ responses = [p \in Peers |-> {}]
    /\ faults = 0

Next ==
    \/ \E p \in Peers : \/ process_chunk_request(p) \/ check_subscriptions(p)
                        \/ process_chunk_response(p)
                        \/ new_peer(p) \/ lost_peer(p) \/ lose(p)
    \/ check_progress
    \/ \E target \in LIs : request_sync(target)
    \/ restart

(* The coordinator handles its events, ticks, and is told of its peers.    *)
Fairness ==
    /\ WF_vars(check_progress)
    /\ \A p \in Peers : /\ WF_vars(process_chunk_request(p))
                        /\ WF_vars(process_chunk_response(p))
                        /\ WF_vars(new_peer(p))

Spec == Init /\ [][Next]_vars /\ Fairness

----------------------------------------------------------------------------

(* Every chunk that is asked for belongs to the epoch that the request     *)
(* names, so that a peer can always cut the chunk at the end of the epoch: *)
(* the epoch is guessed before a chunk is stored.                          *)
RequestsNameTheirEpoch ==
    \A p \in Peers : \A r \in requests[p] \cup subscriptions[p] :
        r.current_epoch = EpochOf(r.known_version + 1)

(* The assertion of process_commit: the synced version never goes beyond   *)
(* the target of the sync request when a chunk is committed.               *)
NeverBeyondTarget == ~node.failed

(* A sync request ends with success only when the storage has the LI that  *)
(* consensus asked for, not just the transactions.                         *)
CompleteMeansCommitted ==
    [][\A p \in Peers :
          process_chunk_response(p) /\ node.sync_request # None /\ node'.sync_request = None
              => node'.li = node.sync_request]_vars

(* Whenever a peer that has the waypoint pauses and stays the one to ask,  *)
(* the node commits its highest LI, on a validator the waypoint, however   *)
(* far it was behind and whatever messages, connections and processes      *)
(* failed; unless it has already synced past that LI.                      *)
CatchesUp ==
    \A p \in Peers :
        []<>(\/ p \notin eligible_peers
             \/ upstream[p] < waypoint
             \/ upstream[p] < node.synced
             \/ node.li >= IF role = "FullNode" THEN upstream[p] ELSE waypoint)

(* Once its peers have the waypoint, the node gets there: the promise of   *)
(* wait_until_initialized, which starts consensus.                         *)
WaypointReached ==
    (\A p \in Peers : upstream[p] >= waypoint) ~> is_initialized(node)

(* A sync request to a target that the peer has does not stop before the   *)
(* target's transactions are stored, unless it is given up.                *)
SyncRequestsProgress ==
    \A p \in Peers :
        []<>(\/ p \notin eligible_peers
             \/ node.sync_request = None
             \/ upstream[p] < node.sync_request
             \/ node.synced >= node.sync_request)

=============================================================================
