---------------------------- MODULE RoundManager ----------------------------
(***************************************************************************)
(* The round managers of the validators of an epoch, with their round      *)
(* states: how rounds begin, time out and end.  Each validator handles its *)
(* events one at a time: local timeouts, and proposals, votes and sync     *)
(* infos from the network.  Incoming messages wait in a channel that keeps *)
(* the latest message of each sender and kind; messages can also be lost.  *)
(* A validator may crash between two events, or while it votes.            *)
(*                                                                         *)
(* A block is the round of its parent (whose QC it carries) and a nonce: 0 *)
(* for the NIL block, which all validators build alike, and a number of    *)
(* its own for each proposal of a leader.  Certificates are known by their *)
(* rounds; fetching the blocks below a QC from its sender succeeds, or the *)
(* message counts as lost (module BlockStore).  Votes are cast for safety  *)
(* by module SafetyRules: here a validator may also refuse any proposal.   *)
(* Commits matter only for the length of a round's timer.                  *)
(***************************************************************************)
EXTENDS ValidatorVerifier, Sequences

CONSTANTS
    VotingPower,        \* validator -> its voting power
    Active,             \* the validators that run; the others are silent
    CrashProne,         \* the validators that may crash
    proposers,          \* the validators, in the order of election
    contiguous_rounds,  \* rounds with the same proposer
    Starts,             \* validator -> the rounds of the certificates that
                        \* it starts with: the possible choices
    MaxRound,           \* bound: no certificate is formed for this round
    MaxCrashes, MaxLosses

ASSUME RoundManagerAssumption ==
    /\ CrashProne \subseteq Active /\ Active \subseteq DOMAIN VotingPower
    /\ contiguous_rounds \in Nat \ {0}
    /\ Starts \subseteq [Active -> [qc : Nat, tc : Nat]]
    /\ check_voting_power(VotingPower, Active)

VARIABLES
    node,       \* validator -> its RoundState, certificates and last votes
    channel,    \* <<from, to, kind>> -> the message waiting, or None
    crashes, losses

vars == <<node, channel, crashes, losses>>

None == [kind |-> "None"]
Kinds == {"ProposalMsg", "VoteMsg", "SyncInfo"}

Quorums == {Q \in SUBSET DOMAIN VotingPower : check_voting_power(VotingPower, Q)}
IsQuorum(authors) == authors \in Quorums

Max2(x, y) == IF x >= y THEN x ELSE y

(* RotatingProposer.get_valid_proposer                                     *)
get_valid_proposer(round) ==
    proposers[((round \div contiguous_rounds) % Len(proposers)) + 1]

NoVote == [round |-> 0, block |-> [parent |-> 0, nonce |-> 0], timeout |-> FALSE]

(* SyncInfo::new leaves out a TC that is not higher than the QC.           *)
sync_info(s) == [qc |-> s.qc, tc |-> IF s.tc > s.qc THEN s.tc ELSE 0]

highest_round(si) == Max2(si.qc, si.tc)

has_newer_certificates(si, other) == si.qc > other.qc \/ si.tc > other.tc

----------------------------------------------------------------------------
(* RoundState, as operators on a validator's state.                        *)

(* The timers of earlier rounds run on, but their timeouts are ignored.     *)
setup_timeout(s) == [s EXCEPT !.timer = TRUE]

(* The round after the highest certificate.                                *)
NextRound(s) == Max2(s.qc, s.tc) + 1

process_certificates(s) ==
    IF NextRound(s) > s.current_round
    THEN setup_timeout([s EXCEPT !.current_round = NextRound(s),
                                 !.pending_votes = {}, !.vote_sent = NoVote])
    ELSE s

(* A stored vote replaces an earlier one of its author only to add the     *)
(* timeout (module PendingVotes).                                          *)
insert_vote(s, vote) ==
    IF \E w \in s.pending_votes : w.author = vote.author /\ (w.block # vote.block \/ w.timeout)
    THEN s
    ELSE [s EXCEPT !.pending_votes =
                      {w \in @ : w.author # vote.author} \cup {vote}]

BlockSigners(s, block) == {w.author : w \in {x \in s.pending_votes : x.block = block}}
TimeoutSigners(s) == {w.author : w \in {x \in s.pending_votes : x.timeout}}

record_vote(s, vote) ==
    IF vote.round = s.current_round THEN [s EXCEPT !.vote_sent = vote] ELSE s

----------------------------------------------------------------------------
(* Sending: a message replaces the one that waits in its place.            *)

MessageRound(m) == IF m.kind = "SyncInfo" THEN highest_round(m.sync_info) + 1 ELSE m.round

Message(from, to, kind, msg) == [dest |-> <<from, to, kind>>, msg |-> msg]

Broadcast(v, kind, msg) == {Message(v, u, kind, msg) : u \in Active}

(* Messages for validators that do not run go nowhere.                     *)
Deliverable(messages) == {m \in messages : m.dest[2] \in Active}

(* The messages are sent, once the state of the sender is known.           *)
(* ensure_round_and_sync_up ignores a message for a round that its         *)
(* receiver has left: such messages are discarded here already.            *)
Send(waiting, messages) ==
    \E sent \in {messages}, ch \in {waiting} :
        channel' =
            [d \in DOMAIN ch |->
                LET new == {m.msg : m \in {n \in sent : n.dest = d}}
                    msgs == {m \in (IF new = {} THEN {ch[d]} ELSE new) \ {None} :
                                MessageRound(m) >= node'[d[2]].current_round}
                IN  IF msgs = {} THEN None ELSE CHOOSE m \in msgs : TRUE]

(* process_new_round_event: the proposer of a round that begins proposes a *)
(* block on its highest QC, once in its life and if it has not voted yet.  *)
NewRoundMessages(v, s, t) ==
    IF /\ t.current_round > s.current_round
       /\ get_valid_proposer(t.current_round) = v
       /\ t.last_voted_round < t.current_round
    THEN Broadcast(v, "ProposalMsg",
            [kind |-> "ProposalMsg", round |-> t.current_round,
             block |-> [parent |-> t.qc, nonce |-> 1 + crashes], sync_info |-> sync_info(t)])
    ELSE {}

(* sync_up: take the newer certificates over.                              *)
AddCerts(s, si) == [s EXCEPT !.qc = Max2(@, si.qc), !.tc = Max2(@, si.tc)]

SyncUp(s, si) ==
    IF has_newer_certificates(si, sync_info(s)) THEN process_certificates(AddCerts(s, si)) ELSE s

HelpMessages(v, u, s, si) ==
    IF has_newer_certificates(sync_info(s), si) /\ u # v
    THEN {Message(v, u, "SyncInfo", [kind |-> "SyncInfo", sync_info |-> sync_info(s)])}
    ELSE {}

VoteMsg(s, vote) ==
    [kind |-> "VoteMsg", round |-> vote.round, block |-> vote.block,
     timeout |-> vote.timeout, sync_info |-> sync_info(s)]

----------------------------------------------------------------------------
(* SafetyRules: what construct_and_sign_vote gives for a block of a round, *)
(* with the last vote it keeps, and the state after it.                    *)

MayVote(s, round) == s.last_vote.round = round \/ s.last_voted_round < round

(* Faulty variant: the vote kept for the round is not looked at.           *)
SignedVote_Fresh(s, round, block) == [round |-> round, block |-> block, timeout |-> FALSE]

SignedVote(s, round, block) ==
    IF s.last_vote.round = round THEN s.last_vote
    ELSE [round |-> round, block |-> block, timeout |-> FALSE]

AfterSigning(s, vote) == [s EXCEPT !.last_vote = vote, !.last_voted_round = vote.round]

(* execute_and_vote: sign, then save the vote in the consensus DB.         *)
AfterVoting(s, vote) == [AfterSigning(s, vote) EXCEPT !.saved_vote = vote]

----------------------------------------------------------------------------
(* The handlers.                                                           *)

(* Faulty variant: the highest timeout certificate is not saved.           *)
Restarted_NoTimeoutCertificate(s) ==
    record_vote(process_certificates(
        [s EXCEPT !.tc = 0, !.current_round = 0, !.pending_votes = {}, !.vote_sent = NoVote]),
        s.saved_vote)

(* The state a validator restarts from: its certificates and saved vote.   *)
Restarted(s) ==
    record_vote(process_certificates(
        [s EXCEPT !.current_round = 0, !.pending_votes = {}, !.vote_sent = NoVote]),
        s.saved_vote)

(* RoundManager::start                                                     *)
Restart(v, s) ==
    /\ v \in CrashProne
    /\ crashes < MaxCrashes
    /\ crashes' = crashes + 1
    /\ node' = [node EXCEPT ![v] = Restarted(s)]
    /\ Send([d \in DOMAIN channel |-> IF d[2] = v THEN None ELSE channel[d]],
                               NewRoundMessages(v, [s EXCEPT !.current_round = 0], Restarted(s)))
    /\ UNCHANGED losses

crash(v) == Restart(v, node[v])

(* RoundState::process_local_timeout for the current round.                *)
RearmTimer(s) == setup_timeout([s EXCEPT !.timer = FALSE])

(* The vote that is repeated with a timeout signature: the one sent, or a  *)
(* new one for the NIL block.                                              *)
TimeoutVote(s) ==
    [(IF s.vote_sent.round = s.current_round THEN s.vote_sent
      ELSE SignedVote(s, s.current_round, [parent |-> s.qc, nonce |-> 0]))
     EXCEPT !.timeout = TRUE]

(* process_local_timeout: the vote of the round, with a timeout, goes to   *)
(* everyone.                                                               *)
timeout_vote(v) ==
    \E s \in {RearmTimer(node[v])} : \E vote \in {TimeoutVote(s)} :
        /\ node[v].timer
        /\ s.vote_sent.round = s.current_round \/ MayVote(s, s.current_round)
        /\ node' = [node EXCEPT ![v] =
              record_vote(IF s.vote_sent.round = s.current_round THEN s
                          ELSE AfterVoting(s, [vote EXCEPT !.timeout = FALSE]), vote)]
        /\ Send(channel, Broadcast(v, "VoteMsg", VoteMsg(s, vote)))
        /\ UNCHANGED <<crashes, losses>>

(* process_local_timeout, when SafetyRules refuses the NIL block: it has   *)
(* recorded the round as voted, but crashed before it kept the vote.       *)
timeout_refused(v) ==
    \E s \in {RearmTimer(node[v])} :
        /\ node[v].timer
        /\ ~(s.vote_sent.round = s.current_round \/ MayVote(s, s.current_round))
        /\ node' = [node EXCEPT ![v] = s]
        /\ UNCHANGED <<channel, crashes, losses>>

process_local_timeout(v) == timeout_vote(v) \/ timeout_refused(v)

(* The message that waits for v is taken from the channel.                 *)
Take(u, v, kind) == [channel EXCEPT ![<<u, v, kind>>] = None]

(* process_sync_info_msg                                                   *)
process_sync_info_msg(u, v) ==
    \E m \in {channel[<<u, v, "SyncInfo">>]} \ {None} :
        \E s \in {SyncUp(node[v], m.sync_info)} :
            /\ node' = [node EXCEPT ![v] = s]
            /\ Send(Take(u, v, "SyncInfo"), NewRoundMessages(v, node[v], s))
            /\ UNCHANGED <<crashes, losses>>

(* v syncs up with the sender of a proposal or a vote, and helps it if it  *)
(* is behind.                                                              *)
SyncMessages(u, v, m, s) ==
    HelpMessages(v, u, node[v], m.sync_info) \cup NewRoundMessages(v, node[v], s)

CanVote(s, u, m) ==
    /\ m.round = s.current_round
    /\ get_valid_proposer(m.round) = u
    /\ s.vote_sent = NoVote
    /\ MayVote(s, m.round)

(* process_proposal_msg that ends in a vote, sent to the next proposer.    *)
proposal_vote(u, v, m, s) ==
    \E vote \in {SignedVote(s, m.round, m.block)} :
        /\ CanVote(s, u, m)
        /\ node' = [node EXCEPT ![v] = record_vote(AfterVoting(s, vote), vote)]
        /\ Send(Take(u, v, "ProposalMsg"),
              SyncMessages(u, v, m, s) \cup Deliverable(
                  {Message(v, get_valid_proposer(m.round + 1), "VoteMsg", VoteMsg(s, vote))}))
        /\ UNCHANGED <<crashes, losses>>

(* process_proposal_msg without a vote: another round after all, not the   *)
(* proposer, voted already, or refused (timestamp, execution, preferred    *)
(* round).                                                                 *)
proposal_no_vote(u, v, m, s) ==
    /\ node' = [node EXCEPT ![v] = s]
    /\ Send(Take(u, v, "ProposalMsg"), SyncMessages(u, v, m, s))
    /\ UNCHANGED <<crashes, losses>>

process_proposal_msg(u, v) ==
    \E m \in {channel[<<u, v, "ProposalMsg">>]} \ {None} :
        \E s \in {SyncUp(node[v], m.sync_info)} :
            proposal_vote(u, v, m, s) \/ proposal_no_vote(u, v, m, s)

(* A crash while v votes for a block: after SafetyRules has recorded the   *)
(* round as voted but before it keeps the vote, or after that but before   *)
(* the consensus DB has the vote.                                          *)
CrashInVote(v, s, round, block) ==
    \/ s.last_vote.round # round /\ Restart(v, [s EXCEPT !.last_voted_round = round])
    \/ Restart(v, AfterSigning(s, SignedVote(s, round, block)))

proposal_crash(u, v) ==
    \E m \in {channel[<<u, v, "ProposalMsg">>]} \ {None} :
        \E s \in {SyncUp(node[v], m.sync_info)} :
            CanVote(s, u, m) /\ CrashInVote(v, s, m.round, m.block)

timeout_crash(v) ==
    /\ node[v].timer
    /\ node[v].vote_sent = NoVote
    /\ MayVote(node[v], node[v].current_round)
    /\ CrashInVote(v, node[v], node[v].current_round, [parent |-> node[v].qc, nonce |-> 0])

(* The certificate that the vote completes, if any: a QC before a TC.      *)
Certified(s, vote) ==
    IF s.current_round >= MaxRound THEN s
    ELSE IF IsQuorum(BlockSigners(s, vote.block)) THEN [s EXCEPT !.qc = Max2(@, vote.round)]
    ELSE IF vote.timeout /\ IsQuorum(TimeoutSigners(s)) THEN [s EXCEPT !.tc = Max2(@, vote.round)]
    ELSE s

(* Faulty variant: all votes are for the next proposer only.               *)
ForMe_NextProposer(s, v, m) ==
    m.round = s.current_round /\ get_valid_proposer(m.round + 1) = v

(* process_vote: regular votes are for the next proposer only.             *)
ForMe(s, v, m) ==
    m.round = s.current_round /\ (m.timeout \/ get_valid_proposer(m.round + 1) = v)

(* process_vote_msg                                                        *)
process_vote_msg(u, v) ==
    \E m \in {channel[<<u, v, "VoteMsg">>]} \ {None} :
    \E s \in {SyncUp(node[v], m.sync_info)} :
    \E vote \in {[author |-> u, round |-> m.round, block |-> m.block, timeout |-> m.timeout]} :
    \E voted \in {IF ForMe(s, v, m) THEN insert_vote(s, vote) ELSE s} :
    \E certified \in {IF voted # s THEN Certified(voted, vote) ELSE s} :
    \E next \in {process_certificates(certified)} :
        /\ node' = [node EXCEPT ![v] = next]
        /\ Send(Take(u, v, "VoteMsg"),
              HelpMessages(v, u, node[v], m.sync_info)
                  \cup (IF NewRoundMessages(v, s, next) # {}
                        THEN NewRoundMessages(v, s, next) ELSE NewRoundMessages(v, node[v], s)))
        /\ UNCHANGED <<crashes, losses>>

(* The network loses a message.                                            *)
lose(u, v, kind) ==
    /\ u # v
    /\ losses < MaxLosses
    /\ channel[<<u, v, kind>>] # None
    /\ losses' = losses + 1
    /\ channel' = Take(u, v, kind)
    /\ UNCHANGED <<node, crashes>>

Handle(u, v, kind) ==
    \/ kind = "ProposalMsg" /\ process_proposal_msg(u, v)
    \/ kind = "VoteMsg" /\ process_vote_msg(u, v)
    \/ kind = "SyncInfo" /\ process_sync_info_msg(u, v)

(* A validator that starts with certificates, the genesis QC of round 0 at *)
(* least, having voted for a NIL block in the last round that they end.    *)
Recovered(certificates) ==
    LET vote == [NoVote EXCEPT !.round = highest_round(certificates)]
    IN  [current_round |-> highest_round(certificates) + 1,
         qc |-> certificates.qc, tc |-> certificates.tc, vote_sent |-> NoVote,
         pending_votes |-> {}, timer |-> TRUE,
         last_vote |-> vote, last_voted_round |-> vote.round, saved_vote |-> vote]

(* The validators start together, and the leader of the round proposes.    *)
Init ==
    \E certificates \in Starts :
        /\ node = [v \in Active |-> Recovered(certificates[v])]
        /\ channel =
              [d \in Active \X Active \X Kinds |->
                  LET s == Recovered(certificates[d[1]])
                  IN  IF d[3] = "ProposalMsg" /\ d[1] = get_valid_proposer(s.current_round)
                      THEN [kind |-> "ProposalMsg", round |-> s.current_round,
                            block |-> [parent |-> s.qc, nonce |-> 1], sync_info |-> sync_info(s)]
                      ELSE None]
        /\ crashes = 0 /\ losses = 0

Next ==
    \/ \E v \in Active : crash(v) \/ timeout_crash(v) \/ process_local_timeout(v)
    \/ \E u, v \in Active :
          \/ proposal_crash(u, v)
          \/ \E kind \in Kinds : Handle(u, v, kind) \/ lose(u, v, kind)

Fairness ==
    /\ \A v \in Active : WF_vars(process_local_timeout(v))
    /\ \A u, v \in Active, kind \in Kinds : WF_vars(Handle(u, v, kind))

Spec == Init /\ [][Next]_vars /\ Fairness

----------------------------------------------------------------------------

(* A validator's round never goes back, and never beyond the round after   *)
(* its certificates: not by late messages, and not by a restart.           *)
RoundsAreCertified ==
    [][\A v \in Active :
          /\ node'[v].current_round >= node[v].current_round
          /\ node'[v].current_round = Max2(node'[v].qc, node'[v].tc) + 1]_vars

(* A validator whose round times out has a vote to send: the one it has    *)
(* sent, the one SafetyRules has kept, or one for the NIL block.           *)
HasTimeoutVote(v) ==
    node[v].vote_sent.round = node[v].current_round \/ MayVote(node[v], node[v].current_round)

(* Option 1 or option 2 of process_local_timeout is always open.           *)
TimeoutsVote == \A v \in Active : HasTimeoutVote(v)

(* No round lasts for ever as long as a quorum can vote, so that all get   *)
(* to the last one: whatever messages are lost or overwritten, whether the *)
(* leader proposes or not, whoever refuses a proposal, and whenever        *)
(* validators crash.                                                       *)
Progress ==
    []<>(\/ \A v \in Active : node[v].current_round >= MaxRound
         \/ ~IsQuorum({u \in Active : HasTimeoutVote(u)}))

(* A vote of a round is never taken back: SafetyRules keeps to one block   *)
(* per round across restarts.                                              *)
OneBlockPerRound ==
    [][\A v \in Active :
          node'[v].last_vote.round = node[v].last_vote.round
              => node'[v].last_vote.block = node[v].last_vote.block]_vars

=============================================================================
