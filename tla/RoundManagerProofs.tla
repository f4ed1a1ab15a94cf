------------------------- MODULE RoundManagerProofs -------------------------
(***************************************************************************)
(* How rounds advance and what is voted for, for every set of validators,  *)
(* any certificates to start with, and any number of rounds, crashes and   *)
(* losses.                                                                 *)
(***************************************************************************)
EXTENDS RoundManager, TLAPS

(* More time for a step than the provers take by default.                  *)
USE SMTT(20), ZenonT(20)

Blocks == [parent : Nat, nonce : Nat]
Votes == [round : Nat, block : Blocks, timeout : BOOLEAN]
SyncInfos == [qc : Nat, tc : Nat]

States ==
    [current_round : Nat, qc : Nat, tc : Nat, vote_sent : Votes,
     pending_votes : SUBSET [author : Active, round : Nat, block : Blocks, timeout : BOOLEAN],
     timer : BOOLEAN, last_vote : Votes, last_voted_round : Nat, saved_vote : Votes]

(* The contents of the messages, of whatever kind.                         *)
MessageOK(m) ==
    m # None =>
        /\ m.sync_info \in SyncInfos
        /\ m.kind = "VoteMsg" => m.round \in Nat /\ m.block \in Blocks /\ m.timeout \in BOOLEAN
        /\ m.kind = "ProposalMsg" => m.round \in Nat /\ m.block \in Blocks

Places == Active \X Active \X Kinds

(* The kind of a message is that of its place.                             *)
ChannelOK(ch) ==
    /\ DOMAIN ch = Places
    /\ \A d \in Places : MessageOK(ch[d]) /\ (ch[d] # None => ch[d].kind = d[3])

MessagesOK(messages) ==
    \A m \in messages : MessageOK(m.msg) /\ m.msg # None /\ m.msg.kind = m.dest[3]

(* The inductive invariant: a validator is always in the round after its   *)
(* highest certificate.                                                    *)
IInv ==
    /\ node \in [Active -> States]
    /\ \A v \in Active : node[v].current_round = NextRound(node[v])
    /\ ChannelOK(channel)
    /\ crashes \in Nat

(* How a validator's state may change in any step.                         *)
Moves(t, s) ==
    /\ t \in States
    /\ t.current_round = NextRound(t)
    /\ t.current_round >= s.current_round
    /\ t.last_vote.round = s.last_vote.round => t.last_vote.block = s.last_vote.block

----------------------------------------------------------------------------
(* The operators on a validator's state.                                   *)

LEMMA NoVoteType == NoVote \in Votes
BY DEF NoVote, Votes, Blocks

LEMMA NextRoundNat ==
    ASSUME NEW s \in States
    PROVE  NextRound(s) \in Nat /\ NextRound(s) > 0
BY DEF NextRound, Max2, States

LEMMA SyncInfoType ==
    ASSUME NEW s \in States
    PROVE  sync_info(s) \in SyncInfos
BY DEF sync_info, States, SyncInfos

(* process_certificates goes to the round after the highest certificate    *)
(* from any earlier one.                                                   *)
LEMMA ProcessCertificates ==
    ASSUME NEW s \in States, s.current_round <= NextRound(s)
    PROVE  /\ process_certificates(s) \in States
           /\ process_certificates(s).current_round = NextRound(s)
           /\ NextRound(process_certificates(s)) = NextRound(s)
           /\ process_certificates(s).last_vote = s.last_vote
<1>1. NextRound(s) \in Nat
  BY NextRoundNat
<1>2. CASE NextRound(s) > s.current_round
  <2>1. process_certificates(s) =
            [[s EXCEPT !.current_round = NextRound(s),
                       !.pending_votes = {}, !.vote_sent = NoVote] EXCEPT !.timer = TRUE]
    BY <1>2 DEF process_certificates, setup_timeout
  <2>2. /\ process_certificates(s) \in States
        /\ process_certificates(s).current_round = NextRound(s)
        /\ process_certificates(s).last_vote = s.last_vote
        /\ process_certificates(s).qc = s.qc /\ process_certificates(s).tc = s.tc
    BY <1>1, <2>1, NoVoteType, ZenonT(30) DEF States
  <2> QED BY <2>2 DEF NextRound
<1>3. CASE ~(NextRound(s) > s.current_round)
  <2>1. process_certificates(s) = s
    BY <1>3 DEF process_certificates
  <2>2. s.current_round \in Nat
    BY DEF States
  <2>3. s.current_round = NextRound(s)
    BY <1>1, <1>3, <2>2
  <2> QED BY <2>1, <2>3
<1> QED BY <1>2, <1>3

LEMMA SyncUpMoves ==
    ASSUME NEW s \in States, s.current_round = NextRound(s), NEW si \in SyncInfos
    PROVE  /\ SyncUp(s, si) \in States
           /\ SyncUp(s, si).current_round = NextRound(SyncUp(s, si))
           /\ SyncUp(s, si).current_round >= s.current_round
           /\ SyncUp(s, si).last_vote = s.last_vote
<1> DEFINE t == AddCerts(s, si)
<1>1. t \in States /\ t.current_round = s.current_round /\ t.last_vote = s.last_vote
      /\ t.qc = Max2(s.qc, si.qc) /\ t.tc = Max2(s.tc, si.tc)
  BY Zenon DEF AddCerts, Max2, States, SyncInfos
<1>2. /\ s.qc \in Nat /\ s.tc \in Nat /\ si.qc \in Nat /\ si.tc \in Nat
      /\ s.current_round \in Nat
  BY DEF States, SyncInfos
<1>3. NextRound(t) >= NextRound(s)
  BY <1>1, <1>2 DEF NextRound, Max2
<1> HIDE DEF t
<1>4. NextRound(t) \in Nat
  BY <1>1, NextRoundNat
<1>5. t.current_round <= NextRound(t)
  BY <1>1, <1>2, <1>3, <1>4
<1>6. CASE has_newer_certificates(si, sync_info(s))
  <2>1. SyncUp(s, si) = process_certificates(t)
    BY <1>6 DEF SyncUp, t
  <2> QED BY <1>1, <1>2, <1>3, <1>5, <2>1, ProcessCertificates
<1>7. CASE ~has_newer_certificates(si, sync_info(s))
  <2>1. SyncUp(s, si) = s
    BY <1>7 DEF SyncUp
  <2> QED BY <1>2, <2>1
<1> QED BY <1>6, <1>7

(* What only concerns the vote that was sent.                              *)
LEMMA RecordVote ==
    ASSUME NEW s \in States, NEW vote \in Votes
    PROVE  /\ record_vote(s, vote) \in States
           /\ record_vote(s, vote).current_round = s.current_round
           /\ NextRound(record_vote(s, vote)) = NextRound(s)
           /\ record_vote(s, vote).last_vote = s.last_vote
<1>1. /\ record_vote(s, vote) \in States
      /\ record_vote(s, vote).current_round = s.current_round
      /\ record_vote(s, vote).qc = s.qc /\ record_vote(s, vote).tc = s.tc
      /\ record_vote(s, vote).last_vote = s.last_vote
  BY DEF record_vote, States
<1> QED BY <1>1 DEF NextRound

LEMMA SignedVoteType ==
    ASSUME NEW s \in States, NEW round \in Nat, NEW block \in Blocks
    PROVE  /\ SignedVote(s, round, block) \in Votes
           /\ SignedVote(s, round, block).round = round
           /\ s.last_vote.round = round => SignedVote(s, round, block).block = s.last_vote.block
BY DEF SignedVote, States, Votes

LEMMA AfterSigningMoves ==
    ASSUME NEW s \in States, NEW vote \in Votes
    PROVE  /\ AfterSigning(s, vote) \in States
           /\ AfterSigning(s, vote).current_round = s.current_round
           /\ NextRound(AfterSigning(s, vote)) = NextRound(s)
           /\ AfterSigning(s, vote).last_vote = vote
<1>1. vote.round \in Nat
  BY DEF Votes
<1>2. /\ AfterSigning(s, vote) \in States
      /\ AfterSigning(s, vote).current_round = s.current_round
      /\ AfterSigning(s, vote).qc = s.qc /\ AfterSigning(s, vote).tc = s.tc
      /\ AfterSigning(s, vote).last_vote = vote
  BY <1>1, Zenon DEF AfterSigning, States
<1> QED BY <1>2 DEF NextRound

LEMMA AfterVotingMoves ==
    ASSUME NEW s \in States, NEW vote \in Votes
    PROVE  /\ AfterVoting(s, vote) \in States
           /\ AfterVoting(s, vote).current_round = s.current_round
           /\ NextRound(AfterVoting(s, vote)) = NextRound(s)
           /\ AfterVoting(s, vote).last_vote = vote
<1> DEFINE t == AfterSigning(s, vote)
<1>1. /\ t \in States /\ t.current_round = s.current_round
      /\ NextRound(t) = NextRound(s) /\ t.last_vote = vote
  BY AfterSigningMoves
<1>2. AfterVoting(s, vote) = [t EXCEPT !.saved_vote = vote]
  BY DEF AfterVoting
<1> HIDE DEF t
<1>3. /\ AfterVoting(s, vote) \in States
      /\ AfterVoting(s, vote).current_round = t.current_round
      /\ AfterVoting(s, vote).qc = t.qc /\ AfterVoting(s, vote).tc = t.tc
      /\ AfterVoting(s, vote).last_vote = t.last_vote
  BY <1>1, <1>2 DEF States
<1> QED BY <1>1, <1>3 DEF NextRound

(* A restart finds the round of the certificates again.                    *)
LEMMA RestartedMoves ==
    ASSUME NEW s \in States
    PROVE  /\ Restarted(s) \in States
           /\ Restarted(s).current_round = NextRound(s)
           /\ NextRound(Restarted(s)) = NextRound(s)
           /\ Restarted(s).last_vote = s.last_vote
<1> DEFINE t == [s EXCEPT !.current_round = 0, !.pending_votes = {}, !.vote_sent = NoVote]
<1>1. /\ t \in States /\ t.current_round = 0 /\ t.last_vote = s.last_vote
      /\ t.qc = s.qc /\ t.tc = s.tc
  BY NoVoteType, Zenon DEF States
<1> HIDE DEF t
<1>2. NextRound(t) = NextRound(s) /\ NextRound(s) \in Nat
  BY <1>1, NextRoundNat DEF NextRound
<1>3. t.current_round <= NextRound(t)
  BY <1>1, <1>2
<1> DEFINE u == process_certificates(t)
<1>4. /\ u \in States /\ u.current_round = NextRound(s)
      /\ NextRound(u) = NextRound(s) /\ u.last_vote = s.last_vote
  BY <1>1, <1>2, <1>3, ProcessCertificates
<1>5. Restarted(s) = record_vote(u, s.saved_vote) /\ s.saved_vote \in Votes
  BY DEF Restarted, t, States
<1> HIDE DEF u
<1> QED BY <1>4, <1>5, RecordVote

----------------------------------------------------------------------------
(* Messages.                                                               *)

LEMMA SendKeeps ==
    ASSUME NEW waiting, NEW messages, ChannelOK(waiting), MessagesOK(messages),
           Send(waiting, messages)
    PROVE  ChannelOK(channel')
<1> DEFINE new(d) == {m.msg : m \in {n \in messages : n.dest = d}}
           msgs(d) == {m \in (IF new(d) = {} THEN {waiting[d]} ELSE new(d)) \ {None} :
                          MessageRound(m) >= node'[d[2]].current_round}
<1>1. channel' = [d \in DOMAIN waiting |->
                     IF msgs(d) = {} THEN None ELSE CHOOSE m \in msgs(d) : TRUE]
  BY DEF Send
<1>2. ASSUME NEW d \in Places, NEW m \in msgs(d)
      PROVE  MessageOK(m) /\ m.kind = d[3]
  <2>1. CASE m = waiting[d]
    BY <2>1 DEF ChannelOK
  <2>2. CASE m \in new(d)
    <3>1. PICK n \in messages : n.dest = d /\ n.msg = m
      BY <2>2
    <3> QED BY <3>1 DEF MessagesOK
  <2> QED BY <2>1, <2>2
<1> HIDE DEF msgs
<1>3. DOMAIN waiting = Places
  BY DEF ChannelOK
<1>4. ASSUME NEW d \in Places
      PROVE  MessageOK(channel'[d]) /\ (channel'[d] # None => channel'[d].kind = d[3])
  <2>1. CASE msgs(d) = {}
    BY <1>1, <1>3, <2>1 DEF MessageOK
  <2>2. CASE msgs(d) # {}
    <3>1. channel'[d] \in msgs(d)
      BY <1>1, <1>3, <2>2
    <3> QED BY <1>2, <3>1
  <2> QED BY <2>1, <2>2
<1> QED BY <1>1, <1>3, <1>4 DEF ChannelOK

LEMMA TakeKeeps ==
    ASSUME ChannelOK(channel), NEW u, NEW v, NEW kind
    PROVE  ChannelOK(Take(u, v, kind))
BY DEF ChannelOK, Take, MessageOK

LEMMA BroadcastOK ==
    ASSUME NEW v, NEW kind, NEW msg, MessageOK(msg), msg # None, msg.kind = kind
    PROVE  MessagesOK(Broadcast(v, kind, msg))
BY DEF MessagesOK, Broadcast, Message

LEMMA NewRoundMessagesOK ==
    ASSUME NEW v, NEW s, NEW t \in States, crashes \in Nat
    PROVE  MessagesOK(NewRoundMessages(v, s, t))
<1> DEFINE msg == [kind |-> "ProposalMsg", round |-> t.current_round,
                   block |-> [parent |-> t.qc, nonce |-> 1 + crashes],
                   sync_info |-> sync_info(t)]
<1>1. msg.sync_info \in SyncInfos /\ msg.kind = "ProposalMsg"
  BY SyncInfoType
<1>2. msg.round \in Nat /\ msg.block \in Blocks
  BY DEF States, Blocks
<1>3. msg # None
  BY DEF None
<1>4. NewRoundMessages(v, s, t) = {}
      \/ NewRoundMessages(v, s, t) = Broadcast(v, "ProposalMsg", msg)
  BY DEF NewRoundMessages
<1> HIDE DEF msg
<1>5. MessageOK(msg)
  BY <1>1, <1>2 DEF MessageOK
<1>6. MessagesOK(Broadcast(v, "ProposalMsg", msg))
  BY <1>1, <1>3, <1>5, BroadcastOK
<1> QED BY <1>4, <1>6 DEF MessagesOK

LEMMA HelpMessagesOK ==
    ASSUME NEW v, NEW u, NEW s \in States, NEW si
    PROVE  MessagesOK(HelpMessages(v, u, s, si))
<1> DEFINE msg == [kind |-> "SyncInfo", sync_info |-> sync_info(s)]
<1>1. msg.sync_info \in SyncInfos /\ msg.kind = "SyncInfo"
  BY SyncInfoType
<1>2. msg # None
  BY DEF None
<1>3. HelpMessages(v, u, s, si) \subseteq {Message(v, u, "SyncInfo", msg)}
  BY DEF HelpMessages
<1> HIDE DEF msg
<1>4. MessageOK(msg)
  BY <1>1 DEF MessageOK
<1> QED BY <1>1, <1>2, <1>3, <1>4 DEF MessagesOK, Message

LEMMA VoteMsgOK ==
    ASSUME NEW s \in States, NEW vote \in Votes
    PROVE  MessageOK(VoteMsg(s, vote)) /\ VoteMsg(s, vote) # None
           /\ VoteMsg(s, vote).kind = "VoteMsg"
<1>1. sync_info(s) \in SyncInfos
  BY SyncInfoType
<1>2. vote.round \in Nat /\ vote.block \in Blocks /\ vote.timeout \in BOOLEAN
  BY DEF Votes
<1>3. VoteMsg(s, vote) # None
  BY DEF VoteMsg, None
<1> QED BY <1>1, <1>2, <1>3 DEF VoteMsg, MessageOK

LEMMA UnionOK ==
    ASSUME NEW M, NEW N, MessagesOK(M), MessagesOK(N)
    PROVE  MessagesOK(M \cup N)
BY DEF MessagesOK

----------------------------------------------------------------------------
(* The steps.                                                              *)

StepOK == IInv' /\ \A v \in Active : Moves(node'[v], node[v])

LEMMA OneMoves ==
    ASSUME IInv, NEW v \in Active, NEW t, Moves(t, node[v]),
           node' = [node EXCEPT ![v] = t], ChannelOK(channel'), crashes' \in Nat
    PROVE  StepOK
<1>1. \A w \in Active : Moves(node[w], node[w])
  BY DEF IInv, Moves, States
<1>2. \A w \in Active : Moves(node'[w], node[w])
  BY <1>1 DEF IInv
<1>3. node' \in [Active -> States]
  BY DEF IInv, Moves
<1>4. \A w \in Active : node'[w].current_round = NextRound(node'[w])
  BY <1>2 DEF Moves
<1>5. IInv'
  BY <1>3, <1>4 DEF IInv, NextRound
<1> QED BY <1>2, <1>5 DEF StepOK

(* A state that has moved on from the validator's without another vote.    *)
Synced(s, v) ==
    /\ s \in States
    /\ s.current_round = NextRound(s)
    /\ s.current_round >= node[v].current_round
    /\ s.last_vote = node[v].last_vote

LEMMA RestartStep ==
    ASSUME IInv, NEW v \in Active, NEW s \in States,
           NextRound(s) >= node[v].current_round,
           s.last_vote.round = node[v].last_vote.round
               => s.last_vote.block = node[v].last_vote.block,
           Restart(v, s)
    PROVE  StepOK
<1> DEFINE waiting == [d \in DOMAIN channel |-> IF d[2] = v THEN None ELSE channel[d]]
           messages == NewRoundMessages(v, [s EXCEPT !.current_round = 0], Restarted(s))
<1>1. /\ crashes' = crashes + 1
      /\ node' = [node EXCEPT ![v] = Restarted(s)]
      /\ Send(waiting, messages)
  BY DEF Restart
<1>2. /\ Restarted(s) \in States
      /\ Restarted(s).current_round = NextRound(s)
      /\ NextRound(Restarted(s)) = NextRound(s)
      /\ Restarted(s).last_vote = s.last_vote
  BY RestartedMoves
<1>3. Moves(Restarted(s), node[v])
  BY <1>2 DEF Moves
<1>4. ChannelOK(waiting)
  BY DEF IInv, ChannelOK, MessageOK
<1>5. MessagesOK(messages)
  BY <1>2, NewRoundMessagesOK DEF IInv
<1> HIDE DEF waiting, messages
<1>6. ChannelOK(channel')
  BY <1>1, <1>4, <1>5, SendKeeps
<1>7. crashes' \in Nat
  BY <1>1 DEF IInv
<1> QED BY <1>1, <1>3, <1>6, <1>7, OneMoves, Zenon

LEMMA CrashInVoteStep ==
    ASSUME IInv, NEW v \in Active, NEW s, Synced(s, v),
           NEW round \in Nat, NEW block \in Blocks, CrashInVote(v, s, round, block)
    PROVE  StepOK
<1>1. s \in States /\ NextRound(s) >= node[v].current_round /\ s.last_vote = node[v].last_vote
  BY DEF Synced
<1>2. CASE Restart(v, [s EXCEPT !.last_voted_round = round])
  <2> DEFINE t == [s EXCEPT !.last_voted_round = round]
  <2>1. t \in States /\ t.qc = s.qc /\ t.tc = s.tc /\ t.last_vote = s.last_vote
    BY <1>1 DEF States
  <2> HIDE DEF t
  <2>2. NextRound(t) >= node[v].current_round
    BY <1>1, <2>1 DEF NextRound
  <2>3. Restart(v, t)
    BY <1>2 DEF t
  <2> QED BY <1>1, <2>1, <2>2, <2>3, RestartStep
<1>3. CASE Restart(v, AfterSigning(s, SignedVote(s, round, block)))
  <2> DEFINE vote == SignedVote(s, round, block)
             t == AfterSigning(s, vote)
  <2>1. /\ vote \in Votes /\ vote.round = round
        /\ s.last_vote.round = round => vote.block = s.last_vote.block
    BY <1>1, SignedVoteType
  <2>2. Restart(v, t)
    BY <1>3
  <2> HIDE DEF vote
  <2>3. t \in States /\ NextRound(t) = NextRound(s) /\ t.last_vote = vote
    BY <1>1, <2>1, AfterSigningMoves
  <2> HIDE DEF t
  <2>4. t.last_vote.round = node[v].last_vote.round => t.last_vote.block = node[v].last_vote.block
    BY <1>1, <2>1, <2>3
  <2> QED BY <1>1, <2>2, <2>3, <2>4, RestartStep
<1> QED BY <1>2, <1>3 DEF CrashInVote

LEMMA SelfSynced ==
    ASSUME IInv, NEW v \in Active
    PROVE  Synced(node[v], v)
BY DEF IInv, Synced, States

LEMMA CrashStep ==
    ASSUME IInv, NEW v \in Active, crash(v)
    PROVE  StepOK
<1>1. Synced(node[v], v)
  BY SelfSynced
<1> QED BY <1>1, RestartStep DEF crash, Synced

LEMMA TimeoutCrashStep ==
    ASSUME IInv, NEW v \in Active, timeout_crash(v)
    PROVE  StepOK
<1>1. Synced(node[v], v)
  BY SelfSynced
<1>2. node[v].current_round \in Nat /\ [parent |-> node[v].qc, nonce |-> 0] \in Blocks
  BY DEF IInv, States, Blocks
<1> QED BY <1>1, <1>2, CrashInVoteStep DEF timeout_crash

(* The timer is set again.                                                 *)
LEMMA RearmTimerSynced ==
    ASSUME IInv, NEW v \in Active
    PROVE  Synced(RearmTimer(node[v]), v)
<1> DEFINE s == RearmTimer(node[v])
<1>1. s = [[node[v] EXCEPT !.timer = FALSE] EXCEPT !.timer = TRUE]
  BY DEF RearmTimer, setup_timeout
<1>2. node[v] \in States /\ node[v].current_round = NextRound(node[v])
  BY DEF IInv
<1> HIDE DEF s
<1>3. /\ s \in States /\ s.current_round = node[v].current_round
      /\ s.qc = node[v].qc /\ s.tc = node[v].tc /\ s.last_vote = node[v].last_vote
      /\ node[v].current_round \in Nat
  BY <1>1, <1>2, Zenon DEF States
<1>4. Synced(s, v)
  BY <1>2, <1>3 DEF Synced, NextRound
<1> QED BY <1>4 DEF s

LEMMA SyncedMoves ==
    ASSUME NEW s, NEW v, Synced(s, v)
    PROVE  Moves(s, node[v])
BY DEF Synced, Moves

LEMMA TimeoutRefusedStep ==
    ASSUME IInv, NEW v \in Active, timeout_refused(v)
    PROVE  StepOK
<1> DEFINE s == RearmTimer(node[v])
<1>1. Synced(s, v)
  BY RearmTimerSynced
<1>2. node' = [node EXCEPT ![v] = s] /\ UNCHANGED <<channel, crashes, losses>>
  BY DEF timeout_refused
<1> HIDE DEF s
<1> QED BY <1>1, <1>2, SyncedMoves, OneMoves, Zenon DEF IInv

LEMMA TimeoutVoteStep ==
    ASSUME IInv, NEW v \in Active, timeout_vote(v)
    PROVE  StepOK
<1> DEFINE s == RearmTimer(node[v])
           vote == TimeoutVote(s)
           kept == [vote EXCEPT !.timeout = FALSE]
           t == IF s.vote_sent.round = s.current_round THEN s ELSE AfterVoting(s, kept)
<1>1. /\ node' = [node EXCEPT ![v] = record_vote(t, vote)]
      /\ Send(channel, Broadcast(v, "VoteMsg", VoteMsg(s, vote)))
      /\ UNCHANGED <<crashes, losses>>
  BY DEF timeout_vote
<1>2. Synced(s, v)
  BY RearmTimerSynced
<1> HIDE DEF s
<1>3. /\ s \in States /\ s.vote_sent \in Votes /\ s.current_round \in Nat
      /\ [parent |-> s.qc, nonce |-> 0] \in Blocks
  BY <1>2 DEF Synced, States, Blocks
<1> DEFINE signed == SignedVote(s, s.current_round, [parent |-> s.qc, nonce |-> 0])
<1>4. /\ signed \in Votes /\ signed.round = s.current_round
      /\ s.last_vote.round = s.current_round => signed.block = s.last_vote.block
  BY <1>3, SignedVoteType
<1>5. vote = [(IF s.vote_sent.round = s.current_round THEN s.vote_sent ELSE signed)
              EXCEPT !.timeout = TRUE]
  BY DEF TimeoutVote
<1> HIDE DEF signed, vote
<1>6. vote \in Votes
  <2>1. CASE s.vote_sent.round = s.current_round
    BY <1>3, <1>5, <2>1, Zenon DEF Votes
  <2>2. CASE s.vote_sent.round # s.current_round
    BY <1>4, <1>5, <2>2, Zenon DEF Votes
  <2> QED BY <2>1, <2>2
<1>7. Moves(t, node[v])
  <2>1. CASE s.vote_sent.round = s.current_round
    BY <1>2, <2>1, SyncedMoves
  <2>2. CASE s.vote_sent.round # s.current_round
    <3>1. vote = [signed EXCEPT !.timeout = TRUE]
      BY <1>5, <2>2
    <3>2. kept \in Votes /\ kept.round = signed.round /\ kept.block = signed.block
      BY <1>4, <3>1, Zenon DEF Votes
    <3> HIDE DEF kept
    <3>3. /\ AfterVoting(s, kept) \in States
          /\ AfterVoting(s, kept).current_round = s.current_round
          /\ NextRound(AfterVoting(s, kept)) = NextRound(s)
          /\ AfterVoting(s, kept).last_vote = kept
      BY <1>3, <3>2, AfterVotingMoves
    <3>4. Moves(AfterVoting(s, kept), node[v])
      BY <1>2, <1>4, <3>2, <3>3 DEF Synced, Moves
    <3> QED BY <2>2, <3>4
  <2> QED BY <2>1, <2>2
<1> HIDE DEF t
<1>8. Moves(record_vote(t, vote), node[v])
  BY <1>6, <1>7, RecordVote DEF Moves
<1>9. MessagesOK(Broadcast(v, "VoteMsg", VoteMsg(s, vote)))
  BY <1>3, <1>6, VoteMsgOK, BroadcastOK
<1>10. ChannelOK(channel')
  BY <1>1, <1>9, SendKeeps DEF IInv
<1> QED BY <1>1, <1>8, <1>10, OneMoves, Zenon DEF IInv

(* A message, taken from its place, and the state after syncing up with    *)
(* its sender.                                                             *)
LEMMA TakenOK ==
    ASSUME IInv, NEW u \in Active, NEW v \in Active, NEW kind \in Kinds,
           NEW m \in {channel[<<u, v, kind>>]} \ {None}
    PROVE  MessageOK(m) /\ m # None /\ m.kind = kind /\ m.sync_info \in SyncInfos
<1> DEFINE d == <<u, v, kind>>
<1>1. d \in Places /\ d[3] = kind
  BY DEF Places
<1>2. m = channel[d] /\ m # None
  OBVIOUS
<1> HIDE DEF d
<1>3. MessageOK(m) /\ m.kind = kind
  BY <1>1, <1>2 DEF IInv, ChannelOK
<1> QED BY <1>2, <1>3 DEF MessageOK

LEMMA SyncUpSynced ==
    ASSUME IInv, NEW v \in Active, NEW si \in SyncInfos
    PROVE  Synced(SyncUp(node[v], si), v)
<1>1. node[v] \in States /\ node[v].current_round = NextRound(node[v])
  BY DEF IInv
<1> QED BY <1>1, SyncUpMoves DEF Synced

LEMMA SyncInfoStep ==
    ASSUME IInv, NEW u \in Active, NEW v \in Active, process_sync_info_msg(u, v)
    PROVE  StepOK
<1>1. PICK m \in {channel[<<u, v, "SyncInfo">>]} \ {None} :
        \E s \in {SyncUp(node[v], m.sync_info)} :
            /\ node' = [node EXCEPT ![v] = s]
            /\ Send(Take(u, v, "SyncInfo"), NewRoundMessages(v, node[v], s))
            /\ UNCHANGED <<crashes, losses>>
  BY Zenon DEF process_sync_info_msg
<1>2. m.sync_info \in SyncInfos
  BY TakenOK, Zenon DEF Kinds
<1> DEFINE s == SyncUp(node[v], m.sync_info)
<1>3. Synced(s, v)
  BY <1>2, SyncUpSynced
<1>4. /\ node' = [node EXCEPT ![v] = s]
      /\ Send(Take(u, v, "SyncInfo"), NewRoundMessages(v, node[v], s))
      /\ UNCHANGED <<crashes, losses>>
  BY <1>1
<1> HIDE DEF s
<1>5. MessagesOK(NewRoundMessages(v, node[v], s))
  BY <1>3, NewRoundMessagesOK DEF IInv, Synced
<1>6. ChannelOK(Take(u, v, "SyncInfo"))
  BY TakeKeeps DEF IInv
<1>7. ChannelOK(channel')
  BY <1>4, <1>5, <1>6, SendKeeps
<1>8. crashes' \in Nat
  BY <1>4 DEF IInv
<1> QED BY <1>3, <1>4, <1>7, <1>8, SyncedMoves, OneMoves, Zenon

LEMMA SyncMessagesOK ==
    ASSUME IInv, NEW u \in Active, NEW v \in Active, NEW m, NEW s \in States
    PROVE  MessagesOK(SyncMessages(u, v, m, s))
<1>1. MessagesOK(HelpMessages(v, u, node[v], m.sync_info))
  BY HelpMessagesOK DEF IInv
<1>2. MessagesOK(NewRoundMessages(v, node[v], s))
  BY NewRoundMessagesOK DEF IInv
<1> QED BY <1>1, <1>2, UnionOK DEF SyncMessages

LEMMA ProposalNoVoteStep ==
    ASSUME IInv, NEW u \in Active, NEW v \in Active, NEW m, NEW s, Synced(s, v),
           proposal_no_vote(u, v, m, s)
    PROVE  StepOK
<1>1. MessagesOK(SyncMessages(u, v, m, s))
  BY SyncMessagesOK DEF Synced
<1>2. ChannelOK(Take(u, v, "ProposalMsg"))
  BY TakeKeeps DEF IInv
<1>3. ChannelOK(channel')
  BY <1>1, <1>2, SendKeeps DEF proposal_no_vote
<1>4. crashes' \in Nat /\ node' = [node EXCEPT ![v] = s]
  BY DEF IInv, proposal_no_vote
<1> QED BY <1>3, <1>4, SyncedMoves, OneMoves, Zenon

LEMMA ProposalVoteStep ==
    ASSUME IInv, NEW u \in Active, NEW v \in Active, NEW m, NEW s, Synced(s, v),
           m.round \in Nat, m.block \in Blocks, proposal_vote(u, v, m, s)
    PROVE  StepOK
<1> DEFINE vote == SignedVote(s, m.round, m.block)
           mine == Deliverable(
                      {Message(v, get_valid_proposer(m.round + 1), "VoteMsg", VoteMsg(s, vote))})
<1>1. /\ node' = [node EXCEPT ![v] = record_vote(AfterVoting(s, vote), vote)]
      /\ Send(Take(u, v, "ProposalMsg"), SyncMessages(u, v, m, s) \cup mine)
      /\ UNCHANGED <<crashes, losses>>
  BY DEF proposal_vote
<1>2. s \in States
  BY DEF Synced
<1>3. /\ vote \in Votes /\ vote.round = m.round
      /\ s.last_vote.round = m.round => vote.block = s.last_vote.block
  BY <1>2, SignedVoteType
<1> HIDE DEF vote
<1>4. /\ AfterVoting(s, vote) \in States
      /\ AfterVoting(s, vote).current_round = s.current_round
      /\ NextRound(AfterVoting(s, vote)) = NextRound(s)
      /\ AfterVoting(s, vote).last_vote = vote
  BY <1>2, <1>3, AfterVotingMoves
<1>5. Moves(AfterVoting(s, vote), node[v])
  BY <1>3, <1>4 DEF Synced, Moves
<1>6. Moves(record_vote(AfterVoting(s, vote), vote), node[v])
  BY <1>3, <1>4, <1>5, RecordVote DEF Moves
<1>7. MessagesOK(mine)
  <2>1. MessageOK(VoteMsg(s, vote)) /\ VoteMsg(s, vote) # None
        /\ VoteMsg(s, vote).kind = "VoteMsg"
    BY <1>2, <1>3, VoteMsgOK
  <2> QED BY <2>1 DEF MessagesOK, Deliverable, Message
<1> HIDE DEF mine
<1>8. MessagesOK(SyncMessages(u, v, m, s) \cup mine)
  BY <1>2, <1>7, SyncMessagesOK, UnionOK
<1>9. ChannelOK(Take(u, v, "ProposalMsg"))
  BY TakeKeeps DEF IInv
<1>10. ChannelOK(channel')
  BY <1>1, <1>8, <1>9, SendKeeps
<1>11. crashes' \in Nat
  BY <1>1 DEF IInv
<1> QED BY <1>1, <1>6, <1>10, <1>11, OneMoves, Zenon

LEMMA ProposalStep ==
    ASSUME IInv, NEW u \in Active, NEW v \in Active,
           process_proposal_msg(u, v) \/ proposal_crash(u, v)
    PROVE  StepOK
<1>1. PICK m \in {channel[<<u, v, "ProposalMsg">>]} \ {None} :
        \E s \in {SyncUp(node[v], m.sync_info)} :
            \/ proposal_vote(u, v, m, s) \/ proposal_no_vote(u, v, m, s)
            \/ CrashInVote(v, s, m.round, m.block)
  BY DEF process_proposal_msg, proposal_crash
<1>2. MessageOK(m) /\ m # None /\ m.kind = "ProposalMsg" /\ m.sync_info \in SyncInfos
  BY TakenOK, Zenon DEF Kinds
<1>3. m.round \in Nat /\ m.block \in Blocks
  BY <1>2 DEF MessageOK
<1> DEFINE s == SyncUp(node[v], m.sync_info)
<1>4. Synced(s, v)
  BY <1>2, SyncUpSynced
<1>5. \/ proposal_vote(u, v, m, s) \/ proposal_no_vote(u, v, m, s)
      \/ CrashInVote(v, s, m.round, m.block)
  BY <1>1
<1> HIDE DEF s
<1> QED BY <1>3, <1>4, <1>5, ProposalVoteStep, ProposalNoVoteStep, CrashInVoteStep

(* A vote is aggregated: the certificate that it may complete takes the    *)
(* validator to the round after it.                                        *)
LEMMA VoteAggregated ==
    ASSUME NEW v \in Active, node[v].current_round \in Nat,
           NEW s, Synced(s, v), NEW voted, NEW certified,
           NEW vote \in [author : Active, round : Nat, block : Blocks, timeout : BOOLEAN],
           voted = s \/ voted = insert_vote(s, vote),
           certified = s \/ certified = Certified(voted, vote)
    PROVE  Moves(process_certificates(certified), node[v])
<1>1. /\ s \in States /\ s.current_round = NextRound(s) /\ s.last_vote = node[v].last_vote
      /\ s.current_round >= node[v].current_round
      /\ s.qc \in Nat /\ s.tc \in Nat /\ s.current_round \in Nat
  BY DEF Synced, States
<1>2. /\ voted \in States /\ voted.current_round = s.current_round
      /\ voted.qc = s.qc /\ voted.tc = s.tc /\ voted.last_vote = s.last_vote
  <2>1. CASE voted = s
    BY <1>1, <2>1
  <2>2. CASE voted = insert_vote(s, vote)
    BY <1>1, <2>2 DEF insert_vote, States
  <2> QED BY <2>1, <2>2
<1>3. vote.round \in Nat
  OBVIOUS
<1>4. /\ certified \in States /\ certified.current_round = s.current_round
      /\ certified.last_vote = s.last_vote
      /\ certified.qc \in Nat /\ certified.qc >= s.qc
      /\ certified.tc \in Nat /\ certified.tc >= s.tc
  <2>1. CASE certified = s
    BY <1>1, <2>1
  <2>2. CASE certified = voted
    BY <1>1, <1>2, <2>2
  <2>3. CASE certified = [voted EXCEPT !.qc = Max2(@, vote.round)]
    BY <1>1, <1>2, <1>3, <2>3 DEF States, Max2
  <2>4. CASE certified = [voted EXCEPT !.tc = Max2(@, vote.round)]
    BY <1>1, <1>2, <1>3, <2>4 DEF States, Max2
  <2> QED BY <2>1, <2>2, <2>3, <2>4 DEF Certified
<1>5. NextRound(certified) >= s.current_round /\ NextRound(certified) \in Nat
  BY <1>1, <1>4 DEF NextRound, Max2
<1>6. certified.current_round <= NextRound(certified)
  BY <1>1, <1>4, <1>5
<1> DEFINE next == process_certificates(certified)
<1>7. /\ next \in States /\ next.current_round = NextRound(certified)
      /\ NextRound(next) = NextRound(certified) /\ next.last_vote = certified.last_vote
  BY <1>4, <1>6, ProcessCertificates
<1> HIDE DEF next
<1>8. next.current_round >= node[v].current_round
  <2>1. s.current_round >= node[v].current_round /\ NextRound(certified) >= s.current_round
    BY <1>1, <1>5
  <2>2. NextRound(certified) >= node[v].current_round
    BY <1>1, <1>5, <2>1
  <2> QED BY <1>7, <2>2
<1>9. Moves(next, node[v])
  BY <1>1, <1>4, <1>7, <1>8 DEF Moves
<1> QED BY <1>9 DEF next

LEMMA VoteStep ==
    ASSUME IInv, NEW u \in Active, NEW v \in Active, process_vote_msg(u, v)
    PROVE  StepOK
<1>1. PICK m \in {channel[<<u, v, "VoteMsg">>]} \ {None} :
      \E s \in {SyncUp(node[v], m.sync_info)} :
      \E vote \in {[author |-> u, round |-> m.round, block |-> m.block, timeout |-> m.timeout]} :
      \E voted \in {IF ForMe(s, v, m) THEN insert_vote(s, vote) ELSE s} :
      \E certified \in {IF voted # s THEN Certified(voted, vote) ELSE s} :
      \E next \in {process_certificates(certified)} :
        /\ node' = [node EXCEPT ![v] = next]
        /\ Send(Take(u, v, "VoteMsg"),
              HelpMessages(v, u, node[v], m.sync_info)
                  \cup (IF NewRoundMessages(v, s, next) # {}
                        THEN NewRoundMessages(v, s, next) ELSE NewRoundMessages(v, node[v], s)))
        /\ UNCHANGED <<crashes, losses>>
  BY Zenon DEF process_vote_msg
<1>2. MessageOK(m) /\ m # None /\ m.kind = "VoteMsg" /\ m.sync_info \in SyncInfos
  BY TakenOK, Zenon DEF Kinds
<1>3. m.round \in Nat /\ m.block \in Blocks /\ m.timeout \in BOOLEAN
  BY <1>2 DEF MessageOK
<1> DEFINE s == SyncUp(node[v], m.sync_info)
           vote == [author |-> u, round |-> m.round, block |-> m.block, timeout |-> m.timeout]
           voted == IF ForMe(s, v, m) THEN insert_vote(s, vote) ELSE s
           certified == IF voted # s THEN Certified(voted, vote) ELSE s
           next == process_certificates(certified)
           messages == HelpMessages(v, u, node[v], m.sync_info)
                  \cup (IF NewRoundMessages(v, s, next) # {}
                        THEN NewRoundMessages(v, s, next) ELSE NewRoundMessages(v, node[v], s))
<1>4. /\ node' = [node EXCEPT ![v] = next]
      /\ Send(Take(u, v, "VoteMsg"), messages)
      /\ UNCHANGED <<crashes, losses>>
  BY <1>1, ZenonT(30)
<1>5. Synced(s, v)
  BY <1>2, SyncUpSynced
<1>6. vote \in [author : Active, round : Nat, block : Blocks, timeout : BOOLEAN]
  BY <1>3
<1> HIDE DEF s, vote
<1>7. voted = s \/ voted = insert_vote(s, vote)
  OBVIOUS
<1> HIDE DEF voted
<1>8. certified = s \/ certified = Certified(voted, vote)
  OBVIOUS
<1> HIDE DEF certified
<1>9. Moves(next, node[v])
  <2>1. node[v].current_round \in Nat
    BY DEF IInv, States
  <2> QED BY <1>5, <1>6, <1>7, <1>8, <2>1, VoteAggregated
<1> HIDE DEF next
<1>10. MessagesOK(messages)
  <2>1. MessagesOK(HelpMessages(v, u, node[v], m.sync_info))
    BY HelpMessagesOK DEF IInv
  <2>2. MessagesOK(NewRoundMessages(v, s, next))
    BY <1>9, NewRoundMessagesOK DEF IInv, Moves
  <2>3. MessagesOK(NewRoundMessages(v, node[v], s))
    BY <1>5, NewRoundMessagesOK DEF IInv, Synced
  <2> QED BY <2>1, <2>2, <2>3, UnionOK
<1> HIDE DEF messages
<1>11. ChannelOK(Take(u, v, "VoteMsg"))
  BY TakeKeeps DEF IInv
<1>12. ChannelOK(channel')
  BY <1>4, <1>10, <1>11, SendKeeps
<1>13. crashes' \in Nat
  BY <1>4 DEF IInv
<1> QED BY <1>4, <1>9, <1>12, <1>13, OneMoves, Zenon

LEMMA StutterStep ==
    ASSUME IInv, UNCHANGED <<node, crashes>>, ChannelOK(channel')
    PROVE  StepOK
<1>1. \A w \in Active : Moves(node[w], node[w])
  BY DEF IInv, Moves, States
<1>2. \A w \in Active : Moves(node'[w], node[w])
  BY <1>1
<1>3. IInv'
  BY DEF IInv, NextRound
<1> QED BY <1>2, <1>3 DEF StepOK

LEMMA NextStep ==
    ASSUME IInv, [Next]_vars
    PROVE  StepOK
<1>1. ASSUME NEW v \in Active, crash(v) \/ timeout_crash(v) \/ process_local_timeout(v)
      PROVE  StepOK
  BY <1>1, CrashStep, TimeoutCrashStep, TimeoutVoteStep, TimeoutRefusedStep
     DEF process_local_timeout
<1>2. ASSUME NEW u \in Active, NEW v \in Active, proposal_crash(u, v)
      PROVE  StepOK
  BY <1>2, ProposalStep
<1>3. ASSUME NEW u \in Active, NEW v \in Active, NEW kind \in Kinds, Handle(u, v, kind)
      PROVE  StepOK
  BY <1>3, ProposalStep, VoteStep, SyncInfoStep DEF Handle
<1>4. ASSUME NEW u \in Active, NEW v \in Active, NEW kind \in Kinds, lose(u, v, kind)
      PROVE  StepOK
  <2>1. UNCHANGED <<node, crashes>> /\ channel' = Take(u, v, kind)
    BY <1>4 DEF lose
  <2>2. ChannelOK(channel')
    BY <2>1, TakeKeeps DEF IInv
  <2> QED BY <2>1, <2>2, StutterStep
<1>5. CASE UNCHANGED vars
  BY <1>5, StutterStep DEF vars, IInv
<1> QED BY <1>1, <1>2, <1>3, <1>4, <1>5 DEF Next

LEMMA RecoveredType ==
    ASSUME NEW certificates \in SyncInfos
    PROVE  /\ Recovered(certificates) \in States
           /\ Recovered(certificates).current_round = NextRound(Recovered(certificates))
<1> DEFINE round == highest_round(certificates)
           vote == [NoVote EXCEPT !.round = round]
           s == [current_round |-> round + 1,
                 qc |-> certificates.qc, tc |-> certificates.tc, vote_sent |-> NoVote,
                 pending_votes |-> {}, timer |-> TRUE,
                 last_vote |-> vote, last_voted_round |-> vote.round, saved_vote |-> vote]
<1>1. round \in Nat
  BY DEF highest_round, Max2, SyncInfos
<1>2. vote \in Votes /\ vote.round \in Nat
  BY <1>1, NoVoteType DEF Votes
<1>3. Recovered(certificates) = s
  BY DEF Recovered
<1>4. s.current_round = NextRound(s)
  BY DEF NextRound, highest_round
<1> HIDE DEF round, vote
<1>5. s \in States
  BY <1>1, <1>2, NoVoteType DEF States, SyncInfos
<1> HIDE DEF s
<1> QED BY <1>3, <1>4, <1>5

LEMMA InitIInv == Init => IInv
<1> SUFFICES ASSUME Init
             PROVE  IInv
  OBVIOUS
<1>1. PICK certificates \in Starts :
        /\ node = [v \in Active |-> Recovered(certificates[v])]
        /\ channel =
              [d \in Active \X Active \X Kinds |->
                  LET s == Recovered(certificates[d[1]])
                  IN  IF d[3] = "ProposalMsg" /\ d[1] = get_valid_proposer(s.current_round)
                      THEN [kind |-> "ProposalMsg", round |-> s.current_round,
                            block |-> [parent |-> s.qc, nonce |-> 1], sync_info |-> sync_info(s)]
                      ELSE None]
        /\ crashes = 0
  BY DEF Init
<1>2. \A v \in Active : certificates[v] \in SyncInfos
  BY RoundManagerAssumption DEF SyncInfos
<1>3. /\ node \in [Active -> States]
      /\ \A v \in Active : node[v].current_round = NextRound(node[v])
  BY <1>1, <1>2, RecoveredType
<1>4. ASSUME NEW d \in Places
      PROVE  MessageOK(channel[d]) /\ (channel[d] # None => channel[d].kind = d[3])
  <2> DEFINE s == Recovered(certificates[d[1]])
             msg == [kind |-> "ProposalMsg", round |-> s.current_round,
                     block |-> [parent |-> s.qc, nonce |-> 1], sync_info |-> sync_info(s)]
  <2>1. \/ channel[d] = None
        \/ d[3] = "ProposalMsg" /\ channel[d] = msg
    BY <1>1, Zenon DEF Places
  <2>2. s \in States
    <3>1. d[1] \in Active
      BY DEF Places
    <3> QED BY <1>2, <3>1, RecoveredType
  <2> HIDE DEF s
  <2>3. msg.sync_info \in SyncInfos /\ msg.round \in Nat /\ msg.block \in Blocks
    BY <2>2, SyncInfoType DEF States, Blocks
  <2>4. msg.kind = "ProposalMsg"
    OBVIOUS
  <2> HIDE DEF msg
  <2>5. MessageOK(msg)
    BY <2>3, <2>4 DEF MessageOK
  <2> QED BY <2>1, <2>4, <2>5 DEF MessageOK
<1>5. DOMAIN channel = Places
  BY <1>1 DEF Places
<1>6. ChannelOK(channel)
  BY <1>4, <1>5 DEF ChannelOK
<1> QED BY <1>1, <1>3, <1>6 DEF IInv

----------------------------------------------------------------------------

(* The inductive invariant holds: in particular a validator is always in   *)
(* the round after its highest certificate.                                *)
THEOREM Invariance == Spec => []IInv
<1>1. IInv /\ [Next]_vars => IInv'
  BY NextStep DEF StepOK
<1> QED BY <1>1, InitIInv, PTL DEF Spec

(* Neither late messages nor a restart take a validator back to an earlier *)
(* round, or beyond the round after its certificates.                      *)
THEOREM RoundsAdvance == Spec => RoundsAreCertified
<1>1. IInv /\ [Next]_vars =>
        [\A v \in Active :
            /\ node'[v].current_round >= node[v].current_round
            /\ node'[v].current_round = Max2(node'[v].qc, node'[v].tc) + 1]_vars
  BY NextStep DEF StepOK, Moves, NextRound
<1> QED BY <1>1, Invariance, PTL DEF Spec, RoundsAreCertified

(* The vote that SafetyRules keeps for a round is never replaced by one    *)
(* for another block of that round.                                        *)
THEOREM VotesStand == Spec => OneBlockPerRound
<1>1. IInv /\ [Next]_vars =>
        [\A v \in Active :
            node'[v].last_vote.round = node[v].last_vote.round
                => node'[v].last_vote.block = node[v].last_vote.block]_vars
  BY NextStep DEF StepOK, Moves
<1> QED BY <1>1, Invariance, PTL DEF Spec, OneBlockPerRound

=============================================================================
