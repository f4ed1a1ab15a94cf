---------------------------- MODULE PendingVotes ----------------------------
(***************************************************************************)
(* The aggregation of the votes of one round: PendingVotes, which a round  *)
(* state creates for each round.  Votes come in any order, any number of   *)
(* times, with or without a timeout signature.  Honest validators vote for *)
(* one LedgerInfo in a round (module SafetyRules), with a timeout          *)
(* signature once their round timer has expired; Byzantine ones send       *)
(* anything that their key can sign.                                       *)
(*                                                                         *)
(* A vote is its author, the digest of its LedgerInfo (which commits to    *)
(* the VoteData) and whether it carries a timeout signature; signatures    *)
(* were verified before, so authors are validators.                        *)
(***************************************************************************)
EXTENDS ValidatorVerifier

CONSTANTS
    VotingPower,    \* validator -> its voting power
    Byzantine,
    LedgerInfos     \* the LedgerInfos that can be voted for in the round

Validators == DOMAIN VotingPower
Honest == Validators \ Byzantine
IsQuorum(authors) == check_voting_power(VotingPower, authors)

(* Byzantine validators hold less than a third of the voting power.        *)
ASSUME PowerAssumption ==
    /\ IsFiniteSet(Validators) /\ \A v \in Validators : VotingPower[v] \in Nat
    /\ Byzantine \subseteq Validators
    /\ 3 * aggregated_voting_power(VotingPower, Byzantine) < total_voting_power(VotingPower)

VARIABLES
    choice,         \* honest validator -> the LedgerInfo it votes for
    received,       \* the votes given to insert_vote so far
    author_to_vote,         \* the votes kept, at most one of each author
    li_digest_to_votes,     \* the signatures kept: <<LedgerInfo, author>>
    maybe_partial_tc,       \* the authors of the timeout signatures kept
    qcs, tcs        \* the certificates that insert_vote has returned

kept == <<author_to_vote, li_digest_to_votes, maybe_partial_tc>>
vars == <<choice, received, kept, qcs, tcs>>

Votes == [author : Validators, li : LedgerInfos, timeout : BOOLEAN]

TypeOK ==
    /\ choice \in [Honest -> LedgerInfos]
    /\ received \subseteq Votes
    /\ author_to_vote \subseteq received
    /\ li_digest_to_votes \subseteq LedgerInfos \X Validators
    /\ maybe_partial_tc \subseteq Validators
    /\ qcs \subseteq [li : LedgerInfos, signers : SUBSET Validators]
    /\ tcs \subseteq SUBSET Validators

Init ==
    /\ choice \in [Honest -> LedgerInfos]
    /\ received = {}
    /\ author_to_vote = {} /\ li_digest_to_votes = {} /\ maybe_partial_tc = {}
    /\ qcs = {} /\ tcs = {}

(* Faulty variant: a vote seen before is a duplicate, even if it has got a *)
(* timeout signature since.                                                *)
DuplicateVote_IgnoresTimeout(v) ==
    \E w \in author_to_vote : w.author = v.author /\ w.li = v.li

(* The same vote was kept before, unless the new one adds a timeout.       *)
DuplicateVote(v) ==
    \E w \in author_to_vote :
        w.author = v.author /\ w.li = v.li /\ ~(v.timeout /\ ~w.timeout)

(* Another vote of the same author was kept before.                        *)
EquivocateVote(v) ==
    \E w \in author_to_vote : w.author = v.author /\ w.li # v.li

(* Faulty variant: the vote is kept without its timeout signature.         *)
Store_NoTimeout(v) ==
    /\ author_to_vote' = {w \in author_to_vote : w.author # v.author}
                             \cup {[v EXCEPT !.timeout = FALSE]}
    /\ li_digest_to_votes' = li_digest_to_votes \cup {<<v.li, v.author>>}

(* Step 2 of insert_vote, and the signature added in step 3.               *)
Store(v) ==
    /\ author_to_vote' = {w \in author_to_vote : w.author # v.author} \cup {v}
    /\ li_digest_to_votes' = li_digest_to_votes \cup {<<v.li, v.author>>}

(* Faulty variant: the signatures of the whole round are counted together. *)
SignersWith_WholeRound(v) ==
    {s[2] : s \in li_digest_to_votes} \cup {v.author}

(* Faulty variant: the power is checked before v's signature is added.     *)
SignersWith_WithoutOwn(v) ==
    {a \in Validators : <<v.li, a>> \in li_digest_to_votes}

(* The signers of v's LedgerInfo once v's signature is added.              *)
SignersWith(v) ==
    {a \in Validators : <<v.li, a>> \in li_digest_to_votes} \cup {v.author}

(* Faulty variant: every vote counts as a timeout.                         *)
TimeoutsWith_EveryVote(v) == maybe_partial_tc \cup {v.author}

(* The signers of the partial TC once v's timeout, if any, is added.       *)
TimeoutsWith(v) == IF v.timeout THEN maybe_partial_tc \cup {v.author} ELSE maybe_partial_tc

----------------------------------------------------------------------------

(* Votes for other rounds never reach this point; the sender is bound only *)
(* by its own honesty.                                                     *)
Receive(v) ==
    /\ v.author \in Honest => v.li = choice[v.author]
    /\ received' = received \cup {v}
    /\ UNCHANGED choice

(* insert_vote returns DuplicateVote or EquivocateVote.                    *)
vote_rejected(v) ==
    /\ Receive(v)
    /\ DuplicateVote(v) \/ EquivocateVote(v)
    /\ UNCHANGED <<kept, qcs, tcs>>

(* insert_vote returns NewQuorumCertificate, before it looks at a timeout. *)
vote_completes_qc(v) ==
    /\ Receive(v)
    /\ ~DuplicateVote(v) /\ ~EquivocateVote(v)
    /\ Store(v)
    /\ IsQuorum(SignersWith(v))
    /\ qcs' = qcs \cup {[li |-> v.li, signers |-> SignersWith(v)]}
    /\ UNCHANGED <<maybe_partial_tc, tcs>>

(* insert_vote returns NewTimeoutCertificate.                              *)
vote_completes_tc(v) ==
    /\ Receive(v)
    /\ ~DuplicateVote(v) /\ ~EquivocateVote(v)
    /\ Store(v)
    /\ ~IsQuorum(SignersWith(v))
    /\ v.timeout
    /\ maybe_partial_tc' = TimeoutsWith(v)
    /\ IsQuorum(TimeoutsWith(v))
    /\ tcs' = tcs \cup {TimeoutsWith(v)}
    /\ UNCHANGED qcs

(* insert_vote returns VoteAdded.                                          *)
vote_added(v) ==
    /\ Receive(v)
    /\ ~DuplicateVote(v) /\ ~EquivocateVote(v)
    /\ Store(v)
    /\ ~IsQuorum(SignersWith(v))
    /\ maybe_partial_tc' = TimeoutsWith(v)
    /\ v.timeout => ~IsQuorum(TimeoutsWith(v))
    /\ UNCHANGED <<qcs, tcs>>

insert_vote(v) ==
    vote_rejected(v) \/ vote_completes_qc(v) \/ vote_completes_tc(v) \/ vote_added(v)

Next == \E v \in Votes : insert_vote(v)

Spec == Init /\ [][Next]_vars

----------------------------------------------------------------------------

(* A certificate that insert_vote returns is signed by a quorum, and by    *)
(* nobody who did not send that very vote, or that very timeout.           *)
CertificatesSound ==
    /\ \A q \in qcs : /\ IsQuorum(q.signers)
                      /\ \A a \in q.signers : \E v \in received : v.author = a /\ v.li = q.li
    /\ \A t \in tcs : /\ IsQuorum(t)
                      /\ \A a \in t : \E v \in received : v.author = a /\ v.timeout

(* A round yields a QC for one LedgerInfo at most, whatever the Byzantine  *)
(* validators send and in whatever order.                                  *)
OneQCPerRound == \A p, q \in qcs : p.li = q.li

(* No order of arrival loses a certificate: when the votes kept for a      *)
(* LedgerInfo are a quorum its QC has been returned, and when the timeouts *)
(* kept are a quorum a certificate that ends the round has been returned.  *)
NoCertificateLost ==
    /\ \A li \in LedgerInfos :
          IsQuorum({a \in Validators : \E w \in author_to_vote : w.author = a /\ w.li = li})
              => \E q \in qcs : q.li = li
    /\ IsQuorum({a \in Validators : \E w \in author_to_vote : w.author = a /\ w.timeout})
           => qcs # {} \/ tcs # {}

(* Once the timeout vote of every honest validator has come in, the round  *)
(* has a certificate: equivocations, duplicates and earlier votes without  *)
(* the timeout cannot prevent it.                                          *)
HonestTimeoutsSuffice ==
    (\A h \in Honest : \E v \in received : v.author = h /\ v.timeout)
        => qcs # {} \/ tcs # {}

=============================================================================
