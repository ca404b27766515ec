---------------------------- MODULE RaftForwards ----------------------------
(***************************************************************************)
(* A forwarded client transaction climbs to a later term or to the leader: *)
(* whoever sends AppendEntries, or is taken for the leader, was elected in *)
(* that term (WasElected).  Every action of module Raft keeps ForwardInv.  *)
(***************************************************************************)
EXTENDS RaftProofs

USE SMTT(30), ZenonT(30)
----------------------------------------------------------------------------
(* Leaders followed: what the steps have in common.                        *)

\* A peer's leader is new only if a message of that leader's term says so.
LeaderSources ==
    \A p \in Peers : leaderId'[p] \in Peers \ {p} =>
        \/ leaderId'[p] = leaderId[p] /\ currentTerm'[p] = currentTerm[p]
        \/ \E m \in msgs : /\ m.type = "AppendEntries"
                           /\ m.from = leaderId'[p]
                           /\ m.term = currentTerm'[p]

\* Only leaders send entries, and nobody sends to itself.
EntrySources ==
    \A m \in msgs' \ msgs :
        /\ Replication(m) => m.from # m.to
        /\ m.type = "AppendEntries" => /\ m.from \in Peers
                                       /\ role'[m.from] = "Leader"
                                       /\ currentTerm'[m.from] = m.term

LEMMA ForwardStep ==
    ASSUME ForwardInv, ElectionInv, ElectionInv', MajoritiesMeet, VotesKept,
           CandidatesCount, LeadersCounted, LeadersStay, LeaderSources, EntrySources
    PROVE  ForwardInv' /\ ElectionKept
  <1>0. ElectionTypes
    BY DEF ElectionInv
  <1>1. ASSUME NEW m \in msgs', Replication(m) PROVE m.from # m.to
    BY <1>1 DEF ForwardInv, EntrySources
  <1>2. ASSUME NEW m \in msgs, m.type = "AppendEntries"
        PROVE  WasElected(m.from, m.term)'
    <2>1. m.from \in Peers /\ m.term \in Nat
      BY <1>0 DEF ElectionTypes
    <2>2. WasElected(m.from, m.term)
      BY <1>2 DEF ForwardInv
    <2> QED
      BY <2>1, <2>2, ElectedStays
  <1>3. ASSUME NEW m \in msgs', m.type = "AppendEntries", m \notin msgs
        PROVE  WasElected(m.from, m.term)'
    <2>1. /\ m.from \in Peers
          /\ role'[m.from] = "Leader"
          /\ currentTerm'[m.from] = m.term
      BY <1>3 DEF EntrySources
    <2> QED
      BY <2>1, LeaderElected
  <1>4. ASSUME NEW p \in Peers, leaderId'[p] \in Peers \ {p}
        PROVE  WasElected(leaderId[p], currentTerm[p])'
    <2>1. CASE leaderId'[p] = leaderId[p] /\ currentTerm'[p] = currentTerm[p]
      <3>1. currentTerm[p] \in Nat /\ leaderId[p] \in Peers
        BY <1>0, <1>4, <2>1 DEF ElectionTypes
      <3>2. WasElected(leaderId[p], currentTerm[p])
        BY <1>4, <2>1 DEF ForwardInv
      <3>3. ASSUME NEW q \in Peers, NEW t \in Nat, WasElected(q, t),
                   leaderId'[p] = q, currentTerm'[p] = t
            PROVE  WasElected(leaderId[p], currentTerm[p])'
        <4>1. WasElected(q, t)'
          BY <3>3, ElectedStays
        <4> QED
          BY <3>3, <4>1, Zenon DEF WasElected, Leads, ElectedBy, Voted
      <3> QED
        BY <2>1, <3>1, <3>2, <3>3
    <2>2. CASE \E m \in msgs : /\ m.type = "AppendEntries"
                               /\ m.from = leaderId'[p]
                               /\ m.term = currentTerm'[p]
      <3>1. PICK m \in msgs : /\ m.type = "AppendEntries"
                              /\ m.from = leaderId'[p]
                              /\ m.term = currentTerm'[p]
        BY <2>2
      <3>2. WasElected(m.from, m.term)'
        BY <3>1, <1>2
      <3> QED
        BY <3>1, <3>2, Zenon DEF WasElected, Leads, ElectedBy, Voted
    <2> QED
      BY <1>4, <2>1, <2>2 DEF LeaderSources
  <1> QED
    BY <1>1, <1>2, <1>3, <1>4 DEF ForwardInv, ElectionKept

\* The same for a step that asks for, gives and counts no votes.
LEMMA QuietForward ==
    ASSUME ForwardInv, ElectionInv, ElectionInv', MajoritiesMeet, VotesKept,
           NoNewVotes, LeadersStay, LeaderSources, EntrySources
    PROVE  ForwardInv' /\ ElectionKept
  <1>1. ASSUME NEW r \in Peers, NEW x \in Peers, role'[r] = "Candidate",
               VotesFor(x, r)'
        PROVE  MayCount(x, r)
    BY <1>1 DEF VotesFor, NoNewVotes, MayCount
  <1>2. CandidatesCount
    BY <1>1 DEF CandidatesCount
  <1>3. LeadersCounted
    BY DEF LeadersCounted, NoNewVotes
  <1> QED
    BY <1>2, <1>3, ForwardStep

\* A step that leaves elections alone.
LEMMA ReplicationForward ==
    ASSUME ForwardInv, ElectionInv, ElectionInv', MajoritiesMeet,
           UNCHANGED electionVars, ReplicationMessages, EntrySources
    PROVE  ForwardInv' /\ ElectionKept
  <1> USE DEF electionVars
  <1>1. VotesKept
    BY DEF VotesKept, ElectionInv, ElectionTypes
  <1>2. NoNewVotes
    BY DEF NoNewVotes, ReplicationMessages, Grant
  <1>3. LeadersStay /\ LeaderSources
    BY DEF LeadersStay, LeaderSources
  <1> QED
    BY <1>1, <1>2, <1>3, QuietForward, Zenon

\* A peer p becomes or stays a follower of a later term, or of its own if it
\* does not lead it.
LEMMA FollowerForward ==
    ASSUME ForwardInv, ElectionInv, ElectionInv', MajoritiesMeet,
           NEW p \in Peers, NEW t \in Nat, t >= currentTerm[p],
           NEW vote, NEW leader,
           t = currentTerm[p] => /\ votedFor[p] \in {None, vote}
                                 /\ role[p] # "Leader",
           \/ leader = None
           \/ \E m \in msgs : /\ m.type = "AppendEntries"
                              /\ m.from = leader
                              /\ m.term = t,
           currentTerm' = [currentTerm EXCEPT ![p] = t],
           votedFor' = [votedFor EXCEPT ![p] = vote],
           leaderId' = [leaderId EXCEPT ![p] = leader],
           role' = [role EXCEPT ![p] = "Follower"],
           votesReceived' = [votesReceived EXCEPT ![p] = {}],
           \A m \in msgs' \ msgs : /\ m.type = "AppendEntriesResponse"
                                   /\ m.from # m.to
    PROVE  ForwardInv' /\ ElectionKept
  <1>0. ElectionTypes /\ None \notin Peers
    BY RaftAssumption, Zenon DEF ElectionInv
  <1>1. VotesKept
    BY <1>0 DEF VotesKept, ElectionTypes
  <1>2. NoNewVotes
    BY <1>0 DEF NoNewVotes, ElectionTypes, Grant
  <1>3. LeadersStay
    BY <1>0 DEF LeadersStay, ElectionTypes
  <1>4. LeaderSources
    BY <1>0 DEF LeaderSources, ElectionTypes
  <1>5. EntrySources
    BY DEF EntrySources
  <1> QED
    BY <1>1, <1>2, <1>3, <1>4, <1>5, QuietForward, Zenon
----------------------------------------------------------------------------
(* Leaders followed: the steps.                                            *)

LEMMA TickForward ==
    ASSUME ForwardInv, ElectionInv, ElectionInv', MajoritiesMeet,
           NEW p \in Peers, IdleTick(p) \/ Heartbeat(p)
    PROVE  ForwardInv' /\ ElectionKept
  <1>1. /\ votesReceived' =
               [votesReceived EXCEPT ![p] = @ \cap TickParticipants(p)]
        /\ UNCHANGED <<currentTerm, votedFor, leaderId, role>>
    BY DEF IdleTick, Heartbeat
  <1>2. \A m \in msgs' \ msgs : /\ m.type = "AppendEntries"
                                /\ m.from = p
                                /\ m.to # p
                                /\ m.term = currentTerm[p]
                                /\ role[p] = "Leader"
    <2>1. CASE IdleTick(p)
      BY <2>1 DEF IdleTick
    <2>2. CASE Heartbeat(p)
      <3> DEFINE AE == AppendEntriesForFollowers(p, TickParticipants(p),
                           currentTerm[p], log[p], RetainedMatch(p), store[p])
      <3>1. \A m \in AE : /\ m.type = "AppendEntries"
                          /\ m.from = p
                          /\ m.to \in TickParticipants(p) \ {p}
                          /\ m.term = currentTerm[p]
        BY AppendEntriesSent
      <3>2. Exchange({}, AE) /\ role[p] = "Leader"
        BY <2>2, Zenon DEF Heartbeat
      <3> HIDE DEF AE
      <3>3. msgs' \subseteq msgs \cup AE
        BY <3>2, ExchangeAdds
      <3> QED
        BY <3>1, <3>2, <3>3, Zenon
    <2> QED
      BY <2>1, <2>2, Zenon
  <1>3. VotesKept
    BY <1>1, Zenon DEF VotesKept
  <1>4. NoNewVotes
    BY <1>1, <1>2, Zenon DEF NoNewVotes, Grant, ElectionInv, ElectionTypes
  <1>5. LeadersStay /\ LeaderSources
    BY <1>1, Zenon DEF LeadersStay, LeaderSources
  <1>6. EntrySources
    BY <1>1, <1>2 DEF EntrySources
  <1> QED
    BY <1>3, <1>4, <1>5, <1>6, QuietForward, Zenon

LEMMA NewerTermForward ==
    ASSUME ForwardInv, ElectionInv, ElectionInv', MajoritiesMeet,
           NEW p \in Peers, NEW m \in msgs, HandleNewerTerm(p, m)
    PROVE  ForwardInv' /\ ElectionKept
  <1>1. /\ m.term \in Nat
        /\ m.term >= currentTerm[p]
        /\ m.term # currentTerm[p]
    <2>1. m.term > currentTerm[p]
      BY Zenon DEF HandleNewerTerm
    <2>2. m.term \in Nat /\ currentTerm[p] \in Nat
      BY Zenon DEF ElectionInv, ElectionTypes
    <2> QED
      BY <2>1, <2>2
  <1>2. msgs' \subseteq msgs \cup {}
    BY ExchangeAdds DEF HandleNewerTerm
  <1> QED
    BY <1>1, <1>2, FollowerForward, Zenon DEF HandleNewerTerm, StepDown

LEMMA ReceiveEntriesForward ==
    ASSUME ForwardInv, ElectionInv, ElectionInv', MajoritiesMeet,
           NEW p \in Peers, NEW m \in msgs,
           RejectLeader(p, m) \/ RejectEntries(p, m) \/ AcceptEntries(p, m)
    PROVE  ForwardInv' /\ ElectionKept
  <1>1. /\ m.type = "AppendEntries"
        /\ m.to = p
        /\ m.from # p
        /\ m.from \in Peers
        /\ m.term \in Nat
        /\ currentTerm[p] \in Nat
        /\ WasElected(m.from, m.term)
    BY Zenon DEF ElectionInv, ElectionTypes, ForwardInv, Replication,
           RejectLeader, RejectEntries, AcceptEntries
  <1>2. \A n \in msgs' \ msgs : /\ n.type = "AppendEntriesResponse"
                                /\ n.from = p
                                /\ n.to = m.from
                                /\ n.term \in Nat
    <2>1. ASSUME NEW term \in Nat, NEW success, NEW match,
                 Exchange({m}, AppendEntriesResponse(p, m, term, success, match))
          PROVE  \A n \in msgs' \ msgs : /\ n.type = "AppendEntriesResponse"
                                         /\ n.from = p
                                         /\ n.to = m.from
                                         /\ n.term \in Nat
      <3>1. msgs' \subseteq msgs \cup AppendEntriesResponse(p, m, term, success, match)
        BY <2>1, ExchangeAdds
      <3> QED
        BY <3>1 DEF AppendEntriesResponse, SendTo
    <2> QED
      BY <1>1, <2>1, Zenon DEF RejectLeader, RejectEntries, AcceptEntries
  <1>3. CASE RejectLeader(p, m)
    <2>1. ReplicationMessages /\ EntrySources
      BY <1>1, <1>2 DEF ReplicationMessages, EntrySources
    <2> QED
      BY <1>3, <2>1, ReplicationForward DEF RejectLeader
  <1>4. CASE RejectEntries(p, m) \/ AcceptEntries(p, m)
    <2>1. FollowLeader(p, m) /\ m.term >= currentTerm[p]
      BY <1>4, AcceptedTerm, Zenon DEF RejectEntries, AcceptEntries
    <2>2. m.term = currentTerm[p] => role[p] # "Leader"
      BY <1>1 DEF WasElected, ElectedBy
    <2> DEFINE vote == IF m.term > currentTerm[p] THEN None ELSE votedFor[p]
    <2>3. m.term = currentTerm[p] => votedFor[p] \in {None, vote}
      BY <1>1
    <2>4. votedFor' = [votedFor EXCEPT ![p] = vote]
      BY <2>1 DEF FollowLeader
    <2> HIDE DEF vote
    <2> QED
      BY <1>1, <1>2, <2>1, <2>2, <2>3, <2>4, FollowerForward, Zenon DEF FollowLeader
  <1> QED
    BY <1>3, <1>4

LEMMA AnswerForward ==
    ASSUME ForwardInv, ElectionInv, ElectionInv', MajoritiesMeet,
           NEW p \in Peers, NEW m \in msgs,
           \/ HandleAppendEntriesSuccess(p, m)
           \/ HandleAppendEntriesFailure(p, m)
           \/ IgnoreAnswer(p, m)
    PROVE  ForwardInv' /\ ElectionKept
  <1>1. CASE HandleAppendEntriesSuccess(p, m) \/ IgnoreAnswer(p, m)
    <2>1. msgs' \subseteq msgs \cup {} /\ UNCHANGED electionVars
      BY <1>1, ExchangeAdds DEF HandleAppendEntriesSuccess, IgnoreAnswer
    <2> QED
      BY <2>1, ReplicationForward DEF ReplicationMessages, EntrySources
  <1>2. CASE HandleAppendEntriesFailure(p, m)
    <2> DEFINE held  == MinOf(m.matchIndex, Len(log[p]))
               match == [matchIndexes[p] EXCEPT ![m.from] = held]
               AE    == AppendEntriesFor(p, m.from, currentTerm[p], log[p], match,
                                         store[p])
    <2>1. Exchange({m}, SendTo(p, IF held >= Len(log[p]) THEN {} ELSE AE))
      BY <1>2, Zenon DEF HandleAppendEntriesFailure
    <2>2. msgs' \subseteq msgs \cup AE
      BY <2>1, ExchangeAdds, Zenon DEF SendTo
    <2>3. \A n \in AE : /\ n.type = "AppendEntries"
                        /\ n.from = p
                        /\ n.to = m.from
                        /\ n.term = currentTerm[p]
      BY AppendEntriesForSent
    <2>4. /\ currentTerm[p] \in Nat
          /\ m.from \in Peers
          /\ m.from # p
          /\ role[p] = "Leader"
          /\ UNCHANGED electionVars
      BY <1>2, Zenon DEF ElectionInv, ElectionTypes, ForwardInv, Replication,
                  HandleAppendEntriesFailure, CountsAnswer
    <2> HIDE DEF AE
    <2>5. ReplicationMessages
      BY <2>2, <2>3, <2>4, Zenon DEF ReplicationMessages
    <2>6. EntrySources
      BY <2>2, <2>3, <2>4, Zenon DEF EntrySources, electionVars
    <2> QED
      BY <2>4, <2>5, <2>6, ReplicationForward, Zenon
  <1> QED
    BY <1>1, <1>2

LEMMA ClientTransactionForward ==
    ASSUME ForwardInv, ElectionInv, ElectionInv', MajoritiesMeet,
           NEW p \in Peers, NEW tx, ClientTransaction(p, tx)
    PROVE  ForwardInv' /\ ElectionKept
  <1> DEFINE hash == NewBlock(store[p], store[p].mempool \cup {tx}).hash
             s    == StageClientTransaction(store[p], tx)
  <1>1. /\ participants[p] \in SUBSET Peers
        /\ currentTerm[p] \in Nat
        /\ role[p] = "Leader"
        /\ UNCHANGED electionVars
    BY Zenon DEF ElectionInv, ElectionTypes, ClientTransaction
  <1>2. \/ AppendAsLeader(p, participants[p], currentTerm[p], hash,
                          matchIndexes[p], s, {}, {})
        \/ UNCHANGED msgs
    BY Zenon DEF ClientTransaction
  <1> HIDE DEF hash, s
  <1>3. \A n \in msgs' \ msgs : /\ n.type = "AppendEntries"
                                /\ n.from = p
                                /\ n.to \in Peers \ {p}
                                /\ n.term = currentTerm[p]
    <2>1. CASE AppendAsLeader(p, participants[p], currentTerm[p], hash,
                              matchIndexes[p], s, {}, {})
      <3> DEFINE none == {}
      <3>1. AppendAsLeader(p, participants[p], currentTerm[p], hash,
                           matchIndexes[p], s, none, {})
        BY <2>1, Zenon
      <3> HIDE DEF none
      <3> QED
        BY <1>1, <3>1, AppendOnlySends
    <2> QED
      BY <1>2, <2>1, Zenon
  <1>4. ReplicationMessages /\ EntrySources
    BY <1>1, <1>3 DEF ReplicationMessages, EntrySources, electionVars
  <1> QED
    BY <1>1, <1>4, ReplicationForward, Zenon

LEMMA RequestVoteForward ==
    ASSUME ForwardInv, ElectionInv, ElectionInv', MajoritiesMeet,
           NEW p \in Peers, NEW m \in msgs, HandleRequestVote(p, m)
    PROVE  ForwardInv' /\ ElectionKept
  <1> DEFINE reply == [type |-> "RequestVoteResponse", from |-> p, to |-> m.from,
                       term |-> MaxOf(currentTerm[p], m.term),
                       granted |-> GrantsVote(p, m)]
  <1>0. ElectionTypes /\ None \notin Peers
    BY RaftAssumption DEF ElectionInv
  <1>1. /\ m.from \in Peers
        /\ m.term \in Nat
        /\ currentTerm[p] \in Nat
        /\ votedFor[p] \in Peers \cup {None}
    BY <1>0 DEF ElectionTypes
  <1>2. msgs' \subseteq msgs \cup {reply}
    BY ExchangeAdds DEF HandleRequestVote, SendTo
  <1>3. VotesKept
    BY <1>0, <1>1, Zenon DEF VotesKept, ElectionTypes, HandleRequestVote, VoteInTerm,
                      GrantsVote, MaxOf
  <1>4. \A r \in Peers : role'[r] # "Follower" =>
            /\ role'[r] = role[r]
            /\ currentTerm'[r] = currentTerm[r]
            /\ votesReceived'[r] = votesReceived[r]
    BY <1>0, <1>1, Zenon DEF HandleRequestVote, MaxOf, ElectionTypes
  <1>5. /\ reply.type = "RequestVoteResponse"
        /\ reply.from = p
        /\ reply.to = m.from
        /\ reply.granted = GrantsVote(p, m)
        /\ GrantsVote(p, m) => reply.term = m.term
    <2>1. GrantsVote(p, m) => MaxOf(currentTerm[p], m.term) = m.term
      <3>1. GrantsVote(p, m) => m.term >= currentTerm[p]
        BY DEF GrantsVote
      <3>2. m.term >= currentTerm[p] => MaxOf(currentTerm[p], m.term) = m.term
        BY <1>1 DEF MaxOf
      <3> QED
        BY <3>1, <3>2
    <2>2. /\ reply.type = "RequestVoteResponse"
          /\ reply.from = p
          /\ reply.to = m.from
          /\ reply.granted = GrantsVote(p, m)
          /\ reply.term = MaxOf(currentTerm[p], m.term)
      BY Zenon
    <2> QED
      BY <2>1, <2>2, Zenon
  <1> HIDE DEF reply
  <1>6. CandidatesCount
    <2>1. SUFFICES ASSUME NEW r \in Peers, role'[r] = "Candidate", NEW x \in Peers,
                          VotesFor(x, r)', ~VotesFor(x, r), NEW q \in Peers \ {r}
                   PROVE  ~Voted(x, q, currentTerm[r])
      BY <1>4 DEF CandidatesCount, MayCount
    <2>2. /\ GrantsVote(p, m)
          /\ x = p
          /\ r = m.from
          /\ currentTerm[r] = m.term
      BY <1>2, <1>4, <1>5, <2>1 DEF VotesFor, Grant
    <2> QED
      BY <2>1, <2>2, FreeVote
  <1>7. LeadersCounted
    BY <1>4, Zenon DEF LeadersCounted
  <1>8. LeadersStay
    BY <1>0, <1>1, Zenon DEF LeadersStay, HandleRequestVote, MaxOf, ElectionTypes
  <1>9. LeaderSources
    BY <1>0, <1>1, Zenon DEF LeaderSources, HandleRequestVote, LeaderInTerm, MaxOf,
                      ElectionTypes
  <1>10. EntrySources
    BY <1>2, <1>5 DEF EntrySources, Replication
  <1> QED
    BY <1>3, <1>6, <1>7, <1>8, <1>9, <1>10, ForwardStep

LEMMA StartElectionForward ==
    ASSUME ForwardInv, ElectionInv, ElectionInv', MajoritiesMeet,
           NEW p \in Peers, StartElection(p)
    PROVE  ForwardInv' /\ ElectionKept
  <1> DEFINE Q    == TickParticipants(p)
             term == currentTerm[p] + 1
             wins == IsMajority({p}, Q)
             ask  == [type : {"RequestVote"}, from : {p}, to : known[p],
                      term : {term}, lastLogIndex : {Len(log[p])},
                      lastLogTerm : {LastLogTerm(log[p])}]
  <1>0. ElectionTypes /\ None \notin Peers
    BY RaftAssumption DEF ElectionInv
  <1>1. /\ currentTerm[p] \in Nat
        /\ Q \in SUBSET Peers
        /\ term \in Nat
        /\ term > currentTerm[p]
        /\ role[p] # "Leader"
    <2>1. /\ currentTerm[p] \in Nat
          /\ TickParticipants(p) \in SUBSET Peers
      BY <1>0, Zenon DEF ElectionTypes, TickParticipants
    <2>2. role[p] # "Leader"
      BY Zenon DEF StartElection
    <2>3. /\ term \in Nat
          /\ term > currentTerm[p]
      BY <2>1
    <2> QED
      BY <2>1, <2>2, <2>3
  <1>2. /\ currentTerm' = [currentTerm EXCEPT ![p] = term]
        /\ votedFor' = [votedFor EXCEPT ![p] = p]
        /\ leaderId' = [leaderId EXCEPT ![p] = IF wins THEN p ELSE None]
        /\ role' = [role EXCEPT ![p] = IF wins THEN "Leader" ELSE "Candidate"]
        /\ votesReceived' = [votesReceived EXCEPT ![p] = {p}]
    BY Zenon DEF StartElection
  <1>3. \A n \in msgs' \ msgs :
            \/ n.type = "RequestVote"
            \/ /\ wins
               /\ n.type = "AppendEntries"
               /\ n.from = p
               /\ n.to # p
               /\ n.term = term
    <2>1. \A n \in ask : n.type = "RequestVote"
      BY Zenon
    <2>2. CASE /\ wins
               /\ AppendAsLeader(p, Q, term, EmptyHash, NewLeaderMatch(p),
                                 store[p], {}, ask)
      <3> DEFINE none == {}
      <3>1. /\ wins
            /\ AppendAsLeader(p, Q, term, EmptyHash, NewLeaderMatch(p), store[p],
                              none, ask)
        BY <2>2, Zenon
      <3> HIDE DEF Q, ask, none, term, wins
      <3>2. \A n \in msgs' \ (msgs \cup ask) :
                /\ n.type = "AppendEntries"
                /\ n.from = p
                /\ n.to \in Peers \ {p}
                /\ n.term = term
        BY <1>1, <3>1, AppendAsLeaderSends
      <3> QED
        BY <2>1, <3>1, <3>2, Zenon
    <2>3. CASE Exchange({}, ask)
      <3> HIDE DEF ask
      <3>1. msgs' \subseteq msgs \cup ask
        BY <2>3, ExchangeAdds, Zenon
      <3> QED
        BY <2>1, <3>1
    <2> QED
      BY <2>2, <2>3, Zenon DEF StartElection
  <1>4. PICK v \in Views : Q = v \cup {p}
    <2>1. ViewsOK(p)
      BY Zenon DEF ElectionInv
    <2> QED
      BY <2>1 DEF ViewsOK, TickParticipants
  <1>5. wins => IsMajority({p}, v \cup {p})
    BY <1>4
  <1> HIDE DEF Q, ask, term, wins
  <1>6. /\ currentTerm'[p] = term
        /\ votesReceived'[p] = {p}
        /\ role'[p] = IF wins THEN "Leader" ELSE "Candidate"
        /\ leaderId'[p] = IF wins THEN p ELSE None
        /\ \A r \in Peers \ {p} : /\ currentTerm'[r] = currentTerm[r]
                                  /\ votedFor'[r] = votedFor[r]
                                  /\ leaderId'[r] = leaderId[r]
                                  /\ role'[r] = role[r]
                                  /\ votesReceived'[r] = votesReceived[r]
    BY <1>0, <1>2 DEF ElectionTypes
  <1>7. VotesKept
    BY <1>0, <1>1, <1>6 DEF VotesKept, ElectionTypes
  <1>8. MayCount(p, p)
    BY <1>1, <1>6 DEF MayCount, Voted
  <1>9. \A n \in msgs' : Grant(n) => n \in msgs
    BY <1>3 DEF Grant
  <1>10. CandidatesCount
    <2>1. SUFFICES ASSUME NEW r \in Peers, role'[r] = "Candidate", NEW x \in Peers,
                          VotesFor(x, r)'
                   PROVE  MayCount(x, r)
      BY Zenon DEF CandidatesCount
    <2>2. CASE r # p
      BY <1>6, <1>9, <2>1, <2>2 DEF VotesFor, MayCount
    <2>3. CASE r = p
      <3>1. ASSUME NEW n \in msgs', Grant(n), n.to = p, n.term = currentTerm'[p]
            PROVE  FALSE
        <4>1. n \in msgs
          BY <1>9, <3>1
        <4>2. n.term <= currentTerm[p]
          BY <3>1, <4>1, Zenon DEF MessageOK, ElectionInv
        <4> QED
          BY <3>1, <4>2, <1>1, <1>6
      <3>2. x = p
        BY <1>6, <2>1, <2>3, <3>1, Zenon DEF VotesFor
      <3> QED
        BY <2>3, <3>2, <1>8, Zenon
    <2> QED
      BY <2>2, <2>3
  <1>11. LeadersCounted
    <2>1. ASSUME role'[p] = "Leader" PROVE MayCountMajority(p)
      <3>1. IsMajority({p}, v \cup {p})
        BY <1>5, <1>6, <2>1
      <3>2. /\ {p} \in SUBSET Peers
            /\ {p} \subseteq v \cup {p}
            /\ \A x \in {p} : MayCount(x, p)
        BY <1>8, Zenon
      <3> QED
        BY <3>1, <3>2, Zenon DEF MayCountMajority
    <2> QED
      BY <1>6, <2>1 DEF LeadersCounted
  <1>12. LeadersStay /\ LeaderSources
    BY <1>0, <1>1, <1>6 DEF LeadersStay, LeaderSources, ElectionTypes
  <1>13. EntrySources
    BY <1>3, <1>6 DEF EntrySources, Replication
  <1> QED
    BY <1>7, <1>10, <1>11, <1>12, <1>13, ForwardStep

LEMMA VoteForward ==
    ASSUME ForwardInv, ElectionInv, ElectionInv', MajoritiesMeet,
           NEW p \in Peers, NEW m \in msgs, HandleVote(p, m)
    PROVE  ForwardInv' /\ ElectionKept
  <1> DEFINE votes == votesReceived[p] \cup {m.from}
             wins  == IsMajority(votes, participants[p])
  <1>0. ElectionTypes /\ None \notin Peers
    BY RaftAssumption DEF ElectionInv
  <1>1. /\ role[p] = "Candidate"
        /\ Grant(m)
        /\ m.to = p
        /\ m.from \in participants[p]
        /\ m.term = currentTerm[p]
        /\ votesReceived' = [votesReceived EXCEPT ![p] = votes]
        /\ UNCHANGED <<participants, currentTerm, votedFor>>
    BY Zenon DEF HandleVote, CountsVote, Grant, viewVars
  <1>2. /\ currentTerm[p] \in Nat
        /\ participants[p] \in SUBSET Peers
        /\ votes \in SUBSET Peers
        /\ votesReceived'[p] = votes
        /\ \A r \in Peers \ {p} : votesReceived'[r] = votesReceived[r]
        /\ \A x \in votes : VotesFor(x, p)
    BY <1>0, <1>1, Zenon DEF ElectionTypes, VotesFor
  <1>3. /\ votes \subseteq participants[p]
        /\ \E v \in Views : participants[p] = v \cup {p}
    BY <1>1, Zenon DEF ViewsOK, ElectionInv
  <1>4. \/ /\ wins
           /\ role' = [role EXCEPT ![p] = "Leader"]
           /\ leaderId' = [leaderId EXCEPT ![p] = p]
           /\ AppendAsLeader(p, participants[p], currentTerm[p], EmptyHash,
                             NewLeaderMatch(p), store[p], {m}, {})
        \/ /\ Exchange({m}, {})
           /\ UNCHANGED <<role, leaderId>>
    BY Zenon DEF HandleVote
  <1> HIDE DEF wins
  <1>5. \/ /\ wins
           /\ role'[p] = "Leader"
           /\ leaderId'[p] = p
           /\ \A r \in Peers \ {p} : role'[r] = role[r] /\ leaderId'[r] = leaderId[r]
           /\ \A n \in msgs' \ msgs : /\ n.type = "AppendEntries"
                                      /\ n.from = p
                                      /\ n.to \in Peers \ {p}
                                      /\ n.term = currentTerm[p]
        \/ /\ msgs' \subseteq msgs
           /\ UNCHANGED <<role, leaderId>>
    <2>1. CASE /\ wins
               /\ role' = [role EXCEPT ![p] = "Leader"]
               /\ leaderId' = [leaderId EXCEPT ![p] = p]
               /\ AppendAsLeader(p, participants[p], currentTerm[p], EmptyHash,
                                 NewLeaderMatch(p), store[p], {m}, {})
      <3>1. \A n \in msgs' \ msgs : /\ n.type = "AppendEntries"
                                    /\ n.from = p
                                    /\ n.to \in Peers \ {p}
                                    /\ n.term = currentTerm[p]
        <4>1. AppendAsLeader(p, participants[p], currentTerm[p], EmptyHash,
                             NewLeaderMatch(p), store[p], {m}, {})
          BY <2>1, Zenon
        <4> QED
          BY <1>2, <4>1, AppendOnlySends
      <3> QED
        BY <1>0, <2>1, <3>1, Zenon DEF ElectionTypes
    <2>2. CASE /\ Exchange({m}, {})
               /\ UNCHANGED <<role, leaderId>>
      <3>1. msgs' \subseteq msgs \cup {}
        BY <2>2, ExchangeAdds
      <3> QED
        BY <2>2, <3>1
    <2> QED
      BY <1>4, <2>1, <2>2, Zenon
  <1>6. VotesKept
    BY <1>1 DEF VotesKept
  <1>7. \A n \in msgs' : Grant(n) => n \in msgs
    BY <1>5 DEF Grant
  <1>8. CandidatesCount
    <2>1. SUFFICES ASSUME NEW r \in Peers, role'[r] = "Candidate", NEW x \in Peers,
                          VotesFor(x, r)'
                   PROVE  VotesFor(x, r) /\ role[r] = "Candidate"
      BY <1>1 DEF CandidatesCount, MayCount
    <2>2. role[r] = "Candidate"
      BY <1>5, <2>1
    <2>3. VotesFor(x, r)
      BY <1>1, <1>2, <1>7, <2>1 DEF VotesFor
    <2> QED
      BY <2>2, <2>3
  <1>9. \A x \in votes : MayCount(x, p)
    BY <1>1, <1>2, Zenon DEF MayCount
  <1> HIDE DEF votes
  <1>10. LeadersCounted
    <2>1. ASSUME role'[p] = "Leader" PROVE MayCountMajority(p)
      BY <1>1, <1>2, <1>3, <1>5, <1>9, <2>1, Zenon
         DEF MayCountMajority, wins
    <2> QED
      BY <1>1, <1>5, <2>1, Zenon DEF LeadersCounted
  <1>11. LeadersStay /\ LeaderSources
    BY <1>1, <1>5, Zenon DEF LeadersStay, LeaderSources
  <1>12. EntrySources
    BY <1>1, <1>5 DEF EntrySources, Replication
  <1> QED
    BY <1>6, <1>8, <1>10, <1>11, <1>12, ForwardStep, Zenon
----------------------------------------------------------------------------
(* Forwards climb.                                                         *)

LEMMA NextForward ==
    ASSUME ForwardInv, ElectionInv, ElectionInv', MajoritiesMeet, [Next]_vars
    PROVE  ForwardInv' /\ ElectionKept
  <1>1. ASSUME UNCHANGED <<electionVars, msgs>> PROVE ForwardInv' /\ ElectionKept
    <2>1. ReplicationMessages /\ EntrySources
      BY <1>1 DEF ReplicationMessages, EntrySources
    <2> QED
      BY <1>1, <2>1, ReplicationForward
  <1>2. CASE UNCHANGED vars
    BY <1>1, <1>2 DEF vars
  <1>3. ASSUME NEW p \in Peers, Tick(p) PROVE ForwardInv' /\ ElectionKept
    <2>1. CASE UpdatePeers(p)
      BY <1>1, <2>1 DEF UpdatePeers
    <2> QED
      BY <1>3, <2>1, TickForward, StartElectionForward DEF Tick
  <1>4. ASSUME NEW p \in Peers, NEW m \in msgs, Receive(p, m)
        PROVE  ForwardInv' /\ ElectionKept
    BY <1>4, RequestVoteForward, NewerTermForward, VoteForward,
       ReceiveEntriesForward, AnswerForward DEF Receive
  <1>5. ASSUME NEW p \in Peers, NEW tx \in Txs, ClientTransaction(p, tx)
        PROVE  ForwardInv' /\ ElectionKept
    BY <1>5, ClientTransactionForward
  <1> QED
    BY <1>2, <1>3, <1>4, <1>5 DEF Next

\* forward_client_transaction always sends to the leader of this peer's term or
\* to a peer of a later term: chains of forwards end, whatever the peers
\* know of each other and however late an AppendEntries arrives.
THEOREM ForwardsClimb ==
    MajoritiesMeet => (Spec => []ForwardsUpwards)
  <1> SUFFICES ASSUME MajoritiesMeet PROVE Spec => []ForwardsUpwards
    OBVIOUS
  <1>1. Spec => []ElectionInv
    BY ElectionInvariant
  <1>2. Init => ForwardInv
    BY RaftAssumption DEF Init, ForwardInv
  <1>3. ForwardInv /\ ElectionInv /\ ElectionInv' /\ [Next]_vars => ForwardInv'
    BY NextForward, Zenon
  <1>4. ForwardInv => ForwardsUpwards
    BY DEF ForwardInv, ForwardsUpwards, WasElected, Leads
  <1> QED
    BY <1>1, <1>2, <1>3, <1>4, PTL DEF Spec
=============================================================================
