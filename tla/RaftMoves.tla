----------------------------- MODULE RaftMoves ------------------------------
(***************************************************************************)
(* What every handler of module Raft does to logs, votes, acknowledgements *)
(* and commit indexes, as far as agreement depends on it: each action has  *)
(* LogShape and CommitShape.                                               *)
(***************************************************************************)
EXTENDS RaftLogProofs, RaftProofs

USE SMTT(30), ZenonT(30)
----------------------------------------------------------------------------
(* The shapes: logs.                                                       *)

LEMMA QuietShape ==
    ASSUME log' = log, NoNewLeader(Peers),
           \A m \in msgs' \ msgs : m.type # "AppendEntries"
    PROVE  LogShape
  BY DEF LogShape, SentByLeader

LEMMA SendingShape ==
    ASSUME NEW p \in Peers, role[p] = "Leader", UNCHANGED <<role, currentTerm, log>>,
           \A m \in msgs' \ msgs : m.type = "AppendEntries" =>
               /\ m.from = p
               /\ m.term = currentTerm[p]
               /\ Piece(m, log[p])
               /\ m.leaderCommit = commitIndex[p]
    PROVE  LogShape
  <1>1. NoNewLeader(Peers)
    BY DEF NoNewLeader
  <1>2. SentByLeader
    BY DEF SentByLeader
  <1> QED
    BY <1>1, <1>2 DEF LogShape

\* append_entries_effect_for sends a part of the leader's log.
LEMMA SentPiece ==
    ASSUME NEW p, NEW q, NEW term, NEW lg, IsSeq(lg), NEW match, match[q] \in Nat,
           NEW s, NEW m \in AppendEntriesFor(p, q, term, lg, match, s)
    PROVE  Piece(m, lg) /\ m.leaderCommit = commitIndex[p]
  <1> DEFINE prev  == MinOf(match[q], Len(lg))
             last  == MinOf(prev + MaxAppendEntries, Len(lg))
             batch == SubSeq(lg, prev + 1, last)
             file(e) == IF IsNoop(e) THEN 0 ELSE FindBlock(s, e.hash).index
             ents  == [i \in DOMAIN batch |->
                          [term |-> batch[i].term, hash |-> batch[i].hash,
                           index |-> file(batch[i])]]
  <1>1. /\ m.prevLogIndex = prev
        /\ m.prevLogTerm = TermAt(lg, prev)
        /\ m.entries = ents
        /\ m.leaderCommit = commitIndex[p]
    <2>1. m = [type |-> "AppendEntries", from |-> p, to |-> q, term |-> term,
               prevLogIndex |-> prev, prevLogTerm |-> TermAt(lg, prev),
               entries |-> ents, leaderCommit |-> commitIndex[p]]
      BY Zenon DEF AppendEntriesFor
    <2> HIDE DEF prev, ents
    <2> QED
      BY <2>1
  <1>2. Len(lg) \in Nat
    BY SeqFacts
  <1>3. prev \in 0 .. Len(lg)
    BY <1>2 DEF MinOf
  <1> HIDE DEF prev
  <1>4. last \in prev .. Len(lg)
    BY <1>2, <1>3, RaftAssumption DEF MinOf
  <1> HIDE DEF last
  <1>5. PICK n \in Nat : n = last - prev
    BY <1>2, <1>3, <1>4
  <1>6. /\ DOMAIN batch = 1 .. n
        /\ \A i \in 1 .. n : batch[i] = lg[prev + i]
    <2>1. DOMAIN batch = 1 .. last - prev
      BY <1>2, <1>3, <1>4
    <2>2. \A i \in 1 .. last - prev : batch[i] = lg[prev + i]
      BY <1>2, <1>3, <1>4
    <2> QED
      BY <1>5, <2>1, <2>2, Zenon
  <1> HIDE DEF batch, file
  <1>7. /\ Len(m.entries) = n
        /\ \A i \in 1 .. n : /\ m.entries[i].term = lg[prev + i].term
                             /\ m.entries[i].hash = lg[prev + i].hash
    <2>1. ents = [i \in 1 .. n |-> ents[i]]
      BY <1>6
    <2>2. \A i \in 1 .. n : /\ ents[i].term = lg[prev + i].term
                            /\ ents[i].hash = lg[prev + i].hash
      BY <1>6
    <2> HIDE DEF ents
    <2>3. Len(ents) = n
      BY <2>1, FunctionIsSeq
    <2> QED
      BY <1>1, <2>2, <2>3
  <1> HIDE DEF ents
  <1>8. prev + n <= Len(lg)
    BY <1>2, <1>3, <1>4, <1>5
  <1> QED
    BY <1>1, <1>3, <1>7, <1>8, Zenon DEF Piece

LEMMA SentToFollowers ==
    ASSUME NEW p, NEW Q, NEW term, NEW lg, IsSeq(lg), NEW match,
           \A q \in Q : match[q] \in Nat, NEW s,
           NEW m \in AppendEntriesForFollowers(p, Q, term, lg, match, s)
    PROVE  Piece(m, lg) /\ m.leaderCommit = commitIndex[p]
  <1>1. PICK q \in Q \ {p} : m \in AppendEntriesFor(p, q, term, lg, match, s)
    BY DEF AppendEntriesForFollowers, SendTo
  <1> QED
    BY <1>1, SentPiece

LEMMA AppendingShape ==
    ASSUME LogInv, NEW p \in Peers, NEW Q \in SUBSET Peers, NEW term, NEW hash,
           NEW match \in [Peers -> Nat], NEW s, NEW taken, NEW M,
           \A m \in M : m.type # "AppendEntries",
           AppendAsLeader(p, Q, term, hash, match, s, taken, M),
           role'[p] = "Leader", currentTerm'[p] = term,
           \/ role[p] = "Leader" /\ currentTerm[p] = term
           \/ ~Leads(p, term),
           NoNewLeader(Peers \ {p})
    PROVE  LogShape
  <1> DEFINE lg  == Append(log[p], [term |-> term, hash |-> hash])
             own == [match EXCEPT ![p] = Len(lg)]
             AE  == AppendEntriesForFollowers(p, Q, term, lg, own, s)
  <1>1. log' = [log EXCEPT ![p] = lg] /\ Exchange(taken, M \cup AE)
    BY DEF AppendAsLeader
  <1>2. IsSeq(log[p]) /\ log = [q \in Peers |-> log[q]]
    BY DEF LogInv
  <1>3. log'[p] = lg
    BY <1>1, <1>2, Zenon
  <1>4. LeaderAppends(p)
    BY <1>1, Zenon DEF LeaderAppends
  <1>5. IsSeq(lg) /\ Len(lg) \in Nat
    BY <1>2, AppendFacts, SeqFacts
  <1> HIDE DEF lg
  <1>6. \A q \in Q : own[q] \in Nat
    BY <1>5
  <1> HIDE DEF own
  <1>7. \A m \in AE : /\ m.from = p
                      /\ m.term = term
                      /\ Piece(m, lg)
                      /\ m.leaderCommit = commitIndex[p]
    BY <1>5, <1>6, AppendEntriesSent, SentToFollowers
  <1>8. msgs' \subseteq msgs \cup M \cup AE
    BY <1>1, ExchangeAdds
  <1> HIDE DEF AE
  <1>9. SentByLeader
    BY <1>3, <1>7, <1>8 DEF SentByLeader
  <1> QED
    BY <1>4, <1>9 DEF LogShape

LEMMA TickShape ==
    ASSUME LogInv, ElectionTypes, NEW p \in Peers, Tick(p)
    PROVE  LogShape
  <1>1. TickParticipants(p) \in SUBSET Peers /\ RetainedMatch(p) \in [Peers -> Nat]
    BY DEF TickParticipants, RetainedMatch, LogInv
  <1>2. IsSeq(log[p]) /\ Len(log[p]) \in Nat
    BY SeqFacts DEF LogInv
  <1>3. ASSUME UpdatePeers(p) \/ IdleTick(p) PROVE LogShape
    BY <1>3, QuietShape
       DEF UpdatePeers, IdleTick, electionVars, logVars, NoNewLeader
  <1>4. ASSUME Heartbeat(p) PROVE LogShape
    <2> DEFINE AE == AppendEntriesForFollowers(p, TickParticipants(p),
                         currentTerm[p], log[p], RetainedMatch(p), store[p])
    <2>1. /\ role[p] = "Leader"
          /\ UNCHANGED <<role, currentTerm, log>>
          /\ Exchange({}, AE)
      BY <1>4, Zenon DEF Heartbeat
    <2>2. \A m \in AE : /\ m.from = p
                        /\ m.term = currentTerm[p]
                        /\ Piece(m, log[p])
                        /\ m.leaderCommit = commitIndex[p]
      BY <1>1, <1>2, AppendEntriesSent, SentToFollowers
    <2>3. msgs' \subseteq msgs \cup AE
      BY <2>1, ExchangeAdds
    <2> HIDE DEF AE
    <2> QED
      BY <2>1, <2>2, <2>3, SendingShape, Zenon
  <1>5. ASSUME StartElection(p) PROVE LogShape
    <2> DEFINE Q    == TickParticipants(p)
               term == currentTerm[p] + 1
               wins == IsMajority({p}, Q)
               ask  == [type : {"RequestVote"}, from : {p}, to : known[p],
                        term : {term}, lastLogIndex : {Len(log[p])},
                        lastLogTerm : {LastLogTerm(log[p])}]
    <2>1. /\ currentTerm' = [currentTerm EXCEPT ![p] = term]
          /\ role' = [role EXCEPT ![p] = IF wins THEN "Leader" ELSE "Candidate"]
          /\ \/ /\ wins
                /\ AppendAsLeader(p, Q, term, EmptyHash, NewLeaderMatch(p),
                                  store[p], {}, ask)
             \/ /\ ~wins
                /\ Exchange({}, ask)
                /\ log' = log
      BY <1>5, Zenon DEF StartElection
    <2>2. \A m \in ask : m.type # "AppendEntries"
      BY Zenon
    <2> HIDE DEF ask, wins
    <2>3. /\ currentTerm[p] \in Nat
          /\ currentTerm'[p] = term
          /\ role'[p] = IF wins THEN "Leader" ELSE "Candidate"
      BY <2>1, Zenon DEF ElectionTypes
    <2>4. NoNewLeader(Peers \ {p})
      BY <2>1, Zenon DEF NoNewLeader, ElectionTypes
    <2>5. ASSUME wins,
                 AppendAsLeader(p, Q, term, EmptyHash, NewLeaderMatch(p),
                                store[p], {}, ask)
          PROVE  LogShape
      <3>1. NewLeaderMatch(p) \in [Peers -> Nat]
        BY <1>2, Zenon DEF NewLeaderMatch
      <3>2. ~Leads(p, term)
        BY <2>3 DEF Leads
      <3>3. role'[p] = "Leader"
        BY <2>3, <2>5
      <3> QED
        BY <1>1, <2>2, <2>3, <2>4, <2>5, <3>1, <3>2, <3>3, AppendingShape, Zenon
    <2>6. ASSUME ~wins, Exchange({}, ask), log' = log PROVE LogShape
      <3>1. NoNewLeader(Peers)
        BY <2>3, <2>4, <2>6, Zenon DEF NoNewLeader
      <3>2. \A m \in msgs' \ msgs : m.type # "AppendEntries"
        BY <2>2, <2>6, ExchangeAdds, Zenon
      <3> QED
        BY <2>6, <3>1, <3>2, QuietShape, Zenon
    <2> QED
      BY <2>1, <2>5, <2>6, Zenon
  <1> QED
    BY <1>3, <1>4, <1>5 DEF Tick

LEMMA VoteShape ==
    ASSUME LogInv, ElectionTypes, NEW p \in Peers, NEW m \in msgs,
           HandleRequestVote(p, m) \/ HandleNewerTerm(p, m) \/ HandleVote(p, m)
    PROVE  LogShape
  <1>1. ASSUME HandleRequestVote(p, m) PROVE LogShape
    <2> DEFINE M == SendTo(p, {[type |-> "RequestVoteResponse", from |-> p,
                                to |-> m.from, term |-> MaxOf(currentTerm[p], m.term),
                                granted |-> GrantsVote(p, m)]})
    <2>1. /\ currentTerm' = [currentTerm EXCEPT ![p] = MaxOf(@, m.term)]
          /\ role' = [role EXCEPT ![p] =
                         IF m.term > currentTerm[p] THEN "Follower" ELSE @]
          /\ Exchange({m}, M)
          /\ log' = log
      BY <1>1, Zenon DEF HandleRequestVote, logVars
    <2>2. \A r \in M : r.type # "AppendEntries"
      BY DEF SendTo
    <2> HIDE DEF M
    <2>3. \A r \in msgs' \ msgs : r.type # "AppendEntries"
      BY <2>1, <2>2, ExchangeAdds, Zenon
    <2>4. NoNewLeader(Peers)
      BY <2>1 DEF NoNewLeader, ElectionTypes, MaxOf
    <2> QED
      BY <2>1, <2>3, <2>4, QuietShape, Zenon
  <1>2. ASSUME HandleNewerTerm(p, m) PROVE LogShape
    <2>1. /\ role' = [role EXCEPT ![p] = "Follower"]
          /\ currentTerm' = [currentTerm EXCEPT ![p] = m.term]
          /\ Exchange({m}, {})
          /\ log' = log
      BY <1>2, Zenon DEF HandleNewerTerm, StepDown, logVars
    <2>2. NoNewLeader(Peers)
      BY <2>1 DEF NoNewLeader, ElectionTypes
    <2>3. msgs' \subseteq msgs
      BY <2>1, ExchangeAdds
    <2> QED
      BY <2>1, <2>2, <2>3, QuietShape, Zenon
  <1>3. ASSUME HandleVote(p, m) PROVE LogShape
    <2> DEFINE wins == IsMajority(votesReceived[p] \cup {m.from}, participants[p])
    <2>1. /\ role[p] = "Candidate"
          /\ currentTerm' = currentTerm
          /\ \/ /\ wins
                /\ role' = [role EXCEPT ![p] = "Leader"]
                /\ AppendAsLeader(p, participants[p], currentTerm[p], EmptyHash,
                                  NewLeaderMatch(p), store[p], {m}, {})
             \/ /\ ~wins
                /\ Exchange({m}, {})
                /\ role' = role
                /\ log' = log
      BY <1>3, Zenon DEF HandleVote, CountsVote, logVars
    <2> HIDE DEF wins
    <2>2. ASSUME role' = [role EXCEPT ![p] = "Leader"],
                 AppendAsLeader(p, participants[p], currentTerm[p], EmptyHash,
                                NewLeaderMatch(p), store[p], {m}, {})
          PROVE  LogShape
      <3>1. NewLeaderMatch(p) \in [Peers -> Nat]
        <4>1. Len(log[p]) \in Nat
          BY SeqFacts DEF LogInv
        <4> QED
          BY <4>1 DEF NewLeaderMatch
      <3>2. ~Leads(p, currentTerm[p])
        BY <2>1 DEF Leads, ElectionTypes
      <3>3. role'[p] = "Leader" /\ currentTerm'[p] = currentTerm[p]
        BY <2>1, <2>2 DEF ElectionTypes
      <3>4. NoNewLeader(Peers \ {p})
        BY <2>1, <2>2 DEF NoNewLeader, ElectionTypes
      <3>5. participants[p] \in SUBSET Peers
        BY DEF ElectionTypes
      <3>6. \A n \in {} : n.type # "AppendEntries"
        OBVIOUS
      <3> QED
        BY <2>2, <3>1, <3>2, <3>3, <3>4, <3>5, <3>6, AppendingShape
    <2>3. ASSUME Exchange({m}, {}), role' = role, log' = log PROVE LogShape
      <3>1. NoNewLeader(Peers)
        BY <2>1, <2>3 DEF NoNewLeader
      <3>2. msgs' \subseteq msgs
        BY <2>3, ExchangeAdds
      <3> QED
        BY <2>3, <3>1, <3>2, QuietShape
    <2> QED
      BY <2>1, <2>2, <2>3, Zenon
  <1> QED
    BY <1>1, <1>2, <1>3, Zenon

LEMMA FollowerShape ==
    ASSUME LogInv, ElectionTypes, NEW p \in Peers, NEW m \in msgs,
           RejectLeader(p, m) \/ RejectEntries(p, m) \/ AcceptEntries(p, m)
    PROVE  LogShape
  <1>1. ASSUME NEW term, NEW success, NEW match,
               Exchange({m}, AppendEntriesResponse(p, m, term, success, match))
        PROVE  \A n \in msgs' \ msgs : n.type # "AppendEntries"
    <2>1. \A n \in AppendEntriesResponse(p, m, term, success, match) :
              n.type # "AppendEntries"
      BY DEF AppendEntriesResponse, SendTo
    <2> QED
      BY <1>1, <2>1, ExchangeAdds, Zenon
  <1>2. ASSUME FollowLeader(p, m) PROVE NoNewLeader(Peers)
    BY <1>2 DEF FollowLeader, NoNewLeader, ElectionTypes
  <1>3. ASSUME RejectLeader(p, m) PROVE LogShape
    <2>1. NoNewLeader(Peers) /\ log' = log
      BY <1>3, Zenon DEF RejectLeader, electionVars, logVars, NoNewLeader
    <2>2. \A n \in msgs' \ msgs : n.type # "AppendEntries"
      BY <1>1, <1>3, Zenon DEF RejectLeader
    <2> QED
      BY <2>1, <2>2, QuietShape, Zenon
  <1>4. ASSUME RejectEntries(p, m) PROVE LogShape
    <2>1. NoNewLeader(Peers) /\ log' = log
      BY <1>2, <1>4 DEF RejectEntries, logVars
    <2>2. \A n \in msgs' \ msgs : n.type # "AppendEntries"
      BY <1>1, <1>4, Zenon DEF RejectEntries
    <2> QED
      BY <2>1, <2>2, QuietShape
  <1>5. ASSUME AcceptEntries(p, m) PROVE LogShape
    <2>1. NoNewLeader(Peers)
      BY <1>2, <1>5 DEF AcceptEntries
    <2>2. \A n \in msgs' \ msgs : n.type # "AppendEntries"
      BY <1>1, <1>5, Zenon DEF AcceptEntries
    <2>3. /\ m.type = "AppendEntries"
          /\ CanAppend(p, m)
          /\ FollowLeader(p, m)
          /\ log' = [log EXCEPT ![p] = AppendedLog(@, m)]
      BY <1>5 DEF AcceptEntries
    <2>4. m.term >= currentTerm[p]
      BY <1>5, Zenon DEF AcceptEntries, AcceptsLeader
    <2>5. currentTerm'[p] = m.term /\ role'[p] = "Follower"
      BY <2>3 DEF FollowLeader, ElectionTypes
    <2>6. FollowerTakes(p, m)
      BY <2>1, <2>3, <2>4, <2>5, Zenon DEF FollowerTakes
    <2>7. SentByLeader
      BY <2>2 DEF SentByLeader
    <2> QED
      BY <2>6, <2>7 DEF LogShape
  <1> QED
    BY <1>3, <1>4, <1>5

LEMMA AnswerShape ==
    ASSUME LogInv, ElectionTypes, NEW p \in Peers, NEW m \in msgs,
           \/ HandleAppendEntriesSuccess(p, m)
           \/ HandleAppendEntriesFailure(p, m)
           \/ IgnoreAnswer(p, m)
    PROVE  LogShape
  <1>1. ASSUME HandleAppendEntriesSuccess(p, m) \/ IgnoreAnswer(p, m) PROVE LogShape
    <2>1. UNCHANGED <<role, currentTerm, log>> /\ Exchange({m}, {})
      BY <1>1 DEF HandleAppendEntriesSuccess, IgnoreAnswer, electionVars, logVars
    <2>2. msgs' \subseteq msgs
      BY <2>1, ExchangeAdds
    <2> QED
      BY <2>1, <2>2, QuietShape, Zenon DEF NoNewLeader
  <1>2. ASSUME HandleAppendEntriesFailure(p, m) PROVE LogShape
    <2> DEFINE held  == MinOf(m.matchIndex, Len(log[p]))
               match == [matchIndexes[p] EXCEPT ![m.from] = held]
               AE    == AppendEntriesFor(p, m.from, currentTerm[p], log[p], match,
                                         store[p])
    <2>1. /\ role[p] = "Leader"
          /\ UNCHANGED <<role, currentTerm, log>>
          /\ \E again \in {{}, AE} : Exchange({m}, SendTo(p, again))
      BY <1>2, Zenon DEF HandleAppendEntriesFailure, CountsAnswer, electionVars
    <2>2. m.matchIndex \in Nat /\ m.from \in Peers
      BY <1>2, Zenon DEF HandleAppendEntriesFailure, LogInv, LogMessageOK, ElectionTypes
    <2>3. IsSeq(log[p]) /\ Len(log[p]) \in Nat
      BY SeqFacts, Zenon DEF LogInv
    <2>4. match[m.from] \in Nat
      BY <2>2, <2>3, Zenon DEF LogInv, MinOf
    <2> HIDE DEF match
    <2>5. \A n \in AE : /\ n.from = p
                        /\ n.term = currentTerm[p]
                        /\ Piece(n, log[p])
                        /\ n.leaderCommit = commitIndex[p]
      BY <2>3, <2>4, AppendEntriesForSent, SentPiece
    <2> HIDE DEF AE
    <2>6. \A n \in msgs' \ msgs : n \in AE
      BY <2>1, ExchangeAdds, Zenon DEF SendTo
    <2> QED
      BY <2>1, <2>5, <2>6, SendingShape, Zenon
  <1> QED
    BY <1>1, <1>2, Zenon

LEMMA ClientShape ==
    ASSUME LogInv, ElectionTypes, NEW p \in Peers, NEW tx, ClientTransaction(p, tx)
    PROVE  LogShape
  <1> DEFINE s == StageClientTransaction(store[p], tx)
             h == NewBlock(store[p], store[p].mempool \cup {tx}).hash
  <1>1. /\ role[p] = "Leader"
        /\ UNCHANGED <<role, currentTerm>>
        /\ \/ AppendAsLeader(p, participants[p], currentTerm[p], h,
                             matchIndexes[p], s, {}, {})
           \/ UNCHANGED <<log, msgs>>
    BY Zenon DEF ClientTransaction, electionVars
  <1> HIDE DEF s, h
  <1>2. NoNewLeader(Peers)
    BY <1>1 DEF NoNewLeader
  <1>3. CASE UNCHANGED <<log, msgs>>
    BY <1>2, <1>3, QuietShape, Zenon
  <1>4. CASE AppendAsLeader(p, participants[p], currentTerm[p], h,
                            matchIndexes[p], s, {}, {})
    <2>1. participants[p] \in SUBSET Peers /\ matchIndexes[p] \in [Peers -> Nat]
      BY Zenon DEF LogInv
    <2>2. role'[p] = "Leader" /\ currentTerm'[p] = currentTerm[p]
      BY <1>1
    <2>3. NoNewLeader(Peers \ {p})
      BY <1>2 DEF NoNewLeader
    <2>4. \A n \in {} : n.type # "AppendEntries"
      OBVIOUS
    <2> QED
      BY <1>1, <1>4, <2>1, <2>2, <2>3, <2>4, AppendingShape
  <1> QED
    BY <1>1, <1>3, <1>4, Zenon

LEMMA NextShape ==
    ASSUME LogInv, ElectionTypes, [Next]_vars
    PROVE  LogShape
  <1>1. ASSUME UNCHANGED vars PROVE LogShape
    BY <1>1, QuietShape, Zenon DEF vars, viewVars, electionVars, logVars, NoNewLeader
  <1>2. ASSUME NEW p \in Peers, NEW m \in msgs, Receive(p, m) PROVE LogShape
    BY <1>2, VoteShape, FollowerShape, AnswerShape, Zenon DEF Receive
  <1> QED
    BY <1>1, <1>2, TickShape, ClientShape, Zenon DEF Next
----------------------------------------------------------------------------
(* The shapes: votes, acknowledgements and commit indexes.                 *)

LEMMA QuietVotes ==
    ASSUME NoNewVotes
    PROVE  VoteShapes
  <1>1. LeaderVotes
    BY Zenon DEF NoNewVotes, LeaderVotes
  <1>2. NewAsks
    BY Zenon DEF NoNewVotes, NewAsks
  <1>3. CandidateVotes
    <2> SUFFICES ASSUME NEW c \in Peers, role'[c] = "Candidate"
                 PROVE  /\ role[c] = "Candidate" /\ currentTerm'[c] = currentTerm[c]
                        /\ \A z \in Peers : VotesFor(z, c)' => Counts(z, c)
      BY DEF CandidateVotes
    <2>1. /\ role[c] = "Candidate"
          /\ currentTerm'[c] = currentTerm[c]
          /\ votesReceived'[c] \subseteq votesReceived[c]
          /\ \A m \in msgs' : Grant(m) => m \in msgs
      BY DEF NoNewVotes
    <2>2. ASSUME NEW z \in Peers, VotesFor(z, c)' PROVE VotesFor(z, c)
      BY <2>1, <2>2 DEF VotesFor, Grant
    <2> QED
      BY <2>1, <2>2, Zenon DEF Counts
  <1> QED
    BY <1>1, <1>2, <1>3, Zenon DEF VoteShapes

\* Only terms, roles, votes and messages may change, and nobody runs.
LEMMA QuietCommit ==
    ASSUME ElectionTypes, NoNewVotes, UNCHANGED commitIndex,
           \A m \in msgs' \ msgs : ~Ack(m),
           \A p, q \in Peers : role'[p] = "Leader" =>
               matchIndexes'[p][q] \in {0, matchIndexes[p][q]}
    PROVE  CommitShape
  <1>1. VoteShapes
    BY QuietVotes
  <1>2. NewAcks
    BY Zenon DEF NewAcks
  <1>3. MatchMoves
    BY Zenon DEF MatchMoves, NoNewVotes
  <1>4. CommitMoves
    BY DEF CommitMoves
  <1> QED
    BY <1>1, <1>2, <1>3, <1>4, Zenon DEF CommitShape

LEMMA NoVotesSent ==
    ASSUME UNCHANGED <<role, currentTerm, votesReceived>>,
           \A m \in msgs' \ msgs :
               m.type \in {"AppendEntries", "AppendEntriesResponse"}
    PROVE  NoNewVotes
  BY DEF NoNewVotes, Grant

LEMMA NewFollowerVotes ==
    ASSUME ElectionTypes, NEW p \in Peers, NEW t,
           currentTerm' = [currentTerm EXCEPT ![p] = t],
           role' = [role EXCEPT ![p] = "Follower"],
           votesReceived' = [votesReceived EXCEPT ![p] = {}],
           \A m \in msgs' \ msgs :
               m.type \in {"AppendEntries", "AppendEntriesResponse"}
    PROVE  NoNewVotes
  BY Zenon DEF NoNewVotes, Grant, ElectionTypes

\* A majority of Q holds the entry of the term at c.
HeldByMajority(c, Q, term, lg, match) ==
    /\ c \in 1 .. Len(lg)
    /\ lg[c].term = term
    /\ IsMajority({q \in Q : match[q] >= c}, Q)

LEMMA AdvancedTo ==
    ASSUME NEW p, commitIndex[p] \in Nat, NEW Q, NEW term, NEW lg, IsSeq(lg),
           NEW match, NEW c, c = AdvancedCommitIndex(p, Q, term, lg, match)
    PROVE  c = commitIndex[p] \/ HeldByMajority(c, Q, term, lg, match)
  <1> DEFINE held(i) == /\ lg[i].term = term
                        /\ IsMajority({q \in Q : match[q] >= i}, Q)
             all     == {i \in commitIndex[p] + 1 .. Len(lg) : held(i)}
  <1>1. c = IF all = {} THEN commitIndex[p] ELSE Max(all)
    BY Zenon DEF AdvancedCommitIndex
  <1>2. Len(lg) \in Nat
    BY SeqFacts
  <1>3. ASSUME all # {} PROVE c \in all
    <2>1. all \in SUBSET (0 .. Len(lg))
      BY <1>2
    <2>2. c = Max(all)
      BY <1>1, <1>3, Zenon
    <2> HIDE DEF all
    <2> QED
      BY <1>2, <1>3, <2>1, <2>2, MaxExists, Zenon
  <1>4. ASSUME c \in all PROVE c \in 1 .. Len(lg) /\ held(c)
    <2>1. c \in commitIndex[p] + 1 .. Len(lg) /\ held(c)
      BY <1>4
    <2> HIDE DEF held
    <2> QED
      BY <1>2, <2>1
  <1> QED
    BY <1>1, <1>3, <1>4, Zenon DEF HeldByMajority

LEMMA AppendCommits ==
    ASSUME LogInv, NEW p \in Peers, NEW v \in Views, NEW term, NEW hash,
           NEW match \in [Peers -> Nat], NEW s, NEW taken, NEW M,
           \A m \in M : ~Ack(m),
           AppendAsLeader(p, v \cup {p}, term, hash, match, s, taken, M),
           role'[p] = "Leader", currentTerm'[p] = term,
           \/ role[p] = "Leader" /\ match = matchIndexes[p]
           \/ match = NewLeaderMatch(p),
           NoNewLeader(Peers \ {p})
    PROVE  NewAcks /\ MatchMoves /\ CommitMoves
  <1> DEFINE Q   == v \cup {p}
             lg  == Append(log[p], [term |-> term, hash |-> hash])
             own == [match EXCEPT ![p] = Len(lg)]
             AE  == AppendEntriesForFollowers(p, Q, term, lg, own, s)
             c   == AdvancedCommitIndex(p, Q, term, lg, own)
  <1>1. /\ log' = [log EXCEPT ![p] = lg]
        /\ matchIndexes' = [matchIndexes EXCEPT ![p] = own]
        /\ Exchange(taken, M \cup AE)
        /\ commitIndex' = [commitIndex EXCEPT ![p] = c]
    BY Zenon DEF AppendAsLeader, AdvanceCommitIndex
  <1>2. /\ IsSeq(log[p])
        /\ log = [q \in Peers |-> log[q]]
        /\ commitIndex \in [Peers -> Nat]
        /\ matchIndexes \in [Peers -> [Peers -> Nat]]
    BY DEF LogInv
  <1>3. IsSeq(lg)
    BY <1>2, AppendFacts
  <1>4. \A m \in AE : ~Ack(m)
    BY AppendEntriesSent DEF Ack
  <1>5. msgs' \subseteq msgs \cup M \cup AE
    BY <1>1, ExchangeAdds, Zenon
  <1> HIDE DEF AE, c, lg
  <1>6. /\ log'[p] = lg
        /\ commitIndex'[p] = c
        /\ matchIndexes'[p] = own
        /\ \A q \in Peers \ {p} : /\ commitIndex'[q] = commitIndex[q]
                                  /\ matchIndexes'[q] = matchIndexes[q]
    BY <1>1, <1>2
  <1>7. NewAcks
    BY <1>4, <1>5, Zenon DEF NewAcks
  <1>8. MatchMoves
    <2> SUFFICES ASSUME NEW r \in Peers, NEW q \in Peers, role'[r] = "Leader"
                 PROVE  \/ matchIndexes'[r][q] = 0
                        \/ q = r /\ matchIndexes'[r][q] = Len(log'[r])
                        \/ role[r] = "Leader" /\ matchIndexes'[r][q] = matchIndexes[r][q]
      BY Zenon DEF MatchMoves
    <2>1. CASE r # p
      BY <1>6, <2>1, Zenon DEF NoNewLeader
    <2>2. CASE r = p /\ q = p
      BY <1>6, <2>2, Zenon
    <2>3. CASE r = p /\ q # p
      <3>1. matchIndexes'[r][q] = match[q]
        BY <1>6, <2>3, Zenon
      <3> QED
        BY <2>3, <3>1 DEF NewLeaderMatch
    <2> QED
      BY <2>1, <2>2, <2>3, Zenon
  <1>9. CommitMoves
    <2> HIDE DEF own
    <2>1. c = commitIndex[p] \/ HeldByMajority(c, Q, term, lg, own)
      BY <1>2, <1>3, AdvancedTo DEF c
    <2>2. commitIndex'[p] = commitIndex[p] \/ LeaderCommits(p)
      BY <1>6, <2>1, Zenon DEF LeaderCommits, HeldByMajority
    <2> QED
      BY <1>6, <2>2 DEF CommitMoves
  <1> QED
    BY <1>7, <1>8, <1>9

LEMMA TickCommits ==
    ASSUME LogInv, ElectionInv, NEW p \in Peers,
           UpdatePeers(p) \/ IdleTick(p) \/ Heartbeat(p)
    PROVE  CommitShape
  <1>1. ElectionTypes
    BY DEF ElectionInv
  <1>2. ASSUME UpdatePeers(p) PROVE CommitShape
    <2>1. UNCHANGED <<role, currentTerm, votesReceived, commitIndex, matchIndexes, msgs>>
      BY <1>2 DEF UpdatePeers, electionVars, logVars
    <2> QED
      BY <1>1, <2>1, NoVotesSent, QuietCommit
  <1>3. ASSUME IdleTick(p) \/ Heartbeat(p) PROVE CommitShape
    <2>1. /\ UNCHANGED <<role, currentTerm, commitIndex>>
          /\ votesReceived' = [votesReceived EXCEPT ![p] = @ \cap TickParticipants(p)]
          /\ matchIndexes' = [matchIndexes EXCEPT ![p] = RetainedMatch(p)]
      BY <1>3, Zenon DEF IdleTick, Heartbeat
    <2>2. \A m \in msgs' \ msgs : m.type = "AppendEntries"
      <3>1. ASSUME Heartbeat(p) PROVE \A m \in msgs' \ msgs : m.type = "AppendEntries"
        <4> DEFINE AE == AppendEntriesForFollowers(p, TickParticipants(p),
                             currentTerm[p], log[p], RetainedMatch(p), store[p])
        <4>1. \A m \in AE : m.type = "AppendEntries"
          BY AppendEntriesSent
        <4>2. msgs' \subseteq msgs \cup AE
          BY <3>1, ExchangeAdds, Zenon DEF Heartbeat
        <4> QED
          BY <4>1, <4>2
      <3> QED
        BY <1>3, <3>1 DEF IdleTick
    <2>3. NoNewVotes
      BY <1>1, <2>1, <2>2, Zenon DEF NoNewVotes, Grant, ElectionTypes
    <2>4. \A r, q \in Peers : matchIndexes'[r][q] \in {0, matchIndexes[r][q]}
      BY <2>1 DEF LogInv, RetainedMatch
    <2> QED
      BY <1>1, <2>1, <2>2, <2>3, <2>4, QuietCommit DEF Ack
  <1> QED
    BY <1>2, <1>3

\* The majority that makes p leader, seen from its view.
LEMMA OwnQuorum ==
    ASSUME NEW p \in Peers, NEW v \in Views, NEW T, T \subseteq v \cup {p},
           IsMajority(T, v \cup {p})
    PROVE  IsQuorum(T) /\ T \in SUBSET Peers
  BY RaftAssumption, Zenon DEF IsQuorum

LEMMA StartElectionCommits ==
    ASSUME LogInv, ElectionInv, NEW p \in Peers, StartElection(p)
    PROVE  CommitShape
  <1> DEFINE Q    == TickParticipants(p)
             term == currentTerm[p] + 1
             wins == IsMajority({p}, Q)
             ask  == [type : {"RequestVote"}, from : {p}, to : known[p],
                      term : {term}, lastLogIndex : {Len(log[p])},
                      lastLogTerm : {LastLogTerm(log[p])}]
  <1>1. /\ role[p] # "Leader"
        /\ currentTerm' = [currentTerm EXCEPT ![p] = term]
        /\ role' = [role EXCEPT ![p] = IF wins THEN "Leader" ELSE "Candidate"]
        /\ votesReceived' = [votesReceived EXCEPT ![p] = {p}]
        /\ \/ /\ wins
              /\ AppendAsLeader(p, Q, term, EmptyHash, NewLeaderMatch(p),
                                store[p], {}, ask)
           \/ /\ ~wins
              /\ matchIndexes' = [matchIndexes EXCEPT ![p] = RetainedMatch(p)]
              /\ Exchange({}, ask)
              /\ UNCHANGED <<log, commitIndex, store>>
    BY Zenon DEF StartElection
  <1>2. \A m \in ask : /\ m.type = "RequestVote"
                       /\ m.from = p
                       /\ m.lastLogIndex = Len(log[p])
                       /\ m.lastLogTerm = LastLogTerm(log[p])
    BY Zenon
  <1>3. PICK v \in Views : Q = v \cup {p}
    BY DEF ElectionInv, ViewsOK, TickParticipants
  <1> HIDE DEF ask, wins, Q
  <1>4. /\ currentTerm[p] \in Nat
        /\ currentTerm'[p] = term
        /\ role'[p] = IF wins THEN "Leader" ELSE "Candidate"
        /\ votesReceived'[p] = {p}
        /\ \A q \in Peers \ {p} : /\ currentTerm'[q] = currentTerm[q]
                                  /\ role'[q] = role[q]
                                  /\ votesReceived'[q] = votesReceived[q]
    BY <1>1, Zenon DEF ElectionInv, ElectionTypes
  <1>5. \A m \in msgs' \ msgs : m.type = "AppendEntries" \/ m \in ask
    <2>1. ASSUME AppendAsLeader(p, Q, term, EmptyHash, NewLeaderMatch(p),
                                store[p], {}, ask)
          PROVE  \A m \in msgs' \ msgs : m.type = "AppendEntries" \/ m \in ask
      <3>1. Q \in SUBSET Peers /\ term \in Nat
        BY <1>3, <1>4, RaftAssumption
      <3> QED
        BY <2>1, <3>1, AppendAsLeaderSends
    <2> QED
      BY <1>1, <2>1, ExchangeAdds
  <1>6. LeaderVotes
    <2>1. ASSUME wins
          PROVE  \E T \in SUBSET Peers : IsQuorum(T) /\ \A z \in T : z = p \/ Counts(z, p)
      <3>1. IsQuorum({p})
        BY <1>3, <2>1, OwnQuorum DEF wins
      <3> QED
        BY <3>1
    <2> QED
      BY <1>4, <2>1 DEF LeaderVotes
  <1>7. NewAsks
    BY <1>2, <1>5 DEF NewAsks
  <1>8. CandidateVotes
    <2>1. ASSUME NEW c \in Peers \ {p}, role'[c] = "Candidate", NEW z \in Peers,
                 VotesFor(z, c)'
          PROVE  Counts(z, c)
      <3>1. \A m \in msgs' : Grant(m) => m \in msgs
        BY <1>2, <1>5 DEF Grant
      <3> QED
        BY <1>4, <2>1, <3>1 DEF Counts, VotesFor, Grant
    <2>2. ASSUME NEW z \in Peers, VotesFor(z, p)' PROVE z = p
      <3>1. \A m \in msgs' : Grant(m) => m \in msgs
        BY <1>2, <1>5, Zenon DEF Grant
      <3>2. \A m \in msgs : Grant(m) /\ m.to = p => m.term <= currentTerm[p] /\ m.term \in Nat
        BY DEF ElectionInv, MessageOK, ElectionTypes
      <3> QED
        BY <1>4, <2>2, <3>1, <3>2 DEF VotesFor, Grant
    <2> QED
      BY <1>4, <2>1, <2>2 DEF CandidateVotes
  <1>9. NewAcks /\ MatchMoves /\ CommitMoves
    <2>1. ASSUME wins, AppendAsLeader(p, Q, term, EmptyHash, NewLeaderMatch(p),
                                      store[p], {}, ask)
          PROVE  NewAcks /\ MatchMoves /\ CommitMoves
      <3>1. NewLeaderMatch(p) \in [Peers -> Nat]
        BY SeqFacts, Zenon DEF NewLeaderMatch, LogInv
      <3>2. NoNewLeader(Peers \ {p})
        BY <1>4, Zenon DEF NoNewLeader
      <3>3. \A m \in ask : ~Ack(m)
        BY <1>2, Zenon DEF Ack
      <3>4. role'[p] = "Leader"
        BY <1>4, <2>1
      <3> QED
        BY <1>3, <1>4, <2>1, <3>1, <3>2, <3>3, <3>4, AppendCommits, Zenon
    <2>2. ASSUME ~wins, matchIndexes' = [matchIndexes EXCEPT ![p] = RetainedMatch(p)],
                 Exchange({}, ask), UNCHANGED <<log, commitIndex, store>>
          PROVE  NewAcks /\ MatchMoves /\ CommitMoves
      <3>1. NewAcks
        BY <1>2, <1>5, Zenon DEF NewAcks, Ack
      <3>2. MatchMoves
        BY <1>4, <2>2, Zenon DEF MatchMoves, LogInv
      <3>3. CommitMoves
        BY <2>2 DEF CommitMoves
      <3> QED
        BY <3>1, <3>2, <3>3, Zenon
    <2> QED
      BY <1>1, <2>1, <2>2, Zenon
  <1> QED
    BY <1>6, <1>7, <1>8, <1>9 DEF CommitShape, VoteShapes

LEMMA HandleVoteCommits ==
    ASSUME LogInv, ElectionInv, NEW p \in Peers, NEW m \in msgs, HandleVote(p, m)
    PROVE  CommitShape
  <1> DEFINE votes == votesReceived[p] \cup {m.from}
             wins  == IsMajority(votes, participants[p])
  <1>1. /\ m.type = "RequestVoteResponse"
        /\ m.to = p
        /\ role[p] = "Candidate"
        /\ m.term = currentTerm[p]
        /\ m.granted
        /\ m.from \in participants[p]
        /\ votesReceived' = [votesReceived EXCEPT ![p] = votes]
        /\ currentTerm' = currentTerm
        /\ \/ /\ wins
              /\ role' = [role EXCEPT ![p] = "Leader"]
              /\ AppendAsLeader(p, participants[p], currentTerm[p], EmptyHash,
                                NewLeaderMatch(p), store[p], {m}, {})
           \/ /\ ~wins
              /\ Exchange({m}, {})
              /\ role' = role
              /\ UNCHANGED <<log, commitIndex, matchIndexes>>
    BY Zenon DEF HandleVote, CountsVote, logVars
  <1>2. PICK v \in Views : participants[p] = v \cup {p} /\ votes \subseteq v \cup {p}
    BY <1>1 DEF ElectionInv, ViewsOK
  <1>3. \A z \in votes : VotesFor(z, p)
    BY <1>1, Zenon DEF VotesFor, Grant
  <1>4. /\ votesReceived'[p] = votes
        /\ \A q \in Peers \ {p} : votesReceived'[q] = votesReceived[q] /\ role'[q] = role[q]
    BY <1>1, Zenon DEF ElectionInv, ElectionTypes
  <1>5. \A n \in msgs' \ msgs : n.type = "AppendEntries"
    <2>1. ASSUME AppendAsLeader(p, participants[p], currentTerm[p], EmptyHash,
                                NewLeaderMatch(p), store[p], {m}, {})
          PROVE  \A n \in msgs' \ msgs : n.type = "AppendEntries"
      <3>1. participants[p] \in SUBSET Peers /\ currentTerm[p] \in Nat
        BY Zenon DEF ElectionInv, ElectionTypes
      <3> QED
        BY <2>1, <3>1, AppendOnlySends, Zenon
    <2> QED
      BY <1>1, <2>1, ExchangeAdds
  <1> HIDE DEF votes, wins
  <1>6. LeaderVotes
    <2>1. ASSUME wins
          PROVE  \E T \in SUBSET Peers : IsQuorum(T) /\ \A z \in T : z = p \/ Counts(z, p)
      <3>1. IsQuorum(votes) /\ votes \in SUBSET Peers
        BY <1>2, <2>1, OwnQuorum DEF wins
      <3>2. \A z \in votes : Counts(z, p)
        BY <1>1, <1>3, Zenon DEF Counts
      <3> QED
        BY <3>1, <3>2
    <2>2. ~wins => role' = role
      BY <1>1, Zenon
    <2> QED
      BY <1>1, <1>4, <2>1, <2>2 DEF LeaderVotes
  <1>7. NewAsks
    BY <1>5, Zenon DEF NewAsks
  <1>8. CandidateVotes
    <2>1. ASSUME NEW c \in Peers, role'[c] = "Candidate"
          PROVE  role[c] = "Candidate" /\ \A z \in Peers : VotesFor(z, c)' => Counts(z, c)
      <3>1. role[c] = "Candidate"
        BY <1>1, <1>4, <2>1, Zenon
      <3>2. \A n \in msgs' : Grant(n) => n \in msgs
        BY <1>5, Zenon DEF Grant
      <3>3. ASSUME NEW z \in Peers, VotesFor(z, c)' PROVE VotesFor(z, c)
        <4>1. CASE c = p
          BY <1>1, <1>3, <1>4, <3>2, <3>3, <4>1 DEF VotesFor, Grant
        <4>2. CASE c # p
          BY <1>1, <1>4, <3>2, <3>3, <4>2, Zenon DEF VotesFor, Grant
        <4> QED
          BY <4>1, <4>2, Zenon
      <3> QED
        BY <1>1, <3>1, <3>3, Zenon DEF Counts
    <2> QED
      BY <1>1, <2>1, Zenon DEF CandidateVotes
  <1>9. NewAcks /\ MatchMoves /\ CommitMoves
    <2>1. ASSUME role' = [role EXCEPT ![p] = "Leader"],
                 AppendAsLeader(p, participants[p], currentTerm[p], EmptyHash,
                                NewLeaderMatch(p), store[p], {m}, {})
          PROVE  NewAcks /\ MatchMoves /\ CommitMoves
      <3>1. NewLeaderMatch(p) \in [Peers -> Nat]
        BY SeqFacts DEF NewLeaderMatch, LogInv
      <3>2. NoNewLeader(Peers \ {p})
        BY <1>1, <1>4, Zenon DEF NoNewLeader
      <3>3. role'[p] = "Leader" /\ currentTerm'[p] = currentTerm[p]
        BY <1>1, <2>1, Zenon DEF ElectionInv, ElectionTypes
      <3>4. \A n \in {} : ~Ack(n)
        OBVIOUS
      <3> QED
        BY <1>2, <2>1, <3>1, <3>2, <3>3, <3>4, AppendCommits
    <2>2. ASSUME role' = role, UNCHANGED <<log, commitIndex, matchIndexes>>
          PROVE  NewAcks /\ MatchMoves /\ CommitMoves
      BY <1>5, <2>2, Zenon DEF NewAcks, Ack, MatchMoves, CommitMoves
    <2> QED
      BY <1>1, <2>1, <2>2, Zenon
  <1> QED
    BY <1>6, <1>7, <1>8, <1>9, Zenon DEF CommitShape, VoteShapes

LEMMA RequestVoteCommits ==
    ASSUME LogInv, ElectionInv, NEW p \in Peers, NEW m \in msgs, HandleRequestVote(p, m)
    PROVE  CommitShape
  <1> DEFINE newer == m.term > currentTerm[p]
             grant == GrantsVote(p, m)
             reply == [type |-> "RequestVoteResponse", from |-> p, to |-> m.from,
                       term |-> MaxOf(currentTerm[p], m.term), granted |-> grant]
  <1>1. /\ m.type = "RequestVote"
        /\ currentTerm' = [currentTerm EXCEPT ![p] = MaxOf(@, m.term)]
        /\ role' = [role EXCEPT ![p] = IF newer THEN "Follower" ELSE @]
        /\ votesReceived' = [votesReceived EXCEPT ![p] = IF newer THEN {} ELSE @]
        /\ Exchange({m}, SendTo(p, {reply}))
        /\ UNCHANGED <<log, commitIndex, matchIndexes>>
    BY Zenon DEF HandleRequestVote, logVars
  <1>2. /\ currentTerm[p] \in Nat
        /\ m.term \in Nat
        /\ m.from \in Peers
        /\ currentTerm'[p] = MaxOf(currentTerm[p], m.term)
        /\ role'[p] = IF newer THEN "Follower" ELSE role[p]
        /\ votesReceived'[p] = IF newer THEN {} ELSE votesReceived[p]
        /\ \A q \in Peers \ {p} : /\ currentTerm'[q] = currentTerm[q]
                                  /\ role'[q] = role[q]
                                  /\ votesReceived'[q] = votesReceived[q]
    BY <1>1, Zenon DEF ElectionInv, ElectionTypes
  <1>3. \A n \in msgs' \ msgs : n = reply
    BY <1>1, ExchangeAdds DEF SendTo
  <1>4. /\ reply.type = "RequestVoteResponse"
        /\ reply.from = p
        /\ reply.to = m.from
        /\ reply.term = MaxOf(currentTerm[p], m.term)
        /\ reply.granted = grant
    BY Zenon
  <1> HIDE DEF reply
  <1>5. ASSUME NEW c \in Peers, role'[c] # "Follower"
        PROVE  /\ role[c] = role'[c]
               /\ currentTerm'[c] = currentTerm[c]
               /\ votesReceived'[c] = votesReceived[c]
    BY <1>2, <1>5, Zenon DEF MaxOf
  <1>6. LeaderVotes
    BY <1>5, Zenon DEF LeaderVotes
  <1>7. NewAsks
    BY <1>3, <1>4, Zenon DEF NewAsks
  <1>8. CandidateVotes
    <2> SUFFICES ASSUME NEW c \in Peers, role'[c] = "Candidate", NEW z \in Peers,
                        VotesFor(z, c)', ~VotesFor(z, c)
                 PROVE  Approves(z, c)
      BY <1>5, Zenon DEF CandidateVotes, Counts
    <2>1. /\ role[c] = "Candidate"
          /\ currentTerm'[c] = currentTerm[c]
          /\ votesReceived'[c] = votesReceived[c]
      BY <1>5, Zenon
    <2>2. PICK n \in msgs' : /\ Grant(n)
                             /\ n.from = z
                             /\ n.to = c
                             /\ n.term = currentTerm[c]
      BY <2>1, Zenon DEF VotesFor, Grant
    <2>3. n \notin msgs
      BY <2>2 DEF VotesFor
    <2>4. n = reply
      BY <1>3, <2>3, Zenon
    <2>5. /\ z = p
          /\ c = m.from
          /\ MaxOf(currentTerm[p], m.term) = currentTerm[c]
          /\ GrantsVote(p, m)
      BY <1>4, <2>2, <2>4, Zenon DEF Grant
    <2>6. CandidateLogIsUpToDate(p, m) /\ m.term >= currentTerm[p]
      BY <2>5, Zenon DEF GrantsVote
    <2>7. m.term = currentTerm[c]
      BY <1>2, <2>5, <2>6 DEF MaxOf
    <2> QED
      BY <1>1, <1>2, <2>1, <2>5, <2>6, <2>7, Zenon DEF Approves
  <1>9. NewAcks
    BY <1>3, <1>4 DEF NewAcks, Ack
  <1>10. MatchMoves
    BY <1>1, <1>5, Zenon DEF MatchMoves
  <1>11. CommitMoves
    BY <1>1 DEF CommitMoves
  <1> QED
    BY <1>6, <1>7, <1>8, <1>9, <1>10, <1>11, Zenon DEF CommitShape, VoteShapes

LEMMA FollowCommits ==
    ASSUME LogInv, ElectionInv, NEW p \in Peers, NEW m \in msgs,
           HandleNewerTerm(p, m) \/ RejectLeader(p, m) \/ RejectEntries(p, m)
    PROVE  CommitShape
  <1>1. ElectionTypes
    BY DEF ElectionInv
  <1>2. ASSUME HandleNewerTerm(p, m) PROVE CommitShape
    <2>1. /\ currentTerm' = [currentTerm EXCEPT ![p] = m.term]
          /\ role' = [role EXCEPT ![p] = "Follower"]
          /\ votesReceived' = [votesReceived EXCEPT ![p] = {}]
          /\ UNCHANGED <<commitIndex, matchIndexes>>
          /\ Exchange({m}, {})
      BY <1>2, Zenon DEF HandleNewerTerm, StepDown, logVars
    <2>2. msgs' \subseteq msgs
      BY <2>1, ExchangeAdds
    <2> QED
      BY <1>1, <2>1, <2>2, NewFollowerVotes, QuietCommit, Zenon
  <1>3. ASSUME RejectLeader(p, m) PROVE CommitShape
    <2>1. /\ UNCHANGED <<role, currentTerm, votesReceived, commitIndex, matchIndexes>>
          /\ Exchange({m}, AppendEntriesResponse(p, m, currentTerm[p], FALSE,
                              MatchingIndexFor(log[p], m, << >>)))
      BY <1>3, Zenon DEF RejectLeader, electionVars, logVars
    <2>2. \A r \in msgs' \ msgs : r.type = "AppendEntriesResponse" /\ r.success = FALSE
      BY <2>1, ExchangeAdds DEF AppendEntriesResponse, SendTo
    <2> QED
      BY <1>1, <2>1, <2>2, NoVotesSent, QuietCommit, Zenon DEF Ack
  <1>4. ASSUME RejectEntries(p, m) PROVE CommitShape
    <2>1. /\ currentTerm' = [currentTerm EXCEPT ![p] = m.term]
          /\ role' = [role EXCEPT ![p] = "Follower"]
          /\ votesReceived' = [votesReceived EXCEPT ![p] = {}]
          /\ UNCHANGED <<commitIndex, matchIndexes>>
          /\ Exchange({m}, AppendEntriesResponse(p, m, m.term, FALSE,
                              MatchingIndexFor(log[p], m, m.entries)))
      BY <1>4, Zenon DEF RejectEntries, FollowLeader, logVars
    <2>2. \A r \in msgs' \ msgs : r.type = "AppendEntriesResponse" /\ r.success = FALSE
      BY <2>1, ExchangeAdds DEF AppendEntriesResponse, SendTo
    <2> QED
      BY <1>1, <2>1, <2>2, NewFollowerVotes, QuietCommit, Zenon DEF Ack
  <1> QED
    BY <1>2, <1>3, <1>4

LEMMA AcceptCommits ==
    ASSUME LogInv, ElectionInv, NEW p \in Peers, NEW m \in msgs, AcceptEntries(p, m)
    PROVE  CommitShape
  <1> DEFINE lg == AppendedLog(log[p], m)
             n  == m.prevLogIndex + Len(m.entries)
  <1>1. /\ currentTerm' = [currentTerm EXCEPT ![p] = m.term]
        /\ role' = [role EXCEPT ![p] = "Follower"]
        /\ votesReceived' = [votesReceived EXCEPT ![p] = {}]
        /\ log' = [log EXCEPT ![p] = AppendedLog(@, m)]
        /\ commitIndex' = [commitIndex EXCEPT ![p] = FollowerCommit(p, m, lg)]
        /\ Exchange({m}, AppendEntriesResponse(p, m, m.term, TRUE, n))
        /\ UNCHANGED matchIndexes
        /\ m.type = "AppendEntries"
        /\ CanAppend(p, m)
    BY Zenon DEF AcceptEntries, FollowLeader
  <1>2. m.term >= currentTerm[p]
    BY Zenon DEF AcceptEntries, AcceptsLeader
  <1>3. ElectionTypes
    BY DEF ElectionInv
  <1>4. \A r \in msgs' \ msgs : /\ r.type = "AppendEntriesResponse"
                                /\ r.from = p
                                /\ r.to = m.from
                                /\ r.term = m.term
                                /\ r.matchIndex = n
    BY <1>1, ExchangeAdds DEF AppendEntriesResponse, SendTo
  <1>5. FollowerTakes(p, m)
    <2>1. NoNewLeader(Peers)
      BY <1>1, <1>3 DEF NoNewLeader, ElectionTypes
    <2>2. currentTerm'[p] = m.term /\ role'[p] = "Follower"
      BY <1>1, <1>3 DEF ElectionTypes
    <2> QED
      BY <1>1, <1>2, <2>1, <2>2 DEF FollowerTakes
  <1>6. VoteShapes
    BY <1>1, <1>3, <1>4, NewFollowerVotes, QuietVotes, Zenon
  <1>7. NewAcks
    BY <1>4, <1>5 DEF NewAcks
  <1>8. MatchMoves
    BY <1>1, <1>3 DEF MatchMoves, ElectionTypes
  <1>9. CommitMoves
    <2>1. log'[p] = lg /\ commitIndex'[p] = FollowerCommit(p, m, lg)
      BY <1>1 DEF LogInv
    <2>2. \A q \in Peers \ {p} : commitIndex'[q] = commitIndex[q]
      BY <1>1 DEF LogInv
    <2> QED
      BY <1>5, <2>1, <2>2, Zenon DEF CommitMoves
  <1> QED
    BY <1>6, <1>7, <1>8, <1>9, Zenon DEF CommitShape

LEMMA AnswerCommits ==
    ASSUME LogInv, ElectionInv, NEW p \in Peers, NEW m \in msgs,
           \/ HandleAppendEntriesSuccess(p, m)
           \/ HandleAppendEntriesFailure(p, m)
           \/ IgnoreAnswer(p, m)
    PROVE  CommitShape
  <1>1. ElectionTypes
    BY DEF ElectionInv
  <1>2. ASSUME IgnoreAnswer(p, m) PROVE CommitShape
    <2>1. /\ UNCHANGED <<role, currentTerm, votesReceived, commitIndex, matchIndexes>>
          /\ Exchange({m}, {})
      BY <1>2 DEF IgnoreAnswer, electionVars, logVars
    <2>2. msgs' \subseteq msgs
      BY <2>1, ExchangeAdds
    <2> QED
      BY <1>1, <2>1, <2>2, NoVotesSent, QuietCommit, Zenon
  <1>3. ASSUME HandleAppendEntriesSuccess(p, m) PROVE CommitShape
    <2> DEFINE match == [matchIndexes[p] EXCEPT ![m.from] = MaxOf(@, m.matchIndex)]
               c     == AdvancedCommitIndex(p, participants[p], currentTerm[p], log[p],
                                            match)
    <2>1. /\ m.type = "AppendEntriesResponse"
          /\ m.to = p
          /\ m.success
          /\ role[p] = "Leader"
          /\ m.term = currentTerm[p]
          /\ matchIndexes' = [matchIndexes EXCEPT ![p] = match]
          /\ commitIndex' = [commitIndex EXCEPT ![p] = c]
          /\ Exchange({m}, {})
          /\ UNCHANGED <<role, currentTerm, votesReceived, log>>
      BY <1>3, Zenon DEF HandleAppendEntriesSuccess, CountsAnswer, AdvanceCommitIndex,
         electionVars
    <2>2. msgs' \subseteq msgs
      BY <2>1, ExchangeAdds
    <2>3. VoteShapes
      BY <2>1, <2>2, NoVotesSent, QuietVotes
    <2>4. NewAcks
      BY <2>2 DEF NewAcks
    <2> HIDE DEF c
    <2>5. m.from \in Peers /\ m.matchIndex \in Nat
      BY <1>1, <2>1, Zenon DEF ElectionTypes, LogInv, LogMessageOK
    <2>6. /\ matchIndexes'[p] = match
          /\ match \in [Peers -> Nat]
          /\ match[m.from] \in {matchIndexes[p][m.from], m.matchIndex}
          /\ \A q \in Peers \ {m.from} : match[q] = matchIndexes[p][q]
          /\ \A r \in Peers \ {p} : matchIndexes'[r] = matchIndexes[r]
      BY <2>1, <2>5 DEF LogInv, MaxOf
    <2> HIDE DEF match
    <2>7. MatchMoves
      <3> SUFFICES ASSUME NEW r \in Peers, NEW q \in Peers, role'[r] = "Leader"
                   PROVE  /\ role[r] = "Leader"
                          /\ \/ matchIndexes'[r][q] = matchIndexes[r][q]
                             \/ Answers(r, q)
        BY DEF MatchMoves
      <3>1. role[r] = "Leader"
        BY <2>1
      <3>2. ASSUME r = p, q = m.from, match[q] = m.matchIndex PROVE Answers(r, q)
        BY <2>1, <2>6, <3>2 DEF Answers
      <3> QED
        BY <2>6, <3>1, <3>2
    <2>8. PICK v \in Views : participants[p] = v \cup {p}
      BY <2>1 DEF ElectionInv, ViewsOK
    <2>9. c = commitIndex[p]
          \/ HeldByMajority(c, participants[p], currentTerm[p], log[p], match)
      BY AdvancedTo DEF c, LogInv
    <2>10. /\ commitIndex'[p] = c
           /\ \A r \in Peers \ {p} : commitIndex'[r] = commitIndex[r]
      BY <2>1 DEF LogInv
    <2>11. commitIndex'[p] = commitIndex[p] \/ LeaderCommits(p)
      <3>1. SUFFICES ASSUME HeldByMajority(c, participants[p], currentTerm[p], log[p], match)
                     PROVE  LeaderCommits(p)
        BY <2>9, <2>10, Zenon
      <3>2. /\ c \in 1 .. Len(log[p])
            /\ log[p][c].term = currentTerm[p]
            /\ IsMajority({q \in participants[p] : match[q] >= c}, participants[p])
        BY <3>1, Zenon DEF HeldByMajority
      <3>3. /\ role'[p] = "Leader"
            /\ commitIndex'[p] \in 1 .. Len(log'[p])
            /\ log'[p][commitIndex'[p]].term = currentTerm'[p]
        BY <2>1, <2>10, <3>2, Zenon
      <3>4. IsMajority({q \in v \cup {p} : matchIndexes'[p][q] >= commitIndex'[p]}, v \cup {p})
        BY <2>6, <2>8, <2>10, <3>2, Zenon
      <3> QED
        BY <3>3, <3>4, Zenon DEF LeaderCommits
    <2>12. CommitMoves
      BY <2>10, <2>11 DEF CommitMoves
    <2> QED
      BY <2>3, <2>4, <2>7, <2>12 DEF CommitShape
  <1>4. ASSUME HandleAppendEntriesFailure(p, m) PROVE CommitShape
    <2> DEFINE held  == MinOf(m.matchIndex, Len(log[p]))
               match == [matchIndexes[p] EXCEPT ![m.from] = held]
               AE    == AppendEntriesFor(p, m.from, currentTerm[p], log[p], match,
                                         store[p])
    <2>1. /\ m.type = "AppendEntriesResponse"
          /\ m.to = p
          /\ ~m.success
          /\ role[p] = "Leader"
          /\ m.term = currentTerm[p]
          /\ matchIndexes' = [matchIndexes EXCEPT ![p] = match]
          /\ \E again \in {{}, AE} : Exchange({m}, SendTo(p, again))
          /\ UNCHANGED <<role, currentTerm, votesReceived, log, commitIndex>>
      BY <1>4, Zenon DEF HandleAppendEntriesFailure, CountsAnswer, electionVars
    <2>2. \A n \in AE : n.type = "AppendEntries"
      BY AppendEntriesForSent
    <2> HIDE DEF AE
    <2>3. \A n \in msgs' \ msgs : n.type = "AppendEntries"
      BY <2>1, <2>2, ExchangeAdds DEF SendTo
    <2>4. VoteShapes
      BY <2>1, <2>3, NoVotesSent, QuietVotes
    <2>5. NewAcks
      BY <2>3 DEF NewAcks, Ack
    <2>6. m.from \in Peers
      BY <1>1 DEF ElectionTypes
    <2>7. /\ matchIndexes'[p][m.from] = held
          /\ \A q \in Peers \ {m.from} : matchIndexes'[p][q] = matchIndexes[p][q]
          /\ \A r \in Peers \ {p} : matchIndexes'[r] = matchIndexes[r]
      BY <2>1, <2>6, Zenon DEF LogInv
    <2>8. MatchMoves
      <3> SUFFICES ASSUME NEW r \in Peers, NEW q \in Peers, role'[r] = "Leader"
                   PROVE  /\ role[r] = "Leader"
                          /\ \/ matchIndexes'[r][q] = matchIndexes[r][q]
                             \/ Answers(r, q)
        BY DEF MatchMoves
      <3>1. role[r] = "Leader"
        BY <2>1
      <3>2. ASSUME r = p, q = m.from PROVE Answers(r, q)
        BY <2>1, <2>7, <3>2 DEF Answers
      <3> QED
        BY <2>7, <3>1, <3>2
    <2>9. CommitMoves
      BY <2>1, Zenon DEF CommitMoves
    <2> QED
      BY <2>4, <2>5, <2>8, <2>9 DEF CommitShape
  <1> QED
    BY <1>2, <1>3, <1>4

LEMMA ClientCommits ==
    ASSUME LogInv, ElectionInv, NEW p \in Peers, NEW tx, ClientTransaction(p, tx)
    PROVE  CommitShape
  <1> DEFINE s == StageClientTransaction(store[p], tx)
             h == NewBlock(store[p], store[p].mempool \cup {tx}).hash
  <1>1. /\ role[p] = "Leader"
        /\ UNCHANGED <<role, currentTerm, votesReceived>>
        /\ \/ AppendAsLeader(p, participants[p], currentTerm[p], h,
                             matchIndexes[p], s, {}, {})
           \/ UNCHANGED <<commitIndex, matchIndexes, msgs>>
    BY Zenon DEF ClientTransaction, electionVars
  <1> HIDE DEF s, h
  <1>2. ElectionTypes
    BY Zenon DEF ElectionInv
  <1>3. CASE UNCHANGED <<commitIndex, matchIndexes, msgs>>
    BY <1>1, <1>2, <1>3, NoVotesSent, QuietCommit, Zenon
  <1>4. CASE AppendAsLeader(p, participants[p], currentTerm[p], h,
                            matchIndexes[p], s, {}, {})
    <2>1. participants[p] \in SUBSET Peers /\ matchIndexes[p] \in [Peers -> Nat]
      BY DEF LogInv
    <2>2. currentTerm[p] \in Nat /\ currentTerm'[p] = currentTerm[p] /\ role'[p] = "Leader"
      BY <1>1, <1>2, Zenon DEF ElectionTypes
    <2>3. \A n \in msgs' \ msgs : n.type = "AppendEntries"
      BY <1>4, <2>1, <2>2, AppendOnlySends, Zenon
    <2>4. VoteShapes
      BY <1>1, <2>3, NoVotesSent, QuietVotes, Zenon
    <2>5. PICK v \in Views : participants[p] = v \cup {p}
      BY <1>1, Zenon DEF ElectionInv, ViewsOK
    <2>6. NoNewLeader(Peers \ {p})
      BY <1>1 DEF NoNewLeader
    <2>7. \A n \in {} : ~Ack(n)
      BY Zenon
    <2>8. NewAcks /\ MatchMoves /\ CommitMoves
      BY <1>1, <1>4, <2>1, <2>2, <2>5, <2>6, <2>7, AppendCommits
    <2> QED
      BY <2>4, <2>8 DEF CommitShape
  <1> QED
    BY <1>1, <1>3, <1>4, Zenon

LEMMA NextCommits ==
    ASSUME LogInv, ElectionInv, [Next]_vars
    PROVE  CommitShape
  <1>1. ASSUME UNCHANGED vars PROVE CommitShape
    BY <1>1, NoVotesSent, QuietCommit
       DEF vars, electionVars, logVars, ElectionInv
  <1>2. ASSUME NEW p \in Peers, NEW m \in msgs, Receive(p, m) PROVE CommitShape
    BY <1>2, RequestVoteCommits, FollowCommits, HandleVoteCommits, AcceptCommits,
       AnswerCommits DEF Receive
  <1>3. ASSUME NEW p \in Peers, Tick(p) PROVE CommitShape
    BY <1>3, TickCommits, StartElectionCommits DEF Tick
  <1> QED
    BY <1>1, <1>2, <1>3, ClientCommits, Zenon DEF Next
=============================================================================
