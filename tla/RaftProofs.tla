----------------------------- MODULE RaftProofs -----------------------------
(***************************************************************************)
(* At most one leader per term: for any set of peers, any views discovery  *)
(* reports whose majorities meet, and any bounds.  Every action of module  *)
(* Raft keeps ElectionInv.                                                 *)
(***************************************************************************)
EXTENDS Raft, RaftVotes, TLAPS

USE SMTT(30), ZenonT(30)
----------------------------------------------------------------------------
(* Who was elected stays elected.                                          *)

\* What a voter has shown it has shown for good.
LEMMA VotedStays ==
    ASSUME ElectionTypes, ElectionTypes', VotesKept,
           NEW q \in Peers, NEW p \in Peers, NEW t \in Nat, Voted(q, p, t)
    PROVE  Voted(q, p, t)'
  <1>1. /\ currentTerm[q] \in Nat
        /\ currentTerm'[q] \in Nat
    BY DEF ElectionTypes
  <1>2. p # None
    BY RaftAssumption
  <1> QED
    BY <1>1, <1>2 DEF Voted, VotesKept

\* Who was elected stays elected.
LEMMA ElectedStays ==
    ASSUME ElectionInv, ElectionInv', MajoritiesMeet, VotesKept,
           CandidatesCount, LeadersCounted, LeadersStay,
           NEW q \in Peers, NEW t \in Nat, WasElected(q, t)
    PROVE  WasElected(q, t)'
  <1>0. ElectionTypes /\ ElectionTypes'
    BY DEF ElectionInv
  <1>1. PICK V \in SUBSET Peers : ElectedBy(V, q, t)
    BY DEF WasElected
  <1>2. Leads(q, t)'
    <2>1. currentTerm[q] \in Nat /\ currentTerm'[q] \in Nat
      BY <1>0 DEF ElectionTypes
    <2> QED
      BY <2>1 DEF WasElected, Leads, LeadersStay, VotesKept
  <1>3. \A x \in V : Voted(x, q, t)'
    BY <1>0, <1>1, VotedStays DEF ElectedBy
  <1>4. ASSUME NEW r \in Peers \ {q}, currentTerm'[r] = t, NEW x \in V
        PROVE  ~MayCount(x, r)
    BY <1>1, <1>4 DEF MayCount, ElectedBy
  <1>5. ASSUME NEW r \in Peers \ {q}, currentTerm'[r] = t, role'[r] = "Leader"
        PROVE  FALSE
    <2>1. ~(role[r] = "Leader" /\ currentTerm[r] = currentTerm'[r])
      BY <1>1, <1>5 DEF ElectedBy
    <2>2. PICK v \in Views : \E T \in SUBSET Peers :
              /\ T \subseteq v \cup {r}
              /\ IsMajority(T, v \cup {r})
              /\ \A x \in T : MayCount(x, r)
      BY <1>5, <2>1, Zenon DEF LeadersCounted, MayCountMajority
    <2>3. PICK T \in SUBSET Peers : /\ T \subseteq v \cup {r}
                                    /\ IsMajority(T, v \cup {r})
                                    /\ \A x \in T : MayCount(x, r)
      BY <2>2
    <2>4. PICK w \in Views : V \subseteq w \cup {q} /\ IsMajority(V, w \cup {q})
      BY <1>1, Zenon DEF ElectedBy
    <2>5. V \cap T # {}
      BY <2>3, <2>4, Zenon DEF MajoritiesMeet
    <2> QED
      BY <2>3, <2>5, <1>4, <1>5
  <1>6. ASSUME NEW r \in Peers \ {q}, currentTerm'[r] = t, role'[r] = "Candidate",
               NEW x \in V
        PROVE  ~VotesFor(x, r)'
    BY <1>4, <1>6 DEF CandidatesCount
  <1>7. ElectedBy(V, q, t)'
    BY <1>1, <1>3, <1>5, <1>6, Zenon DEF ElectedBy
  <1> QED
    BY <1>2, <1>7 DEF WasElected

\* A leader is elected.
LEMMA LeaderElected ==
    ASSUME ElectionInv', NEW p \in Peers, NEW t, role'[p] = "Leader",
           currentTerm'[p] = t
    PROVE  WasElected(p, t)'
  <1>1. PICK V \in SUBSET Peers : Elects(V, p)'
    BY DEF ElectionInv, LeaderOK
  <1>2. ElectionSafety'
    BY DEF ElectionInv
  <1>3. ElectedBy(V, p, t)'
    BY <1>1, <1>2, Zenon DEF ElectedBy, Elects, ElectionSafety, Voted
  <1> QED
    BY <1>3 DEF WasElected, Leads

LEMMA ElectionStep ==
    ASSUME ElectionInv, ElectionInv', MajoritiesMeet, ElectionKept
    PROVE  ElectionsLast
  <1> SUFFICES ASSUME NEW q \in Peers, NEW t \in Nat,
                      \/ WasElected(q, t)
                      \/ role'[q] = "Leader" /\ currentTerm'[q] = t
               PROVE  WasElected(q, t)'
    BY DEF ElectionsLast
  <1>1. CASE WasElected(q, t)
    BY <1>1, ElectedStays DEF ElectionKept
  <1>2. CASE role'[q] = "Leader" /\ currentTerm'[q] = t
    BY <1>2, LeaderElected
  <1> QED
    BY <1>1, <1>2
----------------------------------------------------------------------------
(* What the steps send.                                                    *)

\* The messages a step adds concern replication.
ReplicationMessages ==
    \A m \in msgs' \ msgs :
        /\ m.type \in {"AppendEntries", "AppendEntriesResponse"}
        /\ m.from \in Peers
        /\ m.to \in Peers
        /\ m.term \in Nat

LEMMA ExchangeAdds ==
    ASSUME NEW taken, NEW M, Exchange(taken, M)
    PROVE  msgs' \subseteq msgs \cup M
  BY DEF Exchange

LEMMA AppendEntriesForSent ==
    ASSUME NEW p, NEW q, NEW term, NEW lg, NEW match, NEW s,
           NEW m \in AppendEntriesFor(p, q, term, lg, match, s)
    PROVE  /\ m.type = "AppendEntries"
           /\ m.from = p
           /\ m.to = q
           /\ m.term = term
  BY DEF AppendEntriesFor

LEMMA AppendEntriesSent ==
    ASSUME NEW p, NEW Q, NEW term, NEW lg, NEW match, NEW s,
           NEW m \in AppendEntriesForFollowers(p, Q, term, lg, match, s)
    PROVE  /\ m.type = "AppendEntries"
           /\ m.from = p
           /\ m.to \in Q \ {p}
           /\ m.term = term
  <1>1. PICK q \in Q \ {p} : m \in AppendEntriesFor(p, q, term, lg, match, s)
    BY DEF AppendEntriesForFollowers, SendTo
  <1> QED
    BY <1>1, AppendEntriesForSent

LEMMA AppendAsLeaderSends ==
    ASSUME NEW p \in Peers, NEW Q \in SUBSET Peers, NEW term \in Nat, NEW hash,
           NEW match, NEW s, NEW taken, NEW M,
           AppendAsLeader(p, Q, term, hash, match, s, taken, M)
    PROVE  \A m \in msgs' \ (msgs \cup M) :
              /\ m.type = "AppendEntries"
              /\ m.from = p
              /\ m.to \in Peers \ {p}
              /\ m.term = term
  <1> DEFINE lg  == Append(log[p], [term |-> term, hash |-> hash])
             own == [match EXCEPT ![p] = Len(lg)]
             AE  == AppendEntriesForFollowers(p, Q, term, lg, own, s)
  <1>1. Exchange(taken, M \cup AE)
    BY DEF AppendAsLeader
  <1>2. msgs' \subseteq msgs \cup (M \cup AE)
    BY <1>1, ExchangeAdds, Zenon
  <1>3. \A m \in AE : /\ m.type = "AppendEntries"
                      /\ m.from = p
                      /\ m.to \in Q \ {p}
                      /\ m.term = term
    BY AppendEntriesSent
  <1> QED
    BY <1>2, <1>3, Zenon

\* A leader that appends an entry and sends nothing besides.
LEMMA AppendOnlySends ==
    ASSUME NEW p \in Peers, NEW Q \in SUBSET Peers, NEW term \in Nat, NEW hash,
           NEW match, NEW s, NEW taken,
           AppendAsLeader(p, Q, term, hash, match, s, taken, {})
    PROVE  \A n \in msgs' \ msgs : /\ n.type = "AppendEntries"
                                   /\ n.from = p
                                   /\ n.to \in Peers \ {p}
                                   /\ n.term = term
  <1>1. \A M : AppendAsLeader(p, Q, term, hash, match, s, taken, M) =>
            \A n \in msgs' \ (msgs \cup M) : /\ n.type = "AppendEntries"
                                             /\ n.from = p
                                             /\ n.to \in Peers \ {p}
                                             /\ n.term = term
    BY AppendAsLeaderSends
  <1>2. \A n \in msgs' \ (msgs \cup {}) : /\ n.type = "AppendEntries"
                                          /\ n.from = p
                                          /\ n.to \in Peers \ {p}
                                          /\ n.term = term
    BY <1>1, Zenon
  <1> QED
    BY <1>2
----------------------------------------------------------------------------
(* Elections: the quiet steps.                                             *)

\* No peer becomes candidate or leader, and no vote is asked for or given.
NoNewVotes ==
    /\ \A p \in Peers : role'[p] # "Follower" =>
          /\ role'[p] = role[p]
          /\ currentTerm'[p] = currentTerm[p]
          /\ votesReceived'[p] \subseteq votesReceived[p]
    /\ \A m \in msgs' : m.type = "RequestVote" \/ Grant(m) => m \in msgs

\* A step that neither asks for nor gives votes keeps the invariant.
LEMMA QuietStep ==
    ASSUME ElectionInv, ElectionTypes', VotesKept, NoNewVotes,
           \A p \in Peers : ViewsOK(p)'
    PROVE  ElectionInv'
  <1>1. ASSUME NEW p \in Peers, NEW q \in Peers, role'[p] # "Follower",
               VotesFor(q, p)'
        PROVE  VotesFor(q, p)
    BY <1>1 DEF VotesFor, NoNewVotes
  <1>2. ASSUME NEW p \in Peers PROVE CandidateOK(p)'
    <2>1. SUFFICES ASSUME role'[p] = "Candidate", NEW q \in votesReceived'[p]
                   PROVE  Voted(q, p, currentTerm[p])'
      BY DEF CandidateOK
    <2>2. /\ role[p] = "Candidate"
          /\ currentTerm'[p] = currentTerm[p]
          /\ q \in votesReceived[p]
      BY <2>1 DEF NoNewVotes
    <2>3. q \in Peers /\ currentTerm[p] \in Nat
      BY <2>2 DEF ElectionTypes
    <2>4. Voted(q, p, currentTerm[p])
      BY <2>2 DEF CandidateOK, ElectionInv
    <2> QED
      BY <2>2, <2>3, <2>4, VotedStays DEF Voted, ElectionInv
  <1>3. ASSUME NEW p \in Peers PROVE LeaderOK(p)'
    <2>1. SUFFICES ASSUME role'[p] = "Leader"
                   PROVE  \E V \in SUBSET Peers : Elects(V, p)'
      BY DEF LeaderOK
    <2>2. role[p] = "Leader" /\ currentTerm'[p] = currentTerm[p]
      BY <2>1 DEF NoNewVotes
    <2>3. PICK V \in SUBSET Peers : Elects(V, p)
      BY <2>2 DEF LeaderOK, ElectionInv
    <2>4. ASSUME NEW q \in V PROVE Voted(q, p, currentTerm[p])'
      <3>1. q \in Peers /\ currentTerm[p] \in Nat /\ Voted(q, p, currentTerm[p])
        BY <2>3, <2>4 DEF ElectionTypes, Elects, ElectionInv
      <3> QED
        BY <3>1, <2>2, VotedStays DEF Voted, ElectionInv
    <2>5. ASSUME NEW r \in Peers, role'[r] = "Candidate",
                 currentTerm'[r] = currentTerm'[p], NEW q \in V
          PROVE  ~VotesFor(q, r)'
      <3>1. role[r] = "Candidate" /\ currentTerm[r] = currentTerm[p]
        BY <2>5, <2>2 DEF NoNewVotes
      <3>2. ~VotesFor(q, r)
        BY <3>1, <2>3 DEF Elects
      <3> QED
        BY <3>2, <2>5, <1>1
    <2> QED
      BY <2>3, <2>4, <2>5, Zenon DEF Elects
  <1>4. ASSUME NEW m \in msgs' PROVE MessageOK(m)'
    <2>1. CASE ~(m.type = "RequestVote" \/ Grant(m))
      BY <2>1 DEF MessageOK, Grant
    <2>2. CASE m.type = "RequestVote" \/ Grant(m)
      <3>1. m \in msgs /\ MessageOK(m)
        BY <2>2, <1>4 DEF NoNewVotes, ElectionInv
      <3>2. m.from \in Peers /\ m.to \in Peers /\ m.term \in Nat
        BY <3>1 DEF ElectionTypes
      <3>3. ASSUME NEW q \in Peers, m.term <= currentTerm[q]
            PROVE  m.term <= currentTerm'[q]
        BY <3>2, <3>3 DEF VotesKept, ElectionTypes, ElectionInv
      <3>4. Grant(m) => Voted(m.from, m.to, m.term)'
        BY <3>1, <3>2, VotedStays DEF MessageOK, ElectionInv
      <3> QED
        BY <3>1, <3>2, <3>3, <3>4 DEF MessageOK, Grant
    <2> QED
      BY <2>1, <2>2
  <1>5. ASSUME NEW p \in Peers, NEW r \in Peers PROVE Separate(p, r)'
    <2>1. SUFFICES ASSUME role'[p] = "Candidate", role'[r] = "Candidate", p # r,
                          currentTerm'[p] = currentTerm'[r], NEW q \in Peers,
                          VotesFor(q, p)', VotesFor(q, r)'
                   PROVE  FALSE
      BY DEF Separate
    <2>2. /\ role[p] = "Candidate"
          /\ role[r] = "Candidate"
          /\ currentTerm[p] = currentTerm[r]
      BY <2>1 DEF NoNewVotes
    <2> QED
      BY <2>1, <2>2, <1>1 DEF Separate, ElectionInv
  <1>6. ElectionSafety'
    BY DEF ElectionSafety, NoNewVotes, ElectionInv
  <1> QED
    BY <1>2, <1>3, <1>4, <1>5, <1>6 DEF ElectionInv

\* A step that leaves elections alone.
LEMMA ReplicationStep ==
    ASSUME ElectionInv, UNCHANGED <<viewVars, electionVars>>, ReplicationMessages
    PROVE  ElectionInv'
  <1> USE DEF viewVars, electionVars
  <1>1. ElectionTypes'
    BY DEF ElectionTypes, ReplicationMessages, ElectionInv
  <1>2. VotesKept
    BY DEF VotesKept, ElectionTypes
  <1>3. NoNewVotes
    BY DEF NoNewVotes, ReplicationMessages, Grant
  <1>4. \A p \in Peers : ViewsOK(p)'
    BY DEF ViewsOK, ElectionInv
  <1> QED
    BY <1>1, <1>2, <1>3, <1>4, QuietStep

\* A peer p becomes or stays a follower, in its term or a later one.
LEMMA FollowerElection ==
    ASSUME ElectionInv, NEW p \in Peers, NEW t \in Nat, t >= currentTerm[p],
           NEW vote \in Peers \cup {None}, NEW leader \in Peers \cup {None},
           t = currentTerm[p] => votedFor[p] \in {None, vote},
           currentTerm' = [currentTerm EXCEPT ![p] = t],
           votedFor' = [votedFor EXCEPT ![p] = vote],
           leaderId' = [leaderId EXCEPT ![p] = leader],
           role' = [role EXCEPT ![p] = "Follower"],
           votesReceived' = [votesReceived EXCEPT ![p] = {}],
           UNCHANGED viewVars, ReplicationMessages
    PROVE  ElectionInv'
  <1> USE DEF viewVars
  <1>1. ElectionTypes'
    BY DEF ElectionTypes, ReplicationMessages, ElectionInv
  <1>2. VotesKept
    BY DEF VotesKept, ElectionTypes, ElectionInv
  <1>3. NoNewVotes
    BY DEF NoNewVotes, ElectionTypes, ReplicationMessages, Grant, ElectionInv
  <1>4. ASSUME NEW q \in Peers PROVE ViewsOK(q)'
    BY DEF ViewsOK, ElectionTypes, ElectionInv
  <1> QED
    BY <1>1, <1>2, <1>3, <1>4, QuietStep

LEMMA UpdatePeersElection ==
    ASSUME ElectionInv, NEW p \in Peers, UpdatePeers(p)
    PROVE  ElectionInv'
  <1> USE DEF electionVars
  <1>1. PICK view \in Views :
            /\ known' = [known EXCEPT ![p] = view \ {p}]
            /\ UNCHANGED <<participants, electionVars, msgs>>
    BY Zenon DEF UpdatePeers
  <1>2. ElectionTypes'
    BY <1>1, RaftAssumption DEF ElectionTypes, ElectionInv
  <1>3. VotesKept
    BY <1>1 DEF VotesKept, ElectionTypes
  <1>4. NoNewVotes
    BY <1>1 DEF NoNewVotes
  <1>5. ASSUME NEW q \in Peers PROVE ViewsOK(q)'
    BY <1>1 DEF ViewsOK, ElectionTypes, ElectionInv
  <1> QED
    BY <1>2, <1>3, <1>4, <1>5, QuietStep

\* The part of a tick that comes before the timers are looked at.
LEMMA TickElection ==
    ASSUME ElectionInv, NEW p \in Peers, UpdateParticipants(p),
           votesReceived' =
               [votesReceived EXCEPT ![p] = @ \cap TickParticipants(p)],
           UNCHANGED <<known, currentTerm, votedFor, leaderId, role>>,
           ReplicationMessages
    PROVE  ElectionInv'
  <1>1. TickParticipants(p) \in SUBSET Peers
    BY DEF TickParticipants, ElectionTypes, ElectionInv
  <1>2. ElectionTypes'
    BY <1>1 DEF ElectionTypes, UpdateParticipants, ReplicationMessages, ElectionInv
  <1>3. VotesKept
    BY DEF VotesKept, ElectionTypes
  <1>4. NoNewVotes
    BY DEF NoNewVotes, ElectionTypes, ReplicationMessages, Grant
  <1>5. ASSUME NEW q \in Peers PROVE ViewsOK(q)'
    <2>1. CASE q # p
      BY <2>1 DEF ViewsOK, ElectionTypes, UpdateParticipants, ElectionInv
    <2>2. CASE q = p
      <3>1. PICK v \in Views : known[p] = v \ {p}
        BY DEF ViewsOK, ElectionInv
      <3>2. participants'[p] = v \cup {p} /\ known'[p] = v \ {p}
        BY <3>1 DEF UpdateParticipants, TickParticipants, ElectionTypes, ElectionInv
      <3>3. votesReceived'[p] \subseteq participants'[p]
        BY DEF UpdateParticipants, ElectionTypes, ElectionInv
      <3> QED
        BY <2>2, <3>2, <3>3 DEF ViewsOK
    <2> QED
      BY <2>1, <2>2
  <1> QED
    BY <1>2, <1>3, <1>4, <1>5, QuietStep

LEMMA HandleNewerTermElection ==
    ASSUME ElectionInv, NEW p \in Peers, NEW m \in msgs, HandleNewerTerm(p, m)
    PROVE  ElectionInv'
  <1>1. /\ m.term \in Nat
        /\ m.term >= currentTerm[p]
        /\ m.term # currentTerm[p]
    <2>1. m.term > currentTerm[p]
      BY Zenon DEF HandleNewerTerm
    <2>2. m.term \in Nat /\ currentTerm[p] \in Nat
      BY Zenon DEF ElectionInv, ElectionTypes
    <2> QED
      BY <2>1, <2>2
  <1>2. msgs' \subseteq msgs \cup {}
    BY ExchangeAdds DEF HandleNewerTerm
  <1>3. ReplicationMessages
    BY <1>2 DEF ReplicationMessages
  <1>4. StepDown(p, m.term) /\ UNCHANGED viewVars
    BY DEF HandleNewerTerm
  <1>5. None \in Peers \cup {None}
    OBVIOUS
  <1> QED
    BY <1>1, <1>3, <1>4, <1>5, FollowerElection, Zenon DEF StepDown

\* An answer to an AppendEntries.
LEMMA AnswerSent ==
    ASSUME ElectionInv, NEW p \in Peers, NEW m \in msgs, NEW term \in Nat,
           NEW success, NEW match,
           Exchange({m}, AppendEntriesResponse(p, m, term, success, match))
    PROVE  ReplicationMessages
  <1>1. msgs' \subseteq msgs \cup AppendEntriesResponse(p, m, term, success, match)
    BY ExchangeAdds
  <1>2. m.from \in Peers
    BY DEF ElectionInv, ElectionTypes
  <1> QED
    BY <1>1, <1>2 DEF ReplicationMessages, AppendEntriesResponse, SendTo

LEMMA FollowLeaderElection ==
    ASSUME ElectionInv, NEW p \in Peers, NEW m \in msgs, FollowLeader(p, m),
           m.term >= currentTerm[p], UNCHANGED viewVars, ReplicationMessages
    PROVE  ElectionInv'
  <1>1. /\ m.term \in Nat
        /\ m.from \in Peers
        /\ currentTerm[p] \in Nat
        /\ votedFor[p] \in Peers \cup {None}
    BY DEF ElectionInv, ElectionTypes
  <1> DEFINE vote == IF m.term > currentTerm[p] THEN None ELSE votedFor[p]
  <1>2. vote \in Peers \cup {None}
    BY <1>1
  <1>3. m.term = currentTerm[p] => votedFor[p] \in {None, vote}
    BY <1>1
  <1>4. votedFor' = [votedFor EXCEPT ![p] = vote]
    BY DEF FollowLeader
  <1> HIDE DEF vote
  <1> QED
    BY <1>1, <1>2, <1>3, <1>4, FollowerElection, Zenon DEF FollowLeader

LEMMA AcceptedTerm ==
    ASSUME NEW p, NEW m, \E timedOut \in BOOLEAN : AcceptsLeader(p, m, timedOut)
    PROVE  m.term >= currentTerm[p]
  BY DEF AcceptsLeader

LEMMA ReceiveEntriesElection ==
    ASSUME ElectionInv, NEW p \in Peers, NEW m \in msgs,
           RejectLeader(p, m) \/ RejectEntries(p, m) \/ AcceptEntries(p, m)
    PROVE  ElectionInv'
  <1>1. m.term \in Nat /\ currentTerm[p] \in Nat
    BY DEF ElectionInv, ElectionTypes
  <1>2. CASE RejectLeader(p, m)
    <2>1. ReplicationMessages
      BY <1>1, <1>2, AnswerSent, Zenon DEF RejectLeader
    <2> QED
      BY <1>2, <2>1, ReplicationStep DEF RejectLeader
  <1>3. CASE RejectEntries(p, m)
    <2>1. ReplicationMessages
      BY <1>1, <1>3, AnswerSent, Zenon DEF RejectEntries
    <2>2. m.term >= currentTerm[p]
      BY <1>3, AcceptedTerm, Zenon DEF RejectEntries
    <2> QED
      BY <1>3, <2>1, <2>2, FollowLeaderElection DEF RejectEntries
  <1>4. CASE AcceptEntries(p, m)
    <2>1. ReplicationMessages
      BY <1>1, <1>4, AnswerSent, Zenon DEF AcceptEntries
    <2>2. m.term >= currentTerm[p]
      BY <1>4, AcceptedTerm DEF AcceptEntries
    <2> QED
      BY <1>4, <2>1, <2>2, FollowLeaderElection DEF AcceptEntries
  <1> QED
    BY <1>2, <1>3, <1>4

\* What a leader does with an answer, and an answer nobody waits for.
LEMMA AnswerElection ==
    ASSUME ElectionInv, NEW p \in Peers, NEW m \in msgs,
           \/ HandleAppendEntriesSuccess(p, m)
           \/ HandleAppendEntriesFailure(p, m)
           \/ IgnoreAnswer(p, m)
    PROVE  ElectionInv'
  <1>1. CASE HandleAppendEntriesSuccess(p, m)
    <2>1. msgs' \subseteq msgs \cup {}
      BY <1>1, ExchangeAdds DEF HandleAppendEntriesSuccess
    <2> QED
      BY <1>1, <2>1, ReplicationStep
         DEF HandleAppendEntriesSuccess, ReplicationMessages
  <1>2. CASE HandleAppendEntriesFailure(p, m)
    <2> DEFINE held  == MinOf(m.matchIndex, Len(log[p]))
               match == [matchIndexes[p] EXCEPT ![m.from] = held]
               AE    == AppendEntriesFor(p, m.from, currentTerm[p], log[p], match,
                                         store[p])
    <2>1. Exchange({m}, SendTo(p, IF held >= Len(log[p]) THEN {} ELSE AE))
      BY <1>2 DEF HandleAppendEntriesFailure
    <2>2. msgs' \subseteq msgs \cup AE
      BY <2>1, ExchangeAdds DEF SendTo
    <2>3. currentTerm[p] \in Nat /\ m.from \in Peers
      BY DEF ElectionInv, ElectionTypes
    <2>4. \A n \in AE : /\ n.type = "AppendEntries"
                        /\ n.from = p
                        /\ n.to = m.from
                        /\ n.term = currentTerm[p]
      BY AppendEntriesForSent
    <2>5. ReplicationMessages
      BY <2>2, <2>3, <2>4 DEF ReplicationMessages
    <2> QED
      BY <1>2, <2>5, ReplicationStep DEF HandleAppendEntriesFailure
  <1>3. CASE IgnoreAnswer(p, m)
    <2>1. msgs' \subseteq msgs \cup {}
      BY <1>3, ExchangeAdds DEF IgnoreAnswer
    <2> QED
      BY <1>3, <2>1, ReplicationStep DEF IgnoreAnswer, ReplicationMessages
  <1> QED
    BY <1>1, <1>2, <1>3

LEMMA ClientTransactionElection ==
    ASSUME ElectionInv, NEW p \in Peers, NEW tx, ClientTransaction(p, tx)
    PROVE  ElectionInv'
  <1> DEFINE hash == NewBlock(store[p], store[p].mempool \cup {tx}).hash
             s    == StageClientTransaction(store[p], tx)
  <1>1. /\ participants[p] \in SUBSET Peers
        /\ currentTerm[p] \in Nat
    BY DEF ElectionInv, ElectionTypes
  <1>2. \/ AppendAsLeader(p, participants[p], currentTerm[p], hash,
                          matchIndexes[p], s, {}, {})
        \/ UNCHANGED msgs
    BY DEF ClientTransaction
  <1>3. ReplicationMessages
    <2>1. CASE UNCHANGED msgs
      BY <2>1 DEF ReplicationMessages
    <2>2. CASE AppendAsLeader(p, participants[p], currentTerm[p], hash,
                              matchIndexes[p], s, {}, {})
      <3> HIDE DEF hash, s
      <3> QED
        BY <2>2, <1>1, AppendAsLeaderSends DEF ReplicationMessages
    <2> QED
      BY <1>2, <2>1, <2>2
  <1> QED
    BY <1>3, ReplicationStep DEF ClientTransaction
----------------------------------------------------------------------------
(* Elections: the steps that ask for, give and count votes.                *)

LEMMA VoterVoted ==
    ASSUME ElectionInv, NEW q \in Peers, NEW r \in Peers,
           role[r] = "Candidate", VotesFor(q, r)
    PROVE  Voted(q, r, currentTerm[r])
  <1>1. CASE q \in votesReceived[r]
    BY <1>1 DEF ElectionInv, CandidateOK
  <1>2. CASE \E m \in msgs : /\ Grant(m)
                             /\ m.from = q
                             /\ m.to = r
                             /\ m.term = currentTerm[r]
    BY <1>2 DEF ElectionInv, MessageOK
  <1> QED
    BY <1>1, <1>2 DEF VotesFor

\* A peer that grants m has shown no vote for anybody else in that term.
LEMMA FreeVote ==
    ASSUME ElectionInv, NEW p \in Peers, NEW m \in msgs, GrantsVote(p, m),
           NEW r \in Peers, r # m.from
    PROVE  ~Voted(p, r, m.term)
  <1>1. m.term \in Nat /\ currentTerm[p] \in Nat /\ r # None
    BY RaftAssumption DEF ElectionInv, ElectionTypes
  <1> QED
    BY <1>1 DEF GrantsVote, VoteInTerm, Voted

LEMMA GrantElection ==
    ASSUME ElectionInv, NEW p \in Peers, NEW m \in msgs,
           HandleRequestVote(p, m), GrantsVote(p, m),
           ElectionTypes', VotesKept, \A q \in Peers : ViewsOK(q)'
    PROVE  ElectionInv'
  <1> DEFINE c     == m.from
             reply == [type |-> "RequestVoteResponse", from |-> p, to |-> c,
                       term |-> MaxOf(currentTerm[p], m.term),
                       granted |-> GrantsVote(p, m)]
  <1>1. /\ c \in Peers
        /\ m.term \in Nat
        /\ currentTerm[p] \in Nat
        /\ m.term >= currentTerm[p]
        /\ m.term <= currentTerm[c]
    BY Zenon DEF ElectionTypes, GrantsVote, MessageOK, HandleRequestVote, ElectionInv
  <1>2. /\ reply.type = "RequestVoteResponse"
        /\ reply.from = p
        /\ reply.to = c
        /\ reply.term = m.term
    <2>1. MaxOf(currentTerm[p], m.term) = m.term
      BY <1>1 DEF MaxOf
    <2> QED
      BY <2>1
  <1>3. msgs' \subseteq msgs \cup {reply}
    BY ExchangeAdds DEF HandleRequestVote, SendTo
  <1>4. /\ currentTerm'[p] = m.term
        /\ votedFor'[p] = c
    <2>1. currentTerm'[p] = MaxOf(currentTerm[p], m.term)
      BY DEF HandleRequestVote, ElectionTypes
    <2>2. votedFor' = [votedFor EXCEPT ![p] =
                          IF GrantsVote(p, m) THEN m.from ELSE VoteInTerm(p, m)]
      BY DEF HandleRequestVote
    <2>3. votedFor' = [votedFor EXCEPT ![p] = m.from]
      BY <2>2, Zenon
    <2> QED
      BY <1>1, <2>1, <2>3 DEF MaxOf, ElectionTypes
  <1>5. ASSUME NEW q \in Peers, role'[q] # "Follower"
        PROVE  /\ role'[q] = role[q]
               /\ currentTerm'[q] = currentTerm[q]
               /\ votesReceived'[q] = votesReceived[q]
    BY <1>1, <1>5, Zenon DEF HandleRequestVote, MaxOf, ElectionTypes
  <1> HIDE DEF reply
  <1>6. ASSUME NEW q \in Peers, NEW r \in Peers, role'[r] # "Follower",
               VotesFor(q, r)', ~VotesFor(q, r)
        PROVE  q = p /\ r = c /\ currentTerm[r] = m.term
    BY <1>2, <1>3, <1>5, <1>6, Zenon DEF VotesFor
  <1>7. ASSUME NEW r \in Peers PROVE CandidateOK(r)'
    <2>1. SUFFICES ASSUME role'[r] = "Candidate", NEW q \in votesReceived'[r]
                   PROVE  Voted(q, r, currentTerm[r])'
      BY DEF CandidateOK
    <2>2. /\ role[r] = "Candidate"
          /\ currentTerm'[r] = currentTerm[r]
          /\ q \in votesReceived[r]
      BY <2>1, <1>5, Zenon
    <2>3. q \in Peers /\ currentTerm[r] \in Nat /\ Voted(q, r, currentTerm[r])
      BY <2>2 DEF ElectionTypes, CandidateOK, ElectionInv
    <2> QED
      BY <2>2, <2>3, VotedStays, Zenon DEF Voted, ElectionInv
  <1>8. ASSUME NEW l \in Peers PROVE LeaderOK(l)'
    <2>1. SUFFICES ASSUME role'[l] = "Leader"
                   PROVE  \E V \in SUBSET Peers : Elects(V, l)'
      BY DEF LeaderOK
    <2>2. role[l] = "Leader" /\ currentTerm'[l] = currentTerm[l]
      BY <2>1, <1>5, Zenon
    <2>3. PICK V \in SUBSET Peers : Elects(V, l)
      BY <2>2 DEF LeaderOK, ElectionInv
    <2>4. ASSUME NEW q \in V PROVE Voted(q, l, currentTerm[l])'
      <3>1. q \in Peers /\ currentTerm[l] \in Nat /\ Voted(q, l, currentTerm[l])
        BY <2>3 DEF ElectionTypes, Elects, ElectionInv
      <3> QED
        BY <3>1, <2>2, VotedStays, Zenon DEF Voted, ElectionInv
    <2>5. ASSUME NEW r \in Peers, role'[r] = "Candidate",
                 currentTerm'[r] = currentTerm'[l], NEW q \in V, VotesFor(q, r)'
          PROVE  FALSE
      <3>1. role[r] = "Candidate" /\ currentTerm[r] = currentTerm[l]
        BY <2>5, <2>2, <1>5
      <3>2. ~VotesFor(q, r) /\ Voted(q, l, currentTerm[l])
        BY <3>1, <2>3 DEF Elects
      <3>3. q = p /\ r = c /\ currentTerm[l] = m.term
        BY <3>1, <3>2, <2>5, <1>6
      <3>4. l # c
        BY <3>1, <3>3, <2>2
      <3> QED
        BY <3>2, <3>3, <3>4, FreeVote
    <2> QED
      BY <2>3, <2>4, <2>5, Zenon DEF Elects
  <1>9. ASSUME NEW n \in msgs' PROVE MessageOK(n)'
    <2>0. ASSUME NEW q \in Peers, NEW t \in Nat, t <= currentTerm[q]
          PROVE  t <= currentTerm'[q]
      BY <2>0 DEF VotesKept, ElectionTypes, ElectionInv
    <2>1. CASE n \in msgs
      <3>1. n.from \in Peers /\ n.to \in Peers /\ n.term \in Nat /\ MessageOK(n)
        BY <2>1, Zenon DEF ElectionTypes, ElectionInv
      <3>2. Grant(n) => Voted(n.from, n.to, n.term)'
        BY <3>1, VotedStays DEF MessageOK, ElectionInv
      <3> QED
        BY <3>1, <3>2, <2>0, Zenon DEF MessageOK, Grant
    <2>2. CASE n = reply
      BY <2>2, <2>0, <1>1, <1>2, <1>4 DEF MessageOK, Voted
    <2> QED
      BY <2>1, <2>2, <1>3, Zenon
  <1>10. ASSUME NEW x \in Peers, NEW r \in Peers PROVE Separate(x, r)'
    <2>1. SUFFICES ASSUME role'[x] = "Candidate", role'[r] = "Candidate", x # r,
                          currentTerm'[x] = currentTerm'[r], NEW q \in Peers,
                          VotesFor(q, x)', VotesFor(q, r)'
                   PROVE  FALSE
      BY DEF Separate
    <2>2. /\ role[x] = "Candidate"
          /\ role[r] = "Candidate"
          /\ currentTerm[x] = currentTerm[r]
      BY <2>1, <1>5
    <2>3. ASSUME NEW y \in Peers, NEW z \in Peers, y # z, role[z] = "Candidate",
                 currentTerm[y] = currentTerm[z], role'[y] = "Candidate",
                 VotesFor(q, y)', ~VotesFor(q, y), VotesFor(q, z)
          PROVE  FALSE
      <3>1. q = p /\ y = c /\ currentTerm[y] = m.term
        BY <2>3, <1>6
      <3>2. Voted(p, z, m.term)
        BY <2>3, <3>1, VoterVoted
      <3> QED
        BY <2>3, <3>1, <3>2, FreeVote
    <2>4. VotesFor(q, x) \/ VotesFor(q, r)
      BY <2>1, <1>6
    <2> QED
      BY <2>1, <2>2, <2>3, <2>4, Zenon DEF Separate, ElectionInv
  <1>11. ElectionSafety'
    BY <1>5 DEF ElectionSafety, ElectionInv
  <1> QED
    BY <1>7, <1>8, <1>9, <1>10, <1>11 DEF ElectionInv

LEMMA HandleRequestVoteElection ==
    ASSUME ElectionInv, NEW p \in Peers, NEW m \in msgs, HandleRequestVote(p, m)
    PROVE  ElectionInv'
  <1> DEFINE reply == [type |-> "RequestVoteResponse", from |-> p, to |-> m.from,
                       term |-> MaxOf(currentTerm[p], m.term),
                       granted |-> GrantsVote(p, m)]
  <1>1. /\ m.from \in Peers
        /\ m.term \in Nat
        /\ currentTerm[p] \in Nat
        /\ votedFor[p] \in Peers \cup {None}
    BY DEF ElectionTypes, ElectionInv
  <1>2. MaxOf(currentTerm[p], m.term) \in Nat
    BY <1>1 DEF MaxOf
  <1>3. msgs' \subseteq msgs \cup {reply}
    BY ExchangeAdds DEF HandleRequestVote, SendTo
  <1>4. ElectionTypes'
    <2>1. \A n \in msgs' : n.from \in Peers /\ n.to \in Peers /\ n.term \in Nat
      BY <1>1, <1>2, <1>3 DEF ElectionTypes, ElectionInv
    <2> QED
      BY <2>1, <1>1, <1>2, Zenon
         DEF ElectionTypes, HandleRequestVote, VoteInTerm, LeaderInTerm, viewVars,
             ElectionInv
  <1>5. VotesKept
    BY <1>1, Zenon DEF VotesKept, ElectionTypes, HandleRequestVote, VoteInTerm,
                GrantsVote, MaxOf, ElectionInv
  <1>6. ASSUME NEW q \in Peers PROVE ViewsOK(q)'
    BY Zenon DEF ViewsOK, ElectionTypes, HandleRequestVote, viewVars, ElectionInv
  <1>7. CASE GrantsVote(p, m)
    BY <1>4, <1>5, <1>6, <1>7, GrantElection
  <1>8. CASE ~GrantsVote(p, m)
    <2>1. \A q \in Peers : role'[q] # "Follower" =>
              /\ role'[q] = role[q]
              /\ currentTerm'[q] = currentTerm[q]
              /\ votesReceived'[q] \subseteq votesReceived[q]
      BY <1>1, Zenon DEF HandleRequestVote, MaxOf, ElectionTypes, ElectionInv
    <2>2. reply.type = "RequestVoteResponse" /\ ~reply.granted
      BY <1>8
    <2>3. NoNewVotes
      BY <1>3, <2>1, <2>2 DEF NoNewVotes, Grant
    <2> QED
      BY <1>4, <1>5, <1>6, <2>3, QuietStep
  <1> QED
    BY <1>7, <1>8
----------------------------------------------------------------------------
(* Elections: the candidate's steps, and the ticks that are none.          *)

\* p is candidate or leader after the step, whatever votes it then holds are
\* no other candidate's of its term and of no other leader's majority.
Claims(p) ==
    /\ \A q \in Peers \ {p} : /\ role'[q] = role[q]
                              /\ currentTerm'[q] = currentTerm[q]
                              /\ votesReceived'[q] = votesReceived[q]
    /\ role'[p] # "Follower"
    /\ \A q \in votesReceived'[p] : Voted(q, p, currentTerm[p])'
    /\ role'[p] = "Leader" =>
          \E v \in Views : /\ votesReceived'[p] \subseteq v \cup {p}
                           /\ IsMajority(votesReceived'[p], v \cup {p})
    /\ \A n \in msgs' :
          /\ Grant(n) => n \in msgs
          /\ n.type = "RequestVote" =>
                n \in msgs \/ (n.from = p /\ n.term = currentTerm'[p])
    /\ \A q \in Peers : VotesFor(q, p)' =>
          \A r \in Peers \ {p} : currentTerm[r] = currentTerm'[p] =>
              /\ role[r] = "Candidate" => ~VotesFor(q, r)
              /\ role[r] = "Leader" => \A V \in SUBSET Peers : Elects(V, r) => q \notin V

LEMMA ClaimStep ==
    ASSUME ElectionInv, MajoritiesMeet, NEW p \in Peers, Claims(p),
           ElectionTypes', VotesKept, \A q \in Peers : ViewsOK(q)'
    PROVE  ElectionInv'
  <1>1. ASSUME NEW q \in Peers, NEW r \in Peers \ {p}, VotesFor(q, r)'
        PROVE  VotesFor(q, r)
    BY <1>1 DEF VotesFor, Claims
  <1>2. ASSUME NEW r \in Peers PROVE CandidateOK(r)'
    <2>1. CASE r = p
      BY <2>1, Zenon DEF CandidateOK, Claims
    <2>2. CASE r # p
      <3>1. SUFFICES ASSUME role[r] = "Candidate", NEW q \in votesReceived[r]
                     PROVE  Voted(q, r, currentTerm[r])'
        BY <2>2, Zenon DEF CandidateOK, Claims
      <3>2. q \in Peers /\ currentTerm[r] \in Nat /\ Voted(q, r, currentTerm[r])
        BY <3>1 DEF ElectionTypes, CandidateOK, ElectionInv
      <3>3. currentTerm'[r] = currentTerm[r]
        BY <2>2, Zenon DEF Claims
      <3> QED
        BY <3>2, <3>3, VotedStays, Zenon DEF Voted, ElectionInv
    <2> QED
      BY <2>1, <2>2
  <1>3. ASSUME NEW l \in Peers PROVE LeaderOK(l)'
    <2>1. SUFFICES ASSUME role'[l] = "Leader"
                   PROVE  \E V \in SUBSET Peers : Elects(V, l)'
      BY DEF LeaderOK
    <2>2. CASE l = p
      <3>1. PICK V \in SUBSET Peers : V = votesReceived'[p]
        BY Zenon DEF ElectionTypes
      <3>2. ASSUME NEW r \in Peers, role'[r] = "Candidate",
                   currentTerm'[r] = currentTerm'[p], NEW q \in V, VotesFor(q, r)'
            PROVE  FALSE
        <4>1. r # p
          BY <2>1, <2>2, <3>2, Zenon
        <4>2. role[r] = "Candidate" /\ currentTerm[r] = currentTerm'[p]
          BY <3>2, <4>1 DEF Claims
        <4>3. q \in Peers /\ VotesFor(q, p)'
          BY <3>1, <3>2 DEF VotesFor
        <4>4. VotesFor(q, r)
          BY <4>1, <4>3, <3>2, <1>1
        <4> QED
          BY <4>1, <4>2, <4>3, <4>4 DEF Claims
      <3>3. Elects(V, p)'
        <4>1. \E v \in Views : V \subseteq v \cup {p} /\ IsMajority(V, v \cup {p})
          BY <2>1, <2>2, <3>1, Zenon DEF Claims
        <4>2. \A q \in V : Voted(q, p, currentTerm[p])'
          BY <3>1 DEF Claims
        <4> QED
          BY <3>2, <4>1, <4>2, Zenon DEF Elects
      <3> QED
        BY <2>2, <3>3
    <2>3. CASE l # p
      <3>1. role[l] = "Leader" /\ currentTerm'[l] = currentTerm[l]
        BY <2>1, <2>3, Zenon DEF Claims
      <3>2. PICK V \in SUBSET Peers : Elects(V, l)
        BY <3>1 DEF LeaderOK, ElectionInv
      <3>3. ASSUME NEW q \in V PROVE Voted(q, l, currentTerm[l])'
        <4>1. q \in Peers /\ currentTerm[l] \in Nat /\ Voted(q, l, currentTerm[l])
          BY <3>2, Zenon DEF ElectionTypes, Elects, ElectionInv
        <4> QED
          BY <4>1, <3>1, VotedStays, Zenon DEF Voted, ElectionInv
      <3>4. ASSUME NEW r \in Peers, role'[r] = "Candidate",
                   currentTerm'[r] = currentTerm'[l], NEW q \in V, VotesFor(q, r)'
            PROVE  FALSE
        <4>1. CASE r = p
          BY <4>1, <3>1, <3>2, <3>4, <2>3 DEF Claims
        <4>2. CASE r # p
          <5>1. role[r] = "Candidate" /\ currentTerm[r] = currentTerm[l]
            BY <4>2, <3>1, <3>4, Zenon DEF Claims
          <5>2. VotesFor(q, r)
            BY <4>2, <3>4, <1>1
          <5> QED
            BY <5>1, <5>2, <3>2 DEF Elects
        <4> QED
          BY <4>1, <4>2, Zenon
      <3> QED
        BY <3>2, <3>3, <3>4, Zenon DEF Elects
    <2> QED
      BY <2>2, <2>3
  <1>4. ASSUME NEW n \in msgs' PROVE MessageOK(n)'
    <2>1. ASSUME NEW q \in Peers, NEW t \in Nat, t <= currentTerm[q]
          PROVE  t <= currentTerm'[q]
      BY <2>1 DEF VotesKept, ElectionTypes, ElectionInv
    <2>2. CASE n \in msgs
      <3>1. n.from \in Peers /\ n.to \in Peers /\ n.term \in Nat /\ MessageOK(n)
        BY <2>2, Zenon DEF ElectionTypes, ElectionInv
      <3>2. Grant(n) => Voted(n.from, n.to, n.term)'
        BY <3>1, VotedStays, Zenon DEF MessageOK, ElectionInv
      <3> QED
        BY <3>1, <3>2, <2>1, Zenon DEF MessageOK, Grant
    <2>3. CASE n \notin msgs
      <3>1. /\ ~Grant(n)
            /\ n.type = "RequestVote" => n.from = p /\ n.term = currentTerm'[p]
        BY <2>3, Zenon DEF Claims
      <3>2. currentTerm'[p] \in Nat
        BY Zenon DEF ElectionTypes
      <3>3. n.type = "RequestVote" => n.term <= currentTerm'[n.from]
        BY <3>1, <3>2
      <3> QED
        BY <3>1, <3>3, Zenon DEF MessageOK, Grant
    <2> QED
      BY <2>2, <2>3, Zenon
  <1>5. ASSUME NEW x \in Peers, NEW r \in Peers PROVE Separate(x, r)'
    <2>1. SUFFICES ASSUME role'[x] = "Candidate", role'[r] = "Candidate", x # r,
                          currentTerm'[x] = currentTerm'[r], NEW q \in Peers,
                          VotesFor(q, x)', VotesFor(q, r)'
                   PROVE  FALSE
      BY Zenon DEF Separate
    <2>2. ASSUME NEW y \in Peers \ {p}, role'[y] = "Candidate",
                 currentTerm'[y] = currentTerm'[p], VotesFor(q, y)', VotesFor(q, p)'
          PROVE  FALSE
      <3>1. role[y] = "Candidate" /\ currentTerm[y] = currentTerm'[p]
        BY <2>2 DEF Claims
      <3>2. VotesFor(q, y)
        BY <2>2, <1>1
      <3> QED
        BY <2>2, <3>1, <3>2, Zenon DEF Claims
    <2>3. CASE x = p \/ r = p
      BY <2>1, <2>2, <2>3, Zenon
    <2>4. CASE x # p /\ r # p
      <3>1. /\ role[x] = "Candidate"
            /\ role[r] = "Candidate"
            /\ currentTerm[x] = currentTerm[r]
        BY <2>1, <2>4 DEF Claims
      <3>2. VotesFor(q, x) /\ VotesFor(q, r)
        BY <2>1, <2>4, <1>1, Zenon
      <3> QED
        BY <2>1, <3>1, <3>2, Zenon DEF Separate, ElectionInv
    <2> QED
      BY <2>3, <2>4
  <1>6. ElectionSafety'
    <2>1. ASSUME NEW l \in Peers \ {p}, role'[l] = "Leader", role'[p] = "Leader",
                 currentTerm'[l] = currentTerm'[p]
          PROVE  FALSE
      <3>1. role[l] = "Leader" /\ currentTerm[l] = currentTerm'[p]
        BY <2>1 DEF Claims
      <3>2. PICK V \in SUBSET Peers : Elects(V, l)
        BY <3>1 DEF LeaderOK, ElectionInv
      <3>3. PICK v \in Views : V \subseteq v \cup {l} /\ IsMajority(V, v \cup {l})
        BY <3>2, Zenon DEF Elects
      <3>4. PICK w \in Views : /\ votesReceived'[p] \subseteq w \cup {p}
                               /\ IsMajority(votesReceived'[p], w \cup {p})
        BY <2>1, Zenon DEF Claims
      <3>5. V \cap votesReceived'[p] # {}
        BY <3>3, <3>4, Zenon DEF MajoritiesMeet
      <3>6. PICK q \in V : q \in votesReceived'[p]
        BY <3>5
      <3>7. q \in Peers /\ VotesFor(q, p)'
        BY <3>6 DEF VotesFor
      <3> QED
        BY <3>1, <3>2, <3>6, <3>7, Zenon DEF Claims
    <2> QED
      BY <2>1 DEF ElectionSafety, Claims, ElectionInv
  <1> QED
    BY <1>2, <1>3, <1>4, <1>5, <1>6, Zenon DEF ElectionInv

LEMMA StartElectionElection ==
    ASSUME ElectionInv, MajoritiesMeet, NEW p \in Peers, StartElection(p)
    PROVE  ElectionInv'
  <1> DEFINE Q    == TickParticipants(p)
             term == currentTerm[p] + 1
             wins == IsMajority({p}, Q)
             ask  == [type : {"RequestVote"}, from : {p}, to : known[p],
                      term : {term}, lastLogIndex : {Len(log[p])},
                      lastLogTerm : {LastLogTerm(log[p])}]
  <1>1. /\ currentTerm[p] \in Nat
        /\ known[p] \in SUBSET Peers
        /\ Q \in SUBSET Peers
    BY DEF ElectionTypes, TickParticipants, ElectionInv
  <1>2. /\ participants' = [participants EXCEPT ![p] = Q]
        /\ currentTerm' = [currentTerm EXCEPT ![p] = term]
        /\ votedFor' = [votedFor EXCEPT ![p] = p]
        /\ leaderId' = [leaderId EXCEPT ![p] = IF wins THEN p ELSE None]
        /\ role' = [role EXCEPT ![p] = IF wins THEN "Leader" ELSE "Candidate"]
        /\ votesReceived' = [votesReceived EXCEPT ![p] = {p}]
        /\ known' = known
    BY Zenon DEF StartElection, UpdateParticipants
  <1>3. \A n \in msgs' \ msgs :
            /\ n.type \in {"RequestVote", "AppendEntries"}
            /\ n.from = p
            /\ n.to \in Peers
            /\ n.term = term
    <2>1. \A n \in ask : /\ n.type = "RequestVote"
                         /\ n.from = p
                         /\ n.to \in Peers
                         /\ n.term = term
      BY <1>1
    <2>2. CASE AppendAsLeader(p, Q, term, EmptyHash, NewLeaderMatch(p),
                              store[p], {}, ask)
      <3> DEFINE none == {}
      <3>1. AppendAsLeader(p, Q, term, EmptyHash, NewLeaderMatch(p), store[p],
                           none, ask)
        BY <2>2, Zenon
      <3> HIDE DEF Q, ask, none
      <3>2. term \in Nat
        BY <1>1
      <3> HIDE DEF term
      <3>3. \A n \in msgs' \ (msgs \cup ask) :
                /\ n.type = "AppendEntries"
                /\ n.from = p
                /\ n.to \in Peers \ {p}
                /\ n.term = term
        BY <1>1, <3>1, <3>2, AppendAsLeaderSends
      <3> QED
        BY <2>1, <3>3
    <2>3. CASE Exchange({}, ask)
      <3> HIDE DEF ask
      <3>1. msgs' \subseteq msgs \cup ask
        BY <2>3, ExchangeAdds
      <3> QED
        BY <2>1, <3>1
    <2> QED
      BY <2>2, <2>3, Zenon DEF StartElection
  <1> HIDE DEF ask
  <1>4. ElectionTypes'
    <2>1. \A n \in msgs' : n.from \in Peers /\ n.to \in Peers /\ n.term \in Nat
      BY <1>1, <1>3 DEF ElectionTypes, ElectionInv
    <2>2. /\ currentTerm \in [Peers -> Nat]
          /\ participants \in [Peers -> SUBSET Peers]
      BY Zenon DEF ElectionTypes, ElectionInv
    <2>3. /\ currentTerm' = [currentTerm EXCEPT ![p] = term]
          /\ participants' = [participants EXCEPT ![p] = Q]
      BY <1>2
    <2> HIDE DEF Q
    <2>4. term \in Nat
      BY <1>1
    <2> HIDE DEF wins, term
    <2>5. currentTerm' \in [Peers -> Nat]
      BY <2>2, <2>3, <2>4
    <2>6. participants' \in [Peers -> SUBSET Peers]
      BY <1>1, <2>2, <2>3
    <2> QED
      BY <1>2, <2>1, <2>5, <2>6, Zenon DEF ElectionTypes, ElectionInv
  <1>5. VotesKept
    BY <1>1, <1>2 DEF VotesKept, ElectionTypes, ElectionInv
  <1>6. PICK v \in Views : Q = v \cup {p}
    BY DEF ViewsOK, TickParticipants, ElectionInv
  <1>7. /\ role'[p] = IF wins THEN "Leader" ELSE "Candidate"
        /\ currentTerm'[p] = term
        /\ votesReceived'[p] = {p}
        /\ participants'[p] = v \cup {p}
        /\ votedFor'[p] = p
    BY <1>2, <1>6, Zenon DEF ElectionTypes, ElectionInv
  <1>8. \A q \in Peers \ {p} : /\ role'[q] = role[q]
                               /\ currentTerm'[q] = currentTerm[q]
                               /\ votesReceived'[q] = votesReceived[q]
                               /\ participants'[q] = participants[q]
    BY <1>2 DEF ElectionTypes
  <1>9. ASSUME NEW q \in Peers PROVE ViewsOK(q)'
    <2>1. ViewsOK(q) /\ known'[q] = known[q]
      BY <1>2 DEF ElectionInv
    <2> HIDE DEF Q, wins, term
    <2>2. CASE q = p
      BY <1>7, <2>1, <2>2, Zenon DEF ViewsOK
    <2>3. CASE q # p
      BY <1>8, <2>1, <2>3 DEF ViewsOK
    <2> QED
      BY <2>2, <2>3
  <1>10. Claims(p)
    <2>1. role'[p] # "Follower"
      BY <1>7
    <2>2. \A q \in votesReceived'[p] : Voted(q, p, currentTerm[p])'
      BY <1>7 DEF Voted
    <2>3. role'[p] = "Leader" =>
             \E w \in Views : /\ votesReceived'[p] \subseteq w \cup {p}
                              /\ IsMajority(votesReceived'[p], w \cup {p})
      BY <1>6, <1>7, Zenon
    <2>4. \A n \in msgs' :
             /\ Grant(n) => n \in msgs
             /\ n.type = "RequestVote" =>
                   n \in msgs \/ (n.from = p /\ n.term = currentTerm'[p])
      <3>1. \A n \in msgs' \ msgs :
               /\ n.type # "RequestVoteResponse"
               /\ n.from = p
               /\ n.term = currentTerm'[p]
        BY <1>3, <1>7, Zenon
      <3> QED
        BY <3>1, Zenon DEF Grant
    <2>5. ASSUME NEW q \in Peers, VotesFor(q, p)', NEW r \in Peers \ {p},
                 currentTerm[r] = currentTerm'[p]
          PROVE  /\ role[r] = "Candidate" => ~VotesFor(q, r)
                 /\ role[r] = "Leader" =>
                       \A V \in SUBSET Peers : Elects(V, r) => q \notin V
      <3>1. q = p
        <4>1. ASSUME NEW n \in msgs', Grant(n), n.to = p, n.term = currentTerm'[p]
              PROVE  FALSE
          <5>1. n \in msgs
            BY <2>4, <4>1, Zenon
          <5>2. n.term <= currentTerm[p]
            BY <5>1, <4>1 DEF MessageOK, ElectionInv
          <5> QED
            BY <5>2, <4>1, <1>1, <1>7
        <4> QED
          BY <2>5, <4>1, <1>7 DEF VotesFor
      <3>2. ~Voted(p, r, currentTerm[r])
        BY <2>5, <1>1, <1>7 DEF Voted
      <3> QED
        BY <3>1, <3>2, VoterVoted DEF Elects
    <2> QED
      BY <1>8, <2>1, <2>2, <2>3, <2>4, <2>5, Zenon DEF Claims
  <1> QED
    BY <1>4, <1>5, <1>9, <1>10, ClaimStep

LEMMA HandleVoteElection ==
    ASSUME ElectionInv, MajoritiesMeet, NEW p \in Peers, NEW m \in msgs,
           HandleVote(p, m)
    PROVE  ElectionInv'
  <1> DEFINE votes == votesReceived[p] \cup {m.from}
             wins  == IsMajority(votes, participants[p])
  <1>1. /\ role[p] = "Candidate"
        /\ Grant(m)
        /\ m.to = p
        /\ m.from \in participants[p]
        /\ m.term = currentTerm[p]
        /\ votesReceived' = [votesReceived EXCEPT ![p] = votes]
        /\ UNCHANGED <<known, participants, currentTerm, votedFor>>
    BY Zenon DEF HandleVote, CountsVote, Grant, viewVars
  <1>2. /\ currentTerm[p] \in Nat
        /\ participants[p] \in SUBSET Peers
        /\ m.from \in Peers
        /\ votes \in SUBSET Peers
        /\ votesReceived'[p] = votes
        /\ \A q \in Peers \ {p} : votesReceived'[q] = votesReceived[q]
    BY <1>1, Zenon DEF ElectionTypes, ElectionInv
  <1>3. /\ votes \subseteq participants[p]
        /\ \E v \in Views : participants[p] = v \cup {p}
    BY <1>1, Zenon DEF ViewsOK, ElectionInv
  <1>4. /\ \A n \in msgs' \ msgs : /\ n.type = "AppendEntries"
                                   /\ n.from = p
                                   /\ n.to \in Peers
                                   /\ n.term = currentTerm[p]
        /\ \A q \in Peers \ {p} : role'[q] = role[q]
        /\ role' \in [Peers -> {"Follower", "Candidate", "Leader"}]
        /\ leaderId' \in [Peers -> Peers \cup {None}]
        /\ role'[p] = "Candidate" \/ (role'[p] = "Leader" /\ wins)
    <2>1. CASE /\ wins
               /\ role' = [role EXCEPT ![p] = "Leader"]
               /\ leaderId' = [leaderId EXCEPT ![p] = p]
               /\ AppendAsLeader(p, participants[p], currentTerm[p], EmptyHash,
                                 NewLeaderMatch(p), store[p], {m}, {})
      <3> HIDE DEF wins
      <3>0. currentTerm[p] \in Nat /\ participants[p] \in SUBSET Peers
        BY <1>2, Zenon
      <3>1. AppendAsLeader(p, participants[p], currentTerm[p], EmptyHash,
                           NewLeaderMatch(p), store[p], {m}, {})
        BY <2>1, Zenon
      <3>2. \A n \in msgs' \ msgs : /\ n.type = "AppendEntries"
                                    /\ n.from = p
                                    /\ n.to \in Peers \ {p}
                                    /\ n.term = currentTerm[p]
        BY <3>0, <3>1, AppendOnlySends
      <3> QED
        BY <3>2, <2>1, Zenon DEF ElectionTypes, ElectionInv
    <2>2. CASE /\ Exchange({m}, {})
               /\ UNCHANGED <<role, leaderId>>
      <3> HIDE DEF wins
      <3>1. msgs' \subseteq msgs \cup {}
        BY <2>2, ExchangeAdds
      <3> QED
        BY <3>1, <2>2, <1>1, Zenon DEF ElectionTypes, ElectionInv
    <2> QED
      BY <2>1, <2>2, Zenon DEF HandleVote
  <1> HIDE DEF wins
  <1>5. ElectionTypes'
    <2>1. \A n \in msgs' : n.from \in Peers /\ n.to \in Peers /\ n.term \in Nat
      BY <1>2, <1>4, Zenon DEF ElectionTypes, ElectionInv
    <2> QED
      BY <2>1, <1>1, <1>2, <1>4, Zenon DEF ElectionTypes, ElectionInv
  <1>6. VotesKept
    BY <1>1 DEF VotesKept, ElectionTypes
  <1>7. ASSUME NEW q \in Peers PROVE ViewsOK(q)'
    BY <1>1, <1>2, <1>3, <1>4, Zenon DEF ViewsOK, ElectionInv
  <1>8. Claims(p)
    <2>1. role'[p] # "Follower"
      BY <1>4
    <2>2. \A q \in votesReceived'[p] : Voted(q, p, currentTerm[p])'
      <3>1. \A q \in votes : Voted(q, p, currentTerm[p])
        BY <1>1, Zenon DEF CandidateOK, MessageOK, ElectionInv
      <3> QED
        BY <3>1, <1>1, <1>2 DEF Voted
    <2>3. role'[p] = "Leader" =>
             \E w \in Views : /\ votesReceived'[p] \subseteq w \cup {p}
                              /\ IsMajority(votesReceived'[p], w \cup {p})
      BY <1>2, <1>3, <1>4, Zenon DEF wins
    <2>4. \A n \in msgs' :
             /\ Grant(n) => n \in msgs
             /\ n.type = "RequestVote" =>
                   n \in msgs \/ (n.from = p /\ n.term = currentTerm'[p])
      <3>1. \A n \in msgs' \ msgs : n.type \notin {"RequestVoteResponse", "RequestVote"}
        BY <1>4
      <3> QED
        BY <3>1, Zenon DEF Grant
    <2>5. ASSUME NEW q \in Peers, VotesFor(q, p)', NEW r \in Peers \ {p},
                 currentTerm[r] = currentTerm'[p]
          PROVE  /\ role[r] = "Candidate" => ~VotesFor(q, r)
                 /\ role[r] = "Leader" =>
                       \A V \in SUBSET Peers : Elects(V, r) => q \notin V
      <3>1. VotesFor(q, p)
        BY <2>4, <2>5, <1>1, <1>2 DEF VotesFor
      <3>2. currentTerm[r] = currentTerm[p]
        BY <2>5, <1>1
      <3>3. role[r] = "Candidate" => ~VotesFor(q, r)
        BY <3>1, <3>2, <1>1, Zenon DEF Separate, ElectionInv
      <3>4. role[r] = "Leader" =>
                \A V \in SUBSET Peers : Elects(V, r) => q \notin V
        BY <3>1, <3>2, <1>1 DEF Elects
      <3> QED
        BY <3>3, <3>4
    <2> QED
      BY <1>1, <1>2, <1>4, <2>1, <2>2, <2>3, <2>4, <2>5, Zenon DEF Claims
  <1> QED
    BY <1>5, <1>6, <1>7, <1>8, ClaimStep

LEMMA TicksElection ==
    ASSUME ElectionInv, NEW p \in Peers, IdleTick(p) \/ Heartbeat(p)
    PROVE  ElectionInv'
  <1>1. ReplicationMessages
    <2>1. CASE IdleTick(p)
      BY <2>1, Zenon DEF IdleTick, ReplicationMessages
    <2>2. CASE Heartbeat(p)
      <3> DEFINE AE == AppendEntriesForFollowers(p, TickParticipants(p),
                           currentTerm[p], log[p], RetainedMatch(p), store[p])
      <3>1. \A m \in AE : /\ m.type = "AppendEntries"
                          /\ m.from = p
                          /\ m.to \in TickParticipants(p) \ {p}
                          /\ m.term = currentTerm[p]
        BY AppendEntriesSent
      <3>2. Exchange({}, AE)
        BY <2>2, Zenon DEF Heartbeat
      <3> HIDE DEF AE
      <3>3. msgs' \subseteq msgs \cup AE
        BY <3>2, ExchangeAdds
      <3>4. /\ TickParticipants(p) \subseteq Peers
            /\ currentTerm[p] \in Nat
        BY DEF ElectionInv, ElectionTypes, TickParticipants
      <3> QED
        BY <3>1, <3>3, <3>4, Zenon DEF ReplicationMessages
    <2> QED
      BY <2>1, <2>2
  <1> QED
    BY <1>1, TickElection, Zenon DEF IdleTick, Heartbeat
----------------------------------------------------------------------------
(* At most one leader per term.                                            *)

LEMMA InitElection ==
    Init => ElectionInv
  <1> SUFFICES ASSUME Init PROVE ElectionInv
    OBVIOUS
  <1>1. PICK view \in [Peers -> Views] : known = [p \in Peers |-> view[p] \ {p}]
    BY DEF Init
  <1>2. ElectionTypes
    <2>1. \A p \in Peers : view[p] \subseteq Peers
      BY RaftAssumption
    <2> QED
      BY <1>1, <2>1 DEF Init, ElectionTypes
  <1>3. \A p \in Peers : role[p] = "Follower" /\ \E v \in Views : known[p] = v \ {p}
    BY <1>1 DEF Init
  <1>4. msgs = {}
    BY DEF Init
  <1> QED
    BY <1>2, <1>3, <1>4, Zenon
       DEF ElectionInv, ViewsOK, CandidateOK, LeaderOK, Separate, ElectionSafety

LEMMA NextElection ==
    ASSUME ElectionInv, MajoritiesMeet, [Next]_vars
    PROVE  ElectionInv'
  <1>1. CASE UNCHANGED vars
    <2>1. UNCHANGED <<viewVars, electionVars>> /\ UNCHANGED msgs
      BY <1>1 DEF vars
    <2>2. ReplicationMessages
      BY <2>1 DEF ReplicationMessages
    <2> QED
      BY <2>1, <2>2, ReplicationStep
  <1>2. ASSUME NEW p \in Peers, Tick(p) PROVE ElectionInv'
    BY <1>2, UpdatePeersElection, TicksElection, StartElectionElection DEF Tick
  <1>3. ASSUME NEW p \in Peers, NEW m \in msgs, Receive(p, m) PROVE ElectionInv'
    BY <1>3, HandleRequestVoteElection, HandleNewerTermElection,
       HandleVoteElection, ReceiveEntriesElection, AnswerElection DEF Receive
  <1>4. ASSUME NEW p \in Peers, NEW tx \in Txs, ClientTransaction(p, tx)
        PROVE  ElectionInv'
    BY <1>4, ClientTransactionElection
  <1> QED
    BY <1>1, <1>2, <1>3, <1>4 DEF Next

\* Every reachable state satisfies the inductive invariant of elections.
THEOREM ElectionInvariant ==
    MajoritiesMeet => (Spec => []ElectionInv)
  <1> SUFFICES ASSUME MajoritiesMeet PROVE Spec => []ElectionInv
    OBVIOUS
  <1>1. Init => ElectionInv
    BY InitElection
  <1>2. ElectionInv /\ [Next]_vars => ElectionInv'
    BY NextElection
  <1> QED
    BY <1>1, <1>2, PTL DEF Spec

\* request_vote gives one vote per term and become_leader_if_majority counts
\* them, so no term has two leaders, however votes are delayed, reordered or
\* lost, as long as the majorities of any two views of discovery meet.
THEOREM ElectionSafe ==
    MajoritiesMeet => (Spec => []ElectionSafety)
  <1> SUFFICES ASSUME MajoritiesMeet PROVE Spec => []ElectionSafety
    OBVIOUS
  <1>1. Spec => []ElectionInv
    BY ElectionInvariant
  <1>2. ElectionInv => ElectionSafety
    BY DEF ElectionInv
  <1> QED
    BY <1>1, <1>2, PTL
=============================================================================
