---------------------------- MODULE RaftCommits -----------------------------
(***************************************************************************)
(* Logs match; peers agree on what is committed, and a leader's log holds  *)
(* it: for any set of peers, views whose majorities meet, and any bounds.  *)
(* Agreement holds as long as two things do not happen that the code does  *)
(* not exclude:                                                            *)
(*   - a batch that ends before the leader's commit index (the limit       *)
(*     MAX_APPEND_ENTRIES), from which a follower commits its own entries; *)
(*   - a rejection of an old AppendEntries that a leader of a later term   *)
(*     takes for what the follower holds of its own log.                   *)
(***************************************************************************)
EXTENDS RaftMoves, RaftForwards, RaftSafety, FiniteSetTheorems

USE SMTT(30), ZenonT(30)
----------------------------------------------------------------------------
(* Views whose majorities meet.                                            *)

\* Once every peer has found all others, and discovery reports nothing else,
\* any two majorities meet.
THEOREM OneViewMajorities ==
    ASSUME IsFiniteSet(Peers), Views = {Peers}
    PROVE  MajoritiesMeet
  <1> SUFFICES ASSUME NEW S \in SUBSET Peers, NEW T \in SUBSET Peers,
                      IsMajority(S, Peers), IsMajority(T, Peers), S \cap T = {}
               PROVE  FALSE
    <2>1. \A p \in Peers : Peers \cup {p} = Peers
      OBVIOUS
    <2> QED
      BY <2>1 DEF MajoritiesMeet
  <1>1. /\ IsFiniteSet(S)
        /\ IsFiniteSet(T)
        /\ Cardinality(S) \in Nat
        /\ Cardinality(T) \in Nat
        /\ Cardinality(Peers) \in Nat
    BY FS_Subset, FS_CardinalityType
  <1>2. Cardinality(S \cup T) = Cardinality(S) + Cardinality(T) - Cardinality(S \cap T)
    BY <1>1, FS_Union
  <1>3. Cardinality(S \cap T) = 0
    BY FS_EmptySet
  <1>4. Cardinality(S \cup T) <= Cardinality(Peers)
    BY FS_Subset
  <1> QED
    BY <1>1, <1>2, <1>3, <1>4 DEF IsMajority
----------------------------------------------------------------------------
(* Logs that match.                                                        *)

LEMMA InitMatch ==
    Init => MatchInv
  <1> SUFFICES ASSUME Init PROVE MatchInv
    OBVIOUS
  <1>1. \A p \in Peers : log[p] = << >> /\ role[p] = "Follower"
    BY DEF Init
  <1>2. LogLinks(<< >>) = {}
    BY DEF LogLinks
  <1>3. Links = {}
    BY <1>1, <1>2 DEF Links, Init
  <1> QED
    BY <1>1, <1>3
       DEF MatchInv, LinkTypes, EntriesOK, LinksAgree, Agree, LinksElected, LinksHeld

LEMMA NextRaft ==
    ASSUME RaftInv, MajoritiesMeet, [Next]_vars
    PROVE  RaftInv' /\ ElectionKept /\ ElectionsLast /\ LogShape
  <1>1. ElectionInv'
    BY NextElection DEF RaftInv
  <1>2. ForwardInv' /\ ElectionKept
    BY <1>1, NextForward DEF RaftInv
  <1>3. LogInv'
    BY NextLog, StutterLog, Zenon DEF RaftInv
  <1>4. LogShape
    BY NextShape DEF RaftInv, ElectionInv
  <1>5. ElectionsLast
    BY <1>1, <1>2, ElectionStep DEF RaftInv
  <1>6. MatchInv'
    BY <1>1, <1>3, <1>4, <1>5, ShapeMatch DEF RaftInv
  <1> QED
    BY <1>1, <1>2, <1>3, <1>4, <1>5, <1>6 DEF RaftInv

\* Every reachable state satisfies the invariants of elections, logs and links.
THEOREM RaftInvariant ==
    MajoritiesMeet => (Spec => []RaftInv)
  <1> SUFFICES ASSUME MajoritiesMeet PROVE Spec => []RaftInv
    OBVIOUS
  <1>1. Init => RaftInv
    <2>1. Init => ForwardInv
      BY RaftAssumption DEF Init, ForwardInv
    <2> QED
      BY <2>1, InitElection, InitLog, InitMatch, Zenon DEF RaftInv
  <1>2. RaftInv /\ [Next]_vars => RaftInv'
    BY NextRaft
  <1> QED
    BY <1>1, <1>2, PTL DEF Spec

\* append_entries compares terms only, and one batch at a time; still two logs
\* with an entry of the same term at an index are equal up to it.
THEOREM LogsMatch ==
    MajoritiesMeet => (Spec => []LogMatching)
  <1> SUFFICES ASSUME MajoritiesMeet PROVE Spec => []LogMatching
    OBVIOUS
  <1>1. RaftInv => LogMatching
    <2> SUFFICES ASSUME RaftInv, NEW p \in Peers, NEW q \in Peers,
                        NEW i \in DOMAIN log[p] \cap DOMAIN log[q],
                        log[p][i].term = log[q][i].term
                 PROVE  SubSeq(log[p], 1, i) = SubSeq(log[q], 1, i)
      BY Zenon DEF LogMatching
    <2>1. i \in 1 .. Len(log[p]) /\ i \in 1 .. Len(log[q])
      BY SeqFacts DEF RaftInv, LogInv
    <2> QED
      BY <2>1, EqualPrefix DEF RaftInv
  <1>2. Spec => []RaftInv
    BY RaftInvariant
  <1> QED
    BY <1>1, <1>2, PTL
----------------------------------------------------------------------------
(* Commits that agree.                                                     *)

LEMMA InitSafety ==
    ASSUME MajoritiesMeet, Init
    PROVE  SafetyInv
  <1>1. /\ \A p \in Peers : /\ log[p] = << >>
                            /\ role[p] = "Follower"
                            /\ commitIndex[p] = 0
        /\ msgs = {}
    BY DEF Init
  <1>2. LogLinks(<< >>) = {}
    BY DEF LogLinks
  <1>3. Links = {}
    BY <1>1, <1>2 DEF Links
  <1>4. OrderInv
    BY <1>1, <1>2, <1>3 DEF OrderInv, Growing
  <1>5. AskInv /\ AckInv
    BY <1>1 DEF AskInv, AckInv
  <1>6. SafeInv /\ CommitInv
    BY <1>1 DEF SafeInv, CommitInv
  <1> QED
    BY <1>4, <1>5, <1>6 DEF SafetyInv

LEMMA NextSafety ==
    ASSUME MajoritiesMeet, RaftInv, SafetyInv, BatchesReachCommit,
           RejectionsVouchOld, [Next]_vars
    PROVE  RaftInv' /\ SafetyInv'
  <1>1. GoodStep
    BY NextRaft DEF GoodStep
  <1>2. CommitShape /\ VoteShapes /\ NewAcks /\ MatchMoves /\ CandidateVotes /\ NewAsks
    BY NextCommits DEF RaftInv, CommitShape, VoteShapes
  <1>3. OrderInv'
    BY <1>1, NextOrder DEF SafetyInv
  <1>4. AskInv'
    BY <1>1, <1>2, NextAsk, Zenon DEF SafetyInv
  <1>5. AckInv'
    BY <1>1, <1>2, NextAck DEF SafetyInv
  <1>6. SafeInv'
    BY <1>1, <1>2, <1>3, NextSafe DEF SafetyInv
  <1>7. CommitInv'
    BY <1>1, <1>2, <1>3, <1>6, NextCommit DEF SafetyInv
  <1>8. RaftInv'
    BY <1>1 DEF GoodStep
  <1> QED
    BY <1>3, <1>4, <1>5, <1>6, <1>7, <1>8 DEF SafetyInv

\* The invariant of commits holds as long as the two events stay away.
LEMMA SafetyInvariant ==
    MajoritiesMeet =>
        (Spec /\ []BatchesReachCommit /\ []RejectionsVouchOld
            => [](RaftInv /\ SafetyInv))
  <1> SUFFICES ASSUME MajoritiesMeet
               PROVE  Spec /\ []BatchesReachCommit /\ []RejectionsVouchOld
                          => [](RaftInv /\ SafetyInv)
    OBVIOUS
  <1>1. Init => SafetyInv
    BY InitSafety, Zenon
  <1>2. Spec => []RaftInv
    BY RaftInvariant
  <1>3. RaftInv /\ SafetyInv /\ BatchesReachCommit /\ RejectionsVouchOld /\ [Next]_vars
            => SafetyInv'
    BY NextSafety
  <1> QED
    BY <1>1, <1>2, <1>3, PTL DEF Spec

\* advance_leader_commit_index and append_entries commit the same entries at
\* every peer, in whatever order their messages and elections come: nothing
\* but a batch that ends before the commit index it brings, and a rejection
\* that vouches for an entry of the leader's own term, can part two peers.
THEOREM CommitsAgree ==
    MajoritiesMeet =>
        (Spec /\ []BatchesReachCommit /\ []RejectionsVouchOld => []CommitAgreement)
  <1> SUFFICES ASSUME MajoritiesMeet
               PROVE  Spec /\ []BatchesReachCommit /\ []RejectionsVouchOld
                          => []CommitAgreement
    OBVIOUS
  <1>1. RaftInv /\ SafetyInv => CommitAgreement
    <2> SUFFICES ASSUME RaftInv, SafetyInv, NEW p \in Peers, NEW q \in Peers
                 PROVE  LET n == MinOf(commitIndex[p], commitIndex[q])
                        IN  SubSeq(log[p], 1, n) = SubSeq(log[q], 1, n)
      BY Zenon DEF CommitAgreement
    <2>1. commitIndex[p] \in Nat /\ commitIndex[q] \in Nat
      BY LinkFacts
    <2>2. CASE commitIndex[p] <= commitIndex[q]
      <3>1. MinOf(commitIndex[p], commitIndex[q]) = commitIndex[p]
        BY <2>1, <2>2 DEF MinOf
      <3>2. SubSeq(log[p], 1, commitIndex[p]) = SubSeq(log[q], 1, commitIndex[p])
        BY <2>2, Agreed, Zenon
      <3> QED
        BY <3>1, <3>2, Zenon
    <2>3. CASE commitIndex[q] <= commitIndex[p]
      <3>1. MinOf(commitIndex[p], commitIndex[q]) = commitIndex[q]
        BY <2>1, <2>3 DEF MinOf
      <3>2. SubSeq(log[q], 1, commitIndex[q]) = SubSeq(log[p], 1, commitIndex[q])
        BY <2>3, Agreed, Zenon
      <3> QED
        BY <3>1, <3>2, Zenon
    <2>4. commitIndex[p] <= commitIndex[q] \/ commitIndex[q] <= commitIndex[p]
      BY <2>1
    <2> QED
      BY <2>2, <2>3, <2>4, Zenon
  <1>2. Spec /\ []BatchesReachCommit /\ []RejectionsVouchOld => [](RaftInv /\ SafetyInv)
    BY SafetyInvariant
  <1> QED
    BY <1>1, <1>2, PTL

\* handle_request_vote's comparison of logs lets only a candidate win that has
\* what any peer has committed, and a leader keeps it: with the same two
\* events away, a leader of a term as late as a peer's has its commits.
THEOREM LeadersComplete ==
    MajoritiesMeet =>
        (Spec /\ []BatchesReachCommit /\ []RejectionsVouchOld => []LeaderCompleteness)
  <1> SUFFICES ASSUME MajoritiesMeet
               PROVE  Spec /\ []BatchesReachCommit /\ []RejectionsVouchOld
                          => []LeaderCompleteness
    OBVIOUS
  <1>1. RaftInv /\ SafetyInv => LeaderCompleteness
    <2> SUFFICES ASSUME RaftInv, SafetyInv, NEW p \in Peers, NEW q \in Peers,
                        role[q] = "Leader", currentTerm[q] >= currentTerm[p]
                 PROVE  /\ commitIndex[p] <= Len(log[q])
                        /\ SubSeq(log[q], 1, commitIndex[p])
                              = SubSeq(log[p], 1, commitIndex[p])
      BY Zenon DEF LeaderCompleteness
    <2>1. CASE commitIndex[p] = 0
      <3>1. \A j \in 1 .. 0 : log[q][j] = log[p][j]
        OBVIOUS
      <3> QED
        BY <2>1, <3>1, SamePrefix, LinkFacts
    <2>2. CASE commitIndex[p] # 0
      <3>1. PICK x \in Links : /\ x.index = commitIndex[p]
                               /\ Through(Links, x)
                               /\ x.term <= currentTerm[p]
                               /\ commitIndex[p] \in 1 .. Len(log[p])
                               /\ log[p][commitIndex[p]].term = x.term
        BY <2>2, Committed
      <3>2. x.term \in Nat /\ currentTerm[p] \in Nat /\ currentTerm[q] \in Nat
        BY LinkFacts DEF IndexTypes
      <3>3. CASE x.term = currentTerm[q]
        <4>1. x \in LogLinks(log[q])
          BY <3>3 DEF RaftInv, MatchInv, LinksHeld
        <4> QED
          BY <3>1, <4>1, BeginsAlike
      <3>4. CASE x.term < currentTerm[q]
        <4>1. Len(log[q]) # 0 /\ log[q][Len(log[q])].term > x.term
          BY <3>2, <3>4 DEF SafetyInv, OrderInv, LastOwn
        <4>2. x \in LogLinks(log[q])
          BY <3>1, <4>1, LeaderHolds, LinkFacts
        <4> QED
          BY <3>1, <4>2, BeginsAlike
      <3> QED
        BY <3>1, <3>2, <3>3, <3>4
    <2> QED
      BY <2>1, <2>2, Zenon
  <1>2. Spec /\ []BatchesReachCommit /\ []RejectionsVouchOld => [](RaftInv /\ SafetyInv)
    BY SafetyInvariant
  <1> QED
    BY <1>1, <1>2, PTL
=============================================================================
