----------------------------- MODULE RaftSafety -----------------------------
(***************************************************************************)
(* What a quorum has acknowledged lasts, and so does what is committed: a  *)
(* step of the kinds LogShape and CommitShape keeps SafeInv and CommitInv. *)
(***************************************************************************)
EXTENDS RaftLinks

USE SMTT(30), ZenonT(30)
----------------------------------------------------------------------------
(* Entries that last go on lasting.                                        *)

LEMMA HoldsNext ==
    ASSUME NEW q, NEW x
    PROVE  Holds(q, x)' <=> x \in LogLinks(log'[q])
  BY DEF Holds, LogLinks, Link, TermAt

LEMMA QuorumsMeet ==
    ASSUME MajoritiesMeet, NEW M, IsQuorum(M), NEW T, IsQuorum(T)
    PROVE  M \cap T # {}
  BY Zenon DEF MajoritiesMeet, IsQuorum

\* The last entry of a leader tells which leaders it follows.
LEMMA LeaderHolds ==
    ASSUME NEW L, IndexTypes(L), Agree(L), NEW x \in L, Through(L, x),
           NEW a, Len(a) \in Nat, LogLinks(a) \subseteq L, Len(a) # 0,
           a[Len(a)].term > x.term
    PROVE  x \in LogLinks(a)
  <1>1. Len(a) \in 1 .. Len(a)
    OBVIOUS
  <1>2. PICK y \in LogLinks(a) : y.index = Len(a) /\ y.term = a[Len(a)].term
    BY <1>1, LinkAt
  <1>3. y.index \in Nat /\ y.term \in Nat /\ x.index \in Nat /\ x.term \in Nat
    BY DEF IndexTypes
  <1>4. Len(a) > x.index
    BY <1>2 DEF Through
  <1>5. Len(a) >= x.index /\ a[Len(a)].term >= x.term
    BY <1>2, <1>3, <1>4
  <1> QED
    BY <1>1, <1>5, WalkDown

LEMMA FirmStays ==
    ASSUME GoodStep, NEW q \in Peers, NEW x, x \in Links, Firm(q, x), Below(x)
    PROVE  Firm(q, x)'
  <1>1. /\ currentTerm[q] \in Nat
        /\ currentTerm'[q] \in Nat
        /\ currentTerm[q] <= currentTerm'[q]
        /\ x.term \in Nat
    BY StepFacts DEF IndexTypes
  <1>2. x \in LogLinks(log[q]) /\ currentTerm[q] >= x.term
    BY DEF Firm, Holds
  <1>3. x \in LogLinks(log'[q])
    <2>1. CASE log' = log
      BY <1>2, <2>1
    <2>2. ASSUME NEW p \in Peers, NEW y, AddsLink(p, y) PROVE x \in LogLinks(log'[q])
      BY <1>2, <2>2 DEF AddsLink
    <2>3. ASSUME NEW p \in Peers, NEW m \in msgs, TakesLinks(p, m), p # q
          PROVE  x \in LogLinks(log'[q])
      BY <1>2, <2>3 DEF TakesLinks
    <2>4. ASSUME NEW m \in msgs, TakesLinks(q, m) PROVE x \in LogLinks(log'[q])
      <3>1. FollowerTakes(q, m) /\ m.type = "AppendEntries" /\ m.term >= currentTerm[q]
        BY <2>4 DEF TakesLinks, FollowerTakes
      <3>2. m.term \in Nat
        BY DEF GoodStep, RaftInv, ElectionInv, ElectionTypes
      <3>3. m.term >= x.term
        BY <1>1, <1>2, <3>1, <3>2
      <3>4. \A y \in MessageLinks(m) : y.index <= x.index => y \in LogLinks(log[q])
        BY <1>2, <3>1, <3>3 DEF Below, Holds
      <3> QED
        BY <1>2, <3>1, <3>4, TakenFacts
    <2> QED
      BY <2>1, <2>2, <2>3, <2>4, LinkMoves
  <1>4. currentTerm'[q] >= x.term
    BY <1>1, <1>2
  <1> QED
    BY <1>3, <1>4, HoldsNext DEF Firm

\* Each of M has x, or votes in no later term yet.
Bound(x, M) == \A q \in M : Firm(q, x) \/ currentTerm'[q] <= x.term

LEMMA AboveStays ==
    ASSUME GoodStep, OrderInv, LeaderVotes, NEW x, x \in Links,
           NEW M \in SUBSET Peers, IsQuorum(M), Lasts(x, M), Bound(x, M)
    PROVE  Through(Links', x)
  <1>1. /\ x.term \in Nat
        /\ x.index \in Nat
        /\ Through(Links, x)
        /\ IndexTypes(Links)
        /\ Agree(Links)
    BY StepFacts DEF IndexTypes, Lasts, Above
  <1>2. ASSUME NEW r \in Peers, LeaderAppends(r), NEW y, AddsLink(r, y),
               y.term >= x.term
        PROVE  x \in LogLinks(log[r])
    <2>1. y.term = currentTerm'[r] /\ role'[r] = "Leader"
      BY <1>2 DEF AddsLink, LeaderAppends
    <2>2. currentTerm'[r] \in Nat /\ currentTerm[r] \in Nat /\ Len(log[r]) \in Nat
      BY StepFacts
    <2>3. CASE y.term = x.term
      BY <1>2, <2>3 DEF AddsLink
    <2>4. CASE y.term > x.term
      <3>1. CASE role[r] = "Leader" /\ currentTerm'[r] = currentTerm[r]
        <4>1. /\ Len(log[r]) # 0
              /\ log[r][Len(log[r])].term > x.term
          BY <2>1, <2>4, <3>1 DEF OrderInv, LastOwn
        <4> QED
          BY <1>1, <2>2, <4>1, LeaderHolds, StepFacts
      <3>2. ASSUME NEW T \in SUBSET Peers, IsQuorum(T), \A z \in T : z = r \/ Counts(z, r)
            PROVE  x \in LogLinks(log[r])
        <4>1. PICK z \in Peers : z \in M /\ z \in T
          BY <3>2, QuorumsMeet DEF GoodStep
        <4>2. CASE z = r
          <5>1. Firm(r, x)
            BY <1>1, <2>1, <2>2, <2>4, <4>1, <4>2 DEF Bound
          <5> QED
            BY <5>1 DEF Firm, Holds
        <4>3. CASE Counts(z, r)
          <5>1. /\ role[r] = "Candidate"
                /\ currentTerm[r] > x.term
                /\ VotesFor(z, r)
            BY <2>1, <2>4, <4>3 DEF Counts
          <5> QED
            BY <4>1, <5>1 DEF Lasts, VotesKnow, Holds
        <4> QED
          BY <3>2, <4>1, <4>2, <4>3
      <3> QED
        BY <2>1, <3>1, <3>2 DEF LeaderVotes
    <2> QED
      BY <1>1, <1>2, <2>1, <2>2, <2>3, <2>4
  <1>3. ASSUME NEW r \in Peers, LeaderAppends(r), NEW y, AddsLink(r, y),
               y.term >= x.term
        PROVE  /\ y.index > x.index
               /\ y.prev >= x.term
               /\ y.index = x.index + 1 => y.prev = x.term
    <2> DEFINE n == Len(log[r])
    <2>1. x \in LogLinks(log[r])
      BY <1>2, <1>3
    <2>2. x.index \in 1 .. n /\ log[r][x.index].term = x.term /\ n \in Nat
      BY <2>1, LinkPlace, StepFacts
    <2>3. y.index = n + 1 /\ y.prev = TermAt(log[r], n)
      BY <1>3 DEF AddsLink
    <2>4. n # 0 /\ n \in 1 .. n /\ y.prev = log[r][n].term
      BY <2>2, <2>3 DEF TermAt
    <2>5. Growing(Links) /\ LogLinks(log[r]) \subseteq Links
      BY StepFacts DEF OrderInv
    <2>6. log[r][n].term \in Nat /\ log[r][x.index].term <= log[r][n].term
      <3>1. PICK i \in 1 .. n : i = x.index /\ i <= n
        BY <2>2
      <3> HIDE DEF n
      <3>2. PICK k \in 1 .. Len(log[r]) : k = n /\ i \in 1 .. Len(log[r]) /\ i <= k
        BY <2>2, <2>4, <3>1 DEF n
      <3> QED
        BY <1>1, <2>2, <2>5, <3>1, <3>2, TermsGrow DEF n
    <2> HIDE DEF n
    <2> QED
      BY <1>1, <2>2, <2>3, <2>4, <2>6
  <1> SUFFICES ASSUME NEW y \in Links'
               PROVE  /\ y.term > x.term => y.index > x.index
                      /\ y.term >= x.term /\ y.index > x.index =>
                            y.prev >= x.term /\ (y.index = x.index + 1 => y.prev = x.term)
    BY DEF Through
  <1>4. CASE y \in Links
    BY <1>1, <1>4 DEF Through
  <1>5. CASE y \notin Links
    <2>1. PICK r \in Peers : LeaderAppends(r) /\ AddsLink(r, y)
      BY <1>5, LinkMoves DEF TakesLinks, AddsLink
    <2>2. y.term \in Nat
      BY StepFacts DEF IndexTypes
    <2> QED
      BY <1>1, <1>3, <2>1, <2>2
  <1> QED
    BY <1>4, <1>5

LEMMA BelowStays ==
    ASSUME GoodStep, OrderInv', NEW x, x \in Links, x \in Links',
           Through(Links', x), Below(x), NEW h \in Peers, Holds(h, x)
    PROVE  Below(x)'
  <1>1. /\ x.term \in Nat
        /\ IndexTypes(Links')
        /\ Agree(Links')
        /\ Agree(Links)
        /\ x \in LogLinks(log[h])
    BY StepFacts DEF IndexTypes, Holds
  <1> SUFFICES ASSUME NEW m \in msgs', m.type = "AppendEntries", m.term >= x.term,
                      NEW y \in MessageLinks(m), y.index <= x.index,
                      NEW q \in Peers, x \in LogLinks(log'[q])
               PROVE  y \in LogLinks(log'[q])
    BY DEF Below, Holds, LogLinks, Link, TermAt
  <1>2. CASE m \in msgs
    <2>1. y \in LogLinks(log[h])
      BY <1>1, <1>2 DEF Below, Holds
    <2>2. ASSUME LogLinks(log'[q]) \subseteq Links PROVE y \in LogLinks(log'[q])
      BY <1>1, <2>1, <2>2, SameBelow, StepFacts, Zenon
    <2>3. ASSUME NEW r \in Peers, NEW u, AddsLink(r, u) PROVE y \in LogLinks(log'[q])
      <3>1. x # u
        BY <2>3 DEF AddsLink
      <3>2. x \in LogLinks(log[q])
        BY <2>3, <3>1 DEF AddsLink
      <3>3. y \in LogLinks(log[q])
        BY <1>2, <3>2 DEF Below, Holds
      <3> QED
        BY <2>3, <3>3 DEF AddsLink
    <2>4. ASSUME Links' \subseteq Links PROVE y \in LogLinks(log'[q])
      BY <2>2, <2>4, StepFacts
    <2> QED
      BY <2>3, <2>4, LinkMoves DEF TakesLinks
  <1>3. CASE m \notin msgs
    <2>1. PICK r \in Peers : /\ m.from = r
                             /\ role'[r] = "Leader"
                             /\ currentTerm'[r] = m.term
                             /\ Piece(m, log'[r])
      BY <1>3 DEF GoodStep, LogShape, SentByLeader
    <2>2. y \in LogLinks(log'[r])
      BY <2>1, PieceLinks, StepFacts
    <2>3. x \in LogLinks(log'[r])
      <3>1. CASE m.term = x.term
        <4>1. LinksHeld'
          BY DEF GoodStep, RaftInv, MatchInv
        <4>2. x \in LogLinks(log[r])'
          BY <2>1, <3>1, <4>1 DEF LinksHeld
        <4> QED
          BY <4>2, HoldsNext DEF Holds
      <3>2. CASE m.term > x.term
        <4>1. LastOwn(r)'
          BY <2>1 DEF OrderInv
        <4>2. Len(log'[r]) # 0 /\ log'[r][Len(log'[r])].term > x.term
          BY <2>1, <3>2, <4>1, Zenon DEF LastOwn
        <4> QED
          BY <1>1, <4>2, LeaderHolds, StepFacts
      <3>3. m.term \in Nat
        BY DEF GoodStep, RaftInv, ElectionInv, ElectionTypes
      <3> QED
        BY <1>1, <3>1, <3>2, <3>3
    <2> QED
      BY <1>1, <2>2, <2>3, SameBelow, StepFacts, Zenon
  <1> QED
    BY <1>2, <1>3

LEMMA VotesStay ==
    ASSUME GoodStep, OrderInv, AskInv, CandidateVotes, NEW x, x \in Links,
           NEW M \in SUBSET Peers, Lasts(x, M), Bound(x, M)
    PROVE  VotesKnow(x, M)'
  <1>1. /\ x.term \in Nat
        /\ x.index \in Nat
        /\ Through(Links, x)
        /\ IndexTypes(Links)
        /\ Agree(Links)
        /\ Growing(Links)
    BY StepFacts DEF IndexTypes, Lasts, Above, OrderInv
  <1> SUFFICES ASSUME NEW c \in Peers, role'[c] = "Candidate", currentTerm'[c] > x.term,
                      NEW z \in M, VotesFor(z, c)'
               PROVE  Holds(c, x)'
    BY DEF VotesKnow
  <1>2. currentTerm'[c] \in Nat /\ currentTerm[c] \in Nat
    BY StepFacts
  <1>3. SUFFICES x \in LogLinks(log[c])
    BY CandidateKeepsLog, HoldsNext
  <1>4. CASE z = c
    <2>1. Firm(c, x)
      BY <1>1, <1>2, <1>4 DEF Bound
    <2> QED
      BY <2>1 DEF Firm, Holds
  <1>5. CASE Counts(z, c)
    BY <1>5 DEF Counts, Lasts, VotesKnow, Holds
  <1>6. CASE Approves(z, c)
    <2>1. /\ role[c] = "Candidate"
          /\ currentTerm'[c] = currentTerm[c]
          /\ currentTerm'[z] = currentTerm[c]
      BY <1>6 DEF Approves
    <2>2. PICK m \in msgs : /\ m.type = "RequestVote"
                            /\ m.from = c
                            /\ m.term = currentTerm[c]
                            /\ CandidateLogIsUpToDate(z, m)
      BY <1>6 DEF Approves
    <2>3. /\ m.lastLogIndex = Len(log[c])
          /\ m.lastLogTerm = LastLogTerm(log[c])
      BY <2>1, <2>2 DEF AskInv
    <2>4. x \in LogLinks(log[z])
      <3>1. Firm(z, x)
        BY <1>1, <1>2, <2>1 DEF Bound
      <3> QED
        BY <3>1 DEF Firm, Holds
    <2>5. /\ x.index \in 1 .. Len(log[z])
          /\ log[z][x.index].term = x.term
          /\ Len(log[z]) \in Nat
          /\ Len(log[c]) \in Nat
          /\ LogLinks(log[z]) \subseteq Links
          /\ LogLinks(log[c]) \subseteq Links
      BY <2>4, LinkPlace, StepFacts, Zenon
    <2>6. PICK b \in Nat : b = LastLogTerm(log[z]) /\ b >= x.term
      <3>1. PICK i \in 1 .. Len(log[z]) : i = x.index
        BY <2>5
      <3>2. PICK k \in 1 .. Len(log[z]) : k = Len(log[z]) /\ i <= k
        BY <2>5, <3>1
      <3>3. log[z][k].term \in Nat /\ log[z][i].term <= log[z][k].term
        BY <1>1, <2>5, <3>2, TermsGrow
      <3>4. log[z] # << >>
        BY <2>5
      <3>5. LastLogTerm(log[z]) = log[z][k].term
        BY <3>2, <3>4 DEF LastLogTerm
      <3> QED
        BY <1>1, <2>5, <3>1, <3>3, <3>5, Zenon
    <2>7. \/ LastLogTerm(log[c]) > b
          \/ LastLogTerm(log[c]) = b /\ Len(log[c]) >= Len(log[z])
      BY <2>2, <2>3, <2>6 DEF CandidateLogIsUpToDate
    <2>8. log[c] # << >> /\ Len(log[c]) # 0
      <3>1. log[c] # << >>
        BY <2>5, <2>6, <2>7 DEF LastLogTerm
      <3>2. IsSeq(log[c])
        BY DEF GoodStep, RaftInv, LogInv
      <3> QED
        BY <3>1, <3>2 DEF IsSeq
    <2>9. LastLogTerm(log[c]) = log[c][Len(log[c])].term
      BY <2>8 DEF LastLogTerm
    <2>10. PICK k \in 1 .. Len(log[c]) : k = Len(log[c])
      BY <2>5, <2>8
    <2>11. log[c][k].term \in Nat
      BY <1>1, <2>5, TermsGrow
    <2>12. CASE log[c][k].term > x.term
      BY <1>1, <2>5, <2>8, <2>10, <2>12, LeaderHolds
    <2>13. CASE ~(log[c][k].term > x.term)
      <3>1. k >= x.index /\ log[c][k].term >= x.term
        BY <1>1, <2>5, <2>6, <2>7, <2>9, <2>10, <2>11, <2>13
      <3> QED
        BY <1>1, <2>5, <3>1, WalkDown, Zenon
    <2> QED
      BY <2>12, <2>13
  <1> QED
    BY <1>4, <1>5, <1>6, Zenon DEF CandidateVotes

LEMMA AboveNext ==
    ASSUME NEW x, Through(Links', x)
    PROVE  Above(x)'
  BY DEF Above, Through

LEMMA LastsStay ==
    ASSUME GoodStep, OrderInv, OrderInv', AskInv, VoteShapes, NEW x, x \in Links,
           x \in Links', NEW M \in SUBSET Peers, IsQuorum(M), Lasts(x, M),
           Bound(x, M), NEW h \in Peers, Holds(h, x)
    PROVE  Lasts(x, M)'
  <1>1. LeaderVotes /\ CandidateVotes
    BY DEF VoteShapes
  <1>2. Through(Links', x)
    BY <1>1, AboveStays
  <1>3. Above(x)'
    BY <1>2, AboveNext
  <1>4. Below(x)'
    BY <1>2, BelowStays DEF Lasts
  <1>5. VotesKnow(x, M)'
    BY <1>1, VotesStay
  <1> QED
    BY <1>3, <1>4, <1>5 DEF Lasts

LEMMA AnchoredStays ==
    ASSUME GoodStep, OrderInv, OrderInv', AskInv, VoteShapes, NEW x, Anchored(x)
    PROVE  Anchored(x)'
  <1>1. x \in Links
    BY DEF Anchored
  <1>2. PICK M \in SUBSET Peers : /\ IsQuorum(M)
                                  /\ Lasts(x, M)
                                  /\ \A q \in M : Firm(q, x)
    BY DEF Anchored
  <1>3. PICK h \in Peers : h \in M
    BY <1>2, QuorumsMeet DEF GoodStep
  <1>4. \A q \in M : Firm(q, x)'
    BY <1>1, <1>2, FirmStays DEF Lasts
  <1>5. x \in Links'
    <2>1. Holds(h, x)'
      BY <1>3, <1>4 DEF Firm
    <2> QED
      BY <2>1, HoldsNext, StepFacts
  <1>6. Lasts(x, M)'
    BY <1>1, <1>2, <1>3, <1>5, LastsStay DEF Bound, Firm
  <1>7. IsQuorum(M)'
    BY <1>2, Zenon DEF IsQuorum
  <1> QED
    BY <1>4, <1>5, <1>6, <1>7, Zenon DEF Anchored
----------------------------------------------------------------------------
(* What a leader may commit.                                               *)

\* Where q's acknowledgement to the leader p comes from.
LEMMA AckedBefore ==
    ASSUME GoodStep, OrderInv, RejectionsVouchOld, NewAcks, MatchMoves,
           NEW p \in Peers, role[p] = "Leader", role'[p] = "Leader",
           currentTerm'[p] = currentTerm[p],
           NEW x, x \in Links, x.term = currentTerm[p],
           NEW q \in Peers, Acked(p, q, x.index)'
    PROVE  \/ Acked(p, q, x.index)
           \/ q = p
           \/ \E r \in msgs : /\ FollowerTakes(q, r)
                              /\ r.from = p
                              /\ r.term = currentTerm[p]
                              /\ x.index <= r.prevLogIndex + Len(r.entries)
  <1>1. x.index \in Nat \ {0} /\ x.term \in Nat /\ IndexTypes(Links)
    BY StepFacts DEF IndexTypes
  <1>i. PICK i \in Nat \ {0} : i = x.index
    BY <1>1
  <1>2. ASSUME NEW m \in msgs', Ack(m), m.from = q, m.to = p, m.term = currentTerm[p],
               m.matchIndex >= i
        PROVE  \/ Acked(p, q, i)
               \/ \E r \in msgs : /\ FollowerTakes(q, r)
                                  /\ r.from = p
                                  /\ r.term = currentTerm[p]
                                  /\ i <= r.prevLogIndex + Len(r.entries)
    <2>1. CASE m \in msgs
      BY <1>2, <2>1 DEF Acked
    <2>2. CASE m \notin msgs
      <3>1. PICK r \in msgs : /\ FollowerTakes(m.from, r)
                              /\ r.from = m.to
                              /\ r.term = m.term
                              /\ m.matchIndex = r.prevLogIndex + Len(r.entries)
        BY <1>2, <2>2 DEF NewAcks
      <3>2. m.matchIndex \in Nat
        BY <1>2, Zenon DEF GoodStep, RaftInv, LogInv, LogMessageOK, Ack
      <3> QED
        BY <1>2, <3>1, <3>2
    <2> QED
      BY <2>1, <2>2
  <1>3. ASSUME Answers(p, q), matchIndexes'[p][q] >= i PROVE Acked(p, q, i)
    <2>1. PICK m \in msgs :
              /\ m.type = "AppendEntriesResponse"
              /\ m.from = q
              /\ m.to = p
              /\ m.term = currentTerm[p]
              /\ IF m.success THEN matchIndexes'[p][q] = m.matchIndex
                 ELSE matchIndexes'[p][q] = MinOf(m.matchIndex, Len(log[p]))
      BY <1>3 DEF Answers
    <2>2. CASE m.success
      BY <1>3, <2>1, <2>2 DEF Acked, Ack
    <2>3. CASE ~m.success
      <3>1. m.matchIndex \in Nat /\ Len(log[p]) \in Nat /\ LogLinks(log[p]) \subseteq Links
        BY <2>1, StepFacts, Zenon DEF GoodStep, RaftInv, LogInv, LogMessageOK
      <3>2. PICK k \in Nat : k = MinOf(m.matchIndex, Len(log[p])) /\ k <= Len(log[p])
        BY <3>1 DEF MinOf
      <3>3. k >= i /\ k # 0
        BY <1>3, <2>1, <2>3, <3>2
      <3>4. TermAt(log[p], k) < currentTerm[p]
        BY <2>1, <2>3, <3>2 DEF RejectionsVouchOld
      <3>5. x \in LogLinks(log[p])
        BY DEF GoodStep, RaftInv, MatchInv, LinksHeld
      <3>6. i \in 1 .. Len(log[p]) /\ log[p][i].term = x.term
        BY <1>i, <3>5, LinkPlace
      <3>7. log[p][k].term \in Nat /\ log[p][i].term <= log[p][k].term
        <4>1. k \in 1 .. Len(log[p]) /\ i <= k
          BY <3>1, <3>2, <3>3
        <4> QED
          BY <1>1, <3>1, <3>6, <4>1, TermsGrow, Zenon DEF OrderInv
      <3>8. TermAt(log[p], k) = log[p][k].term
        BY <3>3 DEF TermAt
      <3> QED
        BY <1>1, <3>4, <3>6, <3>7, <3>8
    <2> QED
      BY <2>2, <2>3
  <1>4. ASSUME matchIndexes'[p][q] >= i PROVE Acked(p, q, i) \/ q = p
    <2>1. CASE matchIndexes'[p][q] = matchIndexes[p][q]
      BY <1>4, <2>1 DEF Acked
    <2>2. matchIndexes'[p][q] # 0
      BY <1>4
    <2> QED
      BY <1>3, <1>4, <2>1, <2>2 DEF MatchMoves
  <1>5. \/ matchIndexes'[p][q] >= i
        \/ \E m \in msgs' : /\ Ack(m)
                            /\ m.from = q
                            /\ m.to = p
                            /\ m.term = currentTerm[p]
                            /\ m.matchIndex >= i
    BY <1>i DEF Acked, Ack
  <1> QED
    BY <1>i, <1>2, <1>4, <1>5

\* An entry the leader already had.
LEMMA OldStaysSafe ==
    ASSUME GoodStep, OrderInv, OrderInv', AskInv, SafeInv, RejectionsVouchOld,
           CommitShape, NEW p \in Peers, role'[p] = "Leader",
           NEW x, x \in Links, x \in Links', x.term = currentTerm'[p],
           NEW M \in SUBSET Peers, IsQuorum(M), \A q \in M : MayAck(p, q, x.index)'
    PROVE  /\ Lasts(x, M)'
           /\ \A q \in M : Acked(p, q, x.index)' => Firm(q, x)'
  <1>1. PICK s \in Peers : WasElected(s, x.term)
    BY DEF GoodStep, RaftInv, MatchInv, LinksElected
  <1>2. role[p] = "Leader" /\ currentTerm[p] = currentTerm'[p]
    BY <1>1, OwnMessages, Zenon
  <1>3. /\ x.term \in Nat
        /\ currentTerm'[p] \in Nat
        /\ IndexTypes(Links)
        /\ Agree(Links)
        /\ Growing(Links)
    BY StepFacts DEF IndexTypes, OrderInv
  <1>4. x \in LogLinks(log[p])
    BY <1>2 DEF GoodStep, RaftInv, MatchInv, LinksHeld
  <1>5. VoteShapes /\ NewAcks /\ MatchMoves
    BY DEF CommitShape
  <1>6. ASSUME NEW q \in M, Acked(p, q, x.index)'
        PROVE  \/ Acked(p, q, x.index)
               \/ q = p
               \/ \E r \in msgs : /\ FollowerTakes(q, r)
                                  /\ r.from = p
                                  /\ r.term = currentTerm[p]
                                  /\ x.index <= r.prevLogIndex + Len(r.entries)
    BY <1>2, <1>5, <1>6, AckedBefore
  <1>7. ASSUME NEW q \in M PROVE currentTerm'[q] <= x.term \/ Acked(p, q, x.index)
    <2>1. CASE currentTerm'[q] <= x.term
      BY <2>1, Zenon
    <2>2. CASE Acked(p, q, x.index)'
      BY <1>2, <1>3, <1>6, <2>2 DEF FollowerTakes
    <2> QED
      BY <2>1, <2>2 DEF MayAck
  <1>8. \A q \in M : MayAck(p, q, x.index)
    <2> TAKE q \in M
    <2>1. currentTerm[q] \in Nat /\ currentTerm'[q] \in Nat /\ currentTerm[q] <= currentTerm'[q]
      BY StepFacts
    <2> QED
      BY <1>2, <1>3, <1>7, <2>1 DEF MayAck
  <1>9. /\ Lasts(x, M)
        /\ \A q \in M : Acked(p, q, x.index) => Firm(q, x)
    BY <1>2, <1>8, Zenon DEF SafeInv
  <1>10. Bound(x, M)
    BY <1>7, <1>9, Zenon DEF Bound
  <1>11. Lasts(x, M)'
    BY <1>4, <1>5, <1>9, <1>10, LastsStay, Zenon DEF Holds
  <1>12. ASSUME NEW q \in M, Acked(p, q, x.index)' PROVE Firm(q, x)'
    <2>1. CASE Acked(p, q, x.index)
      BY <1>9, <2>1, FirmStays, Zenon DEF Lasts
    <2>2. CASE q = p
      <3>1. Firm(p, x)
        BY <1>2, <1>3, <1>4 DEF Firm, Holds
      <3> QED
        BY <1>9, <2>2, <3>1, FirmStays, Zenon DEF Lasts
    <2>3. ASSUME NEW r \in msgs, FollowerTakes(q, r), r.term = currentTerm[p],
                 x.index <= r.prevLogIndex + Len(r.entries)
          PROVE  Firm(q, x)'
      <3>1. r.type = "AppendEntries" /\ currentTerm'[q] = x.term
        BY <1>2, <2>3, Zenon DEF FollowerTakes
      <3>2. Piece(r, log[p])
        BY <1>2, <2>3, <3>1, Zenon DEF OrderInv
      <3>3. PICK e \in Nat : e = r.prevLogIndex + Len(r.entries)
        BY <2>3, TakenFacts, Zenon
      <3>4. /\ LogLinks(log'[q]) \subseteq Links
            /\ e <= Len(log'[q])
            /\ TermAt(log'[q], e) = EndTerm(r)
        BY <2>3, <3>3, TakenFacts, Zenon
      <3>5. /\ e <= Len(log[p])
            /\ TermAt(log[p], e) = EndTerm(r)
        BY <3>2, <3>3, PieceEnd, StepFacts
      <3>6. x.index \in 1 .. Len(log[p]) /\ log[p][x.index].term = x.term
        BY <1>4, LinkPlace
      <3>7. PICK i \in 1 .. Len(log[p]) : i = x.index
        BY <3>6
      <3>8. e \in 1 .. Len(log[p]) /\ i <= e /\ e # 0
        BY <2>3, <3>3, <3>5, <3>7
      <3>9. log[p][i].term <= log[p][e].term /\ log[p][e].term \in Nat
        BY <1>3, <3>8, TermsGrow, StepFacts, Zenon
      <3>10. log'[q][e].term = log[p][e].term
        BY <3>4, <3>5, <3>8 DEF TermAt
      <3>11. e \in 1 .. Len(log'[q]) /\ e >= x.index /\ log'[q][e].term >= x.term
        <4>1. Len(log'[q]) \in Nat
          BY StepFacts
        <4> QED
          BY <1>3, <3>4, <3>6, <3>7, <3>8, <3>9, <3>10, <4>1
      <3>12. Through(Links, x)
        BY <1>9 DEF Lasts, Above
      <3>13. x \in LogLinks(log'[q])
        BY <1>3, <3>4, <3>11, <3>12, WalkDown, StepFacts, Zenon
      <3> QED
        BY <1>3, <3>1, <3>13, HoldsNext DEF Firm
    <2> QED
      BY <1>6, <1>12, <2>1, <2>2, <2>3, Zenon
  <1> QED
    BY <1>11, <1>12

\* An entry the leader has just appended: nobody may have acknowledged it, and
\* no later term can have begun.
LEMMA NewIsSafe ==
    ASSUME GoodStep, OrderInv, OrderInv', AckInv, CommitShape,
           NEW p \in Peers, role'[p] = "Leader",
           NEW x, x \notin Links, x \in Links', x.term = currentTerm'[p],
           NEW M \in SUBSET Peers, IsQuorum(M), \A q \in M : MayAck(p, q, x.index)'
    PROVE  /\ Lasts(x, M)'
           /\ \A q \in M : Acked(p, q, x.index)' => Firm(q, x)'
  <1>t. PICK t \in Nat : t = currentTerm'[p] /\ t = x.term
    BY StepFacts
  <1>1. AddsLink(p, x)
    <2>1. PICK r \in Peers : LeaderAppends(r) /\ AddsLink(r, x)
      BY LinkMoves, Zenon DEF TakesLinks, AddsLink
    <2>2. role'[r] = "Leader" /\ currentTerm'[r] = currentTerm'[p]
      BY <2>1, Zenon DEF LeaderAppends, AddsLink
    <2>3. r = p
      BY <2>2, Zenon DEF GoodStep, RaftInv, ElectionInv, ElectionSafety
    <2> QED
      BY <2>1, <2>3, Zenon
  <1>2. /\ x.index = Len(log[p]) + 1
        /\ Len(log'[p]) = x.index
        /\ x \in LogLinks(log'[p])
        /\ Len(log[p]) \in Nat
    BY <1>1, StepFacts, Zenon DEF AddsLink
  <1>i. PICK i \in Nat : i = x.index /\ i = Len(log[p]) + 1
    BY <1>2
  <1>3. NewAcks /\ MatchMoves
    BY DEF CommitShape
  <1>4. ASSUME NEW q \in M, Acked(p, q, x.index)' PROVE q = p
    <2>1. CASE matchIndexes'[p][q] >= i
      <3>1. matchIndexes'[p][q] \in Nat
        BY Zenon DEF GoodStep, RaftInv, LogInv
      <3> QED
        BY <1>2, <1>3, <1>i, <2>1, <3>1, MatchBound
    <2>2. ASSUME NEW m \in msgs', Ack(m), m.to = p, m.term = t, m.matchIndex >= i
          PROVE  FALSE
      <3>1. /\ WasElected(p, t)
            /\ role[p] = "Leader" /\ currentTerm[p] = t => m.matchIndex <= Len(log[p])
        BY <1>3, <2>2, AcksBound, Zenon
      <3>2. role[p] = "Leader" /\ currentTerm[p] = t
        BY <1>t, <3>1, OwnMessages, Zenon
      <3>3. m.matchIndex \in Nat
        BY <2>2, Zenon DEF GoodStep, RaftInv, LogInv, LogMessageOK, Ack
      <3> QED
        BY <1>2, <1>i, <2>2, <3>1, <3>2, <3>3
    <2>3. \/ matchIndexes'[p][q] >= i
          \/ \E m \in msgs' : Ack(m) /\ m.to = p /\ m.term = t /\ m.matchIndex >= i
      BY <1>i, <1>t, <1>4 DEF Acked, Ack
    <2> QED
      BY <2>1, <2>2, <2>3
  <1>5. \A q \in M : currentTerm'[q] <= t
    BY <1>4, <1>t DEF MayAck
  <1>6. Holds(p, x)' /\ Firm(p, x)'
    BY <1>2, <1>t, HoldsNext DEF Firm
  <1>7. ASSUME NEW q \in Peers, NEW u \in Nat, WasElected(q, u)' PROVE u <= t
    <2> SUFFICES ASSUME u > t PROVE FALSE
      OBVIOUS
    <2>1. PICK V \in SUBSET Peers : /\ \E v \in Views : /\ V \subseteq v \cup {q}
                                                        /\ IsMajority(V, v \cup {q})
                                    /\ \A z \in V : Voted(z, q, u)'
      BY <1>7, Zenon DEF WasElected, ElectedBy
    <2>2. IsQuorum(V)
      BY <2>1, Zenon DEF IsQuorum
    <2>3. PICK z \in Peers : z \in M /\ z \in V
      BY <2>2, QuorumsMeet DEF GoodStep
    <2>4. currentTerm'[z] >= u
      BY <2>1, <2>3, StepFacts DEF Voted
    <2> QED
      BY <1>5, <2>3, <2>4, StepFacts
  <1>8. Above(x)'
    <2> SUFFICES ASSUME NEW y \in Links' PROVE y.term < t \/ (y.term = t /\ y.index <= i)
      <3>1. \A y \in Links' : y.term \in Nat /\ y.index \in Nat
        BY StepFacts DEF IndexTypes
      <3>2. Through(Links', x)
        BY <1>i, <1>t, <3>1 DEF Through
      <3> QED
        BY <3>2, AboveNext
    <2>1. y.term \in Nat /\ y.index \in Nat
      BY StepFacts DEF IndexTypes
    <2>2. PICK q \in Peers : WasElected(q, y.term)'
      BY DEF GoodStep, RaftInv, MatchInv, LinksElected
    <2>3. y.term <= t
      BY <1>7, <2>1, <2>2, Zenon
    <2>4. ASSUME y.term = t PROVE y.index <= i
      <3>1. LinksHeld'
        BY Zenon DEF GoodStep, RaftInv, MatchInv
      <3>2. y \in LogLinks(log[p])'
        BY <1>t, <2>4, <3>1, Zenon DEF LinksHeld
      <3>3. y \in LogLinks(log'[p])
        BY <3>2, HoldsNext, Zenon DEF Holds
      <3>4. y.index \in 1 .. Len(log'[p])
        BY <3>3, LinkPlace, Zenon
      <3> QED
        BY <1>2, <1>i, <3>4
    <2> QED
      BY <2>1, <2>3, <2>4
  <1>9. Below(x)'
    <2> SUFFICES ASSUME NEW m \in msgs', m.type = "AppendEntries", m.term >= t,
                        NEW y \in MessageLinks(m), y.index <= x.index,
                        NEW q \in Peers, x \in LogLinks(log'[q])
                 PROVE  y \in LogLinks(log'[q])
      BY <1>t, Zenon DEF Below, Holds, LogLinks, Link, TermAt
    <2>1. m.term \in Nat /\ m.from \in Peers
      BY Zenon DEF GoodStep, RaftInv, ElectionInv, ElectionTypes
    <2>2. WasElected(m.from, m.term)'
      BY Zenon DEF GoodStep, RaftInv, ForwardInv
    <2>3. PICK s \in Peers : s = m.from
      BY <2>1
    <2>4. PICK u \in Nat : u = m.term
      BY <2>1, Zenon
    <2>5. u <= t
      BY <1>7, <2>2, <2>3, <2>4, Zenon
    <2>6. m.term = currentTerm'[p]
      BY <1>t, <2>4, <2>5
    <2>7. Piece(m, log[p])'
      BY <2>6, Zenon DEF OrderInv
    <2>8. Piece(m, log'[p])
      BY <2>7, Zenon DEF Piece, TermAt
    <2>9. y \in LogLinks(log'[p])
      BY <2>8, PieceLinks, StepFacts, Zenon
    <2> QED
      BY <1>2, <2>9, SameBelow, StepFacts, Zenon
  <1>10. VotesKnow(x, M)'
    <2> SUFFICES ASSUME NEW c \in Peers, role'[c] = "Candidate", currentTerm'[c] > t,
                        NEW z \in M, VotesFor(z, c)'
                 PROVE  FALSE
      BY <1>t, Zenon DEF VotesKnow
    <2>0. ElectionInv'
      BY Zenon DEF GoodStep, RaftInv
    <2>1. Voted(z, c, currentTerm[c])'
      <3>1. CASE z \in votesReceived'[c]
        BY <2>0, <3>1, Zenon DEF ElectionInv, CandidateOK
      <3>2. CASE \E m \in msgs' : /\ Grant(m)
                                  /\ m.from = z
                                  /\ m.to = c
                                  /\ m.term = currentTerm'[c]
        <4>1. PICK m \in msgs' : /\ Grant(m)
                                 /\ m.from = z
                                 /\ m.to = c
                                 /\ m.term = currentTerm'[c]
          BY <3>2, Zenon
        <4>2. Voted(m.from, m.to, m.term)'
          BY <2>0, <4>1, Zenon DEF ElectionInv, MessageOK, Grant
        <4> QED
          BY <4>1, <4>2, Zenon DEF Voted
      <3> QED
        BY <3>1, <3>2, Zenon DEF VotesFor, Grant
    <2>2. currentTerm'[z] >= currentTerm'[c]
      <3>1. currentTerm'[z] \in Nat /\ currentTerm'[c] \in Nat
        BY StepFacts, Zenon
      <3> QED
        BY <2>1, <3>1 DEF Voted
    <2> QED
      BY <1>5, <2>2, StepFacts
  <1> QED
    BY <1>4, <1>6, <1>8, <1>9, <1>10, Zenon DEF Lasts

LEMMA NextSafe ==
    ASSUME GoodStep, OrderInv, OrderInv', AskInv, AckInv, SafeInv,
           RejectionsVouchOld, CommitShape
    PROVE  SafeInv'
  <1> SUFFICES ASSUME NEW p \in Peers, role'[p] = "Leader", NEW x \in Links',
                      x.term = currentTerm'[p], NEW M \in SUBSET Peers, IsQuorum(M),
                      \A q \in M : MayAck(p, q, x.index)'
               PROVE  /\ Lasts(x, M)'
                      /\ \A q \in M : Acked(p, q, x.index)' => Firm(q, x)'
    BY Zenon DEF SafeInv, IsQuorum
  <1> QED
    BY OldStaysSafe, NewIsSafe, Zenon
----------------------------------------------------------------------------
(* What is committed lasts.                                                *)

LEMMA CommittedStays ==
    ASSUME GoodStep, OrderInv, OrderInv', AskInv, VoteShapes,
           NEW p \in Peers, NEW x, Anchored(x), Holds(p, x)
    PROVE  Anchored(x)' /\ Holds(p, x)' /\ x \in Links'
  <1>1. x \in Links /\ Below(x)
    BY Zenon DEF Anchored, Lasts
  <1>2. Firm(p, x)
    BY DEF Firm, Holds, OrderInv
  <1>3. Firm(p, x)'
    BY <1>1, <1>2, FirmStays
  <1>4. Anchored(x)'
    BY AnchoredStays
  <1> QED
    BY <1>3, <1>4 DEF Firm, Anchored

LEMMA LeaderCommitAnchored ==
    ASSUME GoodStep, SafeInv', NEW p \in Peers, LeaderCommits(p)
    PROVE  \E x \in Links' : /\ Anchored(x)'
                             /\ Holds(p, x)'
                             /\ x.index = commitIndex'[p]
  <1>1. PICK c \in 1 .. Len(log'[p]) : c = commitIndex'[p]
    BY Zenon DEF LeaderCommits
  <1>2. /\ role'[p] = "Leader"
        /\ log'[p][c].term = currentTerm'[p]
    BY <1>1, Zenon DEF LeaderCommits
  <1>3. PICK v \in Views :
            IsMajority({q \in v \cup {p} : matchIndexes'[p][q] >= c}, v \cup {p})
    BY <1>1, Zenon DEF LeaderCommits
  <1>4. PICK M \in SUBSET Peers : M = {q \in v \cup {p} : matchIndexes'[p][q] >= c}
    BY RaftAssumption, Zenon
  <1>5. IsQuorum(M)
    BY <1>3, <1>4, Zenon DEF IsQuorum
  <1>6. PICK x \in LogLinks(log'[p]) : x.index = c /\ x.term = log'[p][c].term
    BY LinkAt
  <1>7. x \in Links' /\ Holds(p, x)'
    BY HoldsNext, StepFacts
  <1>8. \A q \in M : Acked(p, q, x.index)'
    BY <1>4, <1>6 DEF Acked
  <1>9. /\ Lasts(x, M)'
        /\ \A q \in M : Firm(q, x)'
    <2>1. \A q \in M : MayAck(p, q, x.index)'
      BY <1>8 DEF MayAck
    <2>2. x.term = currentTerm'[p] /\ IsQuorum(M)'
      BY <1>2, <1>5, <1>6, Zenon DEF IsQuorum
    <2> QED
      BY <1>2, <1>7, <1>8, <2>1, <2>2, Zenon DEF SafeInv
  <1>10. IsQuorum(M)'
    BY <1>5, Zenon DEF IsQuorum
  <1>11. Anchored(x)'
    BY <1>7, <1>9, <1>10, Zenon DEF Anchored
  <1> QED
    BY <1>1, <1>6, <1>7, <1>11, Zenon

LEMMA FollowerCommitAnchored ==
    ASSUME GoodStep, OrderInv, OrderInv', AskInv, VoteShapes, CommitInv,
           BatchesReachCommit, NEW p \in Peers, NEW m \in msgs, FollowerTakes(p, m),
           commitIndex'[p] = FollowerCommit(p, m, log'[p]),
           commitIndex'[p] # commitIndex[p]
    PROVE  \E x \in Links' : /\ Anchored(x)'
                             /\ Holds(p, x)'
                             /\ x.index = commitIndex'[p]
  <1>1. m.type = "AppendEntries"
    BY DEF FollowerTakes
  <1>2. /\ m.leaderCommit \in Nat
        /\ commitIndex[p] \in Nat
        /\ Len(log'[p]) \in Nat
    BY <1>1, StepFacts, Zenon DEF GoodStep, RaftInv, LogInv, LogMessageOK, AppendOK
  <1>3. PICK e \in Nat : e = m.prevLogIndex + Len(m.entries)
    BY TakenFacts, Zenon
  <1>4. /\ LogLinks(log'[p]) \subseteq Links
        /\ e <= Len(log'[p])
        /\ TermAt(log'[p], e) = EndTerm(m)
    BY <1>3, TakenFacts, Zenon
  <1>5. m.leaderCommit <= e
    BY <1>1, <1>3, Zenon DEF BatchesReachCommit
  <1>6. commitIndex'[p] = m.leaderCommit /\ m.leaderCommit # 0
    BY <1>2, <1>4, <1>5 DEF FollowerCommit, MaxOf, MinOf
  <1>7. PICK x \in Links : /\ Anchored(x)
                           /\ x.index = m.leaderCommit
                           /\ x.term <= EndTerm(m)
    BY <1>1, <1>3, <1>5, <1>6, Zenon DEF CommitInv
  <1>8. /\ IndexTypes(Links)
        /\ Agree(Links)
        /\ Growing(Links)
        /\ Through(Links, x)
        /\ x.term \in Nat
    BY <1>7, StepFacts, Zenon DEF IndexTypes, OrderInv, Anchored, Lasts, Above
  <1>9. e \in 1 .. Len(log'[p]) /\ e >= x.index
    BY <1>2, <1>4, <1>5, <1>6, <1>7
  <1>10. log'[p][e].term \in Nat /\ log'[p][e].term >= x.term
    <2>1. log'[p][e].term = EndTerm(m)
      BY <1>4, <1>9 DEF TermAt
    <2>2. log'[p][e].term \in Nat
      BY <1>2, <1>4, <1>8, <1>9, TermsGrow
    <2> QED
      BY <1>7, <1>8, <2>1, <2>2, Zenon
  <1>11. x \in LogLinks(log'[p])
    BY <1>2, <1>4, <1>8, <1>9, <1>10, WalkDown, Zenon
  <1>12. Anchored(x)'
    BY <1>7, AnchoredStays, Zenon
  <1>13. Holds(p, x)' /\ x \in Links'
    BY <1>11, HoldsNext, StepFacts
  <1> QED
    BY <1>6, <1>7, <1>12, <1>13

LEMMA MessageCommitAnchored ==
    ASSUME GoodStep, OrderInv, OrderInv', AskInv, VoteShapes, CommitInv,
           NEW m \in msgs', m.type = "AppendEntries", m.leaderCommit # 0,
           m.leaderCommit <= m.prevLogIndex + Len(m.entries)
    PROVE  \E x \in Links' : /\ Anchored(x)'
                             /\ x.index = m.leaderCommit
                             /\ x.term <= EndTerm(m)
  <1>1. CASE m \in msgs
    <2>1. PICK x \in Links : /\ Anchored(x)
                             /\ x.index = m.leaderCommit
                             /\ x.term <= EndTerm(m)
      BY <1>1 DEF CommitInv
    <2>2. Anchored(x)'
      BY <2>1, AnchoredStays
    <2>3. x \in Links'
      BY <2>2, Zenon DEF Anchored
    <2> QED
      BY <2>1, <2>2, <2>3
  <1>2. CASE m \notin msgs
    <2>1. PICK p \in Peers : /\ m.from = p
                             /\ Piece(m, log'[p])
                             /\ m.leaderCommit = commitIndex[p]
      BY <1>2, Zenon DEF GoodStep, LogShape, SentByLeader
    <2>2. PICK x \in Links : /\ Anchored(x)
                             /\ Holds(p, x)
                             /\ x.index = commitIndex[p]
      BY <2>1, Zenon DEF CommitInv
    <2>3. Anchored(x)' /\ Holds(p, x)' /\ x \in Links'
      BY <2>2, CommittedStays, Zenon
    <2>4. /\ x \in LogLinks(log'[p])
          /\ Len(log'[p]) \in Nat
          /\ LogLinks(log'[p]) \subseteq Links'
          /\ IndexTypes(Links')
      BY <2>3, HoldsNext, StepFacts, Zenon
    <2>5. Growing(Links')
      BY Zenon DEF OrderInv, Growing
    <2>6. PICK e \in Nat : e = m.prevLogIndex + Len(m.entries)
      BY <2>1, <2>4, PieceEnd, Zenon
    <2>7. /\ e <= Len(log'[p])
          /\ TermAt(log'[p], e) = EndTerm(m)
      BY <2>1, <2>4, <2>6, PieceEnd, Zenon
    <2>8. x.index \in 1 .. Len(log'[p]) /\ log'[p][x.index].term = x.term
      BY <2>4, LinkPlace
    <2>9. PICK i \in 1 .. Len(log'[p]) : i = x.index
      BY <2>8, Zenon
    <2>10. e \in 1 .. Len(log'[p]) /\ i <= e
      BY <2>1, <2>2, <2>4, <2>6, <2>7, <2>9
    <2>11. log'[p][i].term <= log'[p][e].term
      BY <2>4, <2>5, <2>10, TermsGrow, Zenon
    <2>12. EndTerm(m) = log'[p][e].term
      BY <2>7, <2>10 DEF TermAt
    <2> QED
      BY <2>1, <2>2, <2>3, <2>8, <2>9, <2>11, <2>12, Zenon
  <1> QED
    BY <1>1, <1>2

LEMMA NextCommit ==
    ASSUME GoodStep, OrderInv, OrderInv', AskInv, SafeInv', CommitInv,
           BatchesReachCommit, CommitShape
    PROVE  CommitInv'
  <1>1. VoteShapes /\ CommitMoves
    BY Zenon DEF CommitShape
  <1>2. ASSUME NEW p \in Peers, commitIndex'[p] # 0
        PROVE  \E x \in Links' : /\ Anchored(x)'
                                 /\ Holds(p, x)'
                                 /\ x.index = commitIndex'[p]
    <2>1. CASE commitIndex'[p] = commitIndex[p]
      <3>1. PICK x \in Links : /\ Anchored(x)
                               /\ Holds(p, x)
                               /\ x.index = commitIndex[p]
        BY <1>2, <2>1 DEF CommitInv
      <3>2. Anchored(x)' /\ Holds(p, x)' /\ x \in Links'
        BY <1>1, <3>1, CommittedStays, Zenon
      <3> QED
        BY <2>1, <3>1, <3>2, Zenon
    <2>2. CASE LeaderCommits(p)
      BY <2>2, LeaderCommitAnchored, Zenon
    <2>3. ASSUME NEW m \in msgs, FollowerTakes(p, m),
                 commitIndex'[p] = FollowerCommit(p, m, log'[p]),
                 commitIndex'[p] # commitIndex[p]
          PROVE  \E x \in Links' : /\ Anchored(x)'
                                   /\ Holds(p, x)'
                                   /\ x.index = commitIndex'[p]
      BY <1>1, <2>3, FollowerCommitAnchored
    <2> QED
      BY <1>1, <2>1, <2>2, <2>3, Zenon DEF CommitMoves
  <1>3. ASSUME NEW m \in msgs', m.type = "AppendEntries", m.leaderCommit # 0,
               m.leaderCommit <= m.prevLogIndex + Len(m.entries)
        PROVE  \E x \in Links' : /\ Anchored(x)'
                                 /\ x.index = m.leaderCommit
                                 /\ x.term <= EndTerm(m)
    BY <1>1, <1>3, MessageCommitAnchored, Zenon
  <1> QED
    BY <1>2, <1>3, Zenon DEF CommitInv, EndTerm
----------------------------------------------------------------------------
(* Logs that hold what lasts.                                              *)

\* What is known of a peer's commits.
LEMMA Committed ==
    ASSUME RaftInv, SafetyInv, NEW p \in Peers, commitIndex[p] # 0
    PROVE  \E x \in Links : /\ x.index = commitIndex[p]
                            /\ Through(Links, x)
                            /\ x.term <= currentTerm[p]
                            /\ x \in LogLinks(log[p])
                            /\ commitIndex[p] \in 1 .. Len(log[p])
                            /\ log[p][commitIndex[p]].term = x.term
  <1>1. PICK x \in Links : Anchored(x) /\ Holds(p, x) /\ x.index = commitIndex[p]
    BY Zenon DEF SafetyInv, CommitInv
  <1>2. x \in LogLinks(log[p])
    BY <1>1 DEF Holds
  <1>3. x.index \in 1 .. Len(log[p]) /\ log[p][x.index].term = x.term
    BY <1>2, LinkPlace, Zenon
  <1> QED
    BY <1>1, <1>2, <1>3, Zenon DEF Anchored, Lasts, Above, SafetyInv, OrderInv

LEMMA LinkFacts ==
    ASSUME RaftInv
    PROVE  /\ IndexTypes(Links)
           /\ Agree(Links)
           /\ \A q \in Peers : /\ Len(log[q]) \in Nat
                               /\ IsSeq(log[q])
                               /\ LogLinks(log[q]) \subseteq Links
                               /\ commitIndex[q] \in Nat
                               /\ commitIndex[q] <= Len(log[q])
                               /\ currentTerm[q] \in Nat
  <1>1. IndexTypes(Links) /\ Agree(Links)
    BY DEF RaftInv, MatchInv, LinkTypes, LinksAgree, IndexTypes
  <1>2. \A q \in Peers : /\ Len(log[q]) \in Nat
                         /\ IsSeq(log[q])
                         /\ LogLinks(log[q]) \subseteq Links
                         /\ commitIndex[q] \in Nat
                         /\ commitIndex[q] <= Len(log[q])
    BY SeqFacts DEF RaftInv, LogInv, Links
  <1>3. \A q \in Peers : currentTerm[q] \in Nat
    BY Zenon DEF RaftInv, ElectionInv, ElectionTypes
  <1> QED
    BY <1>1, <1>2, <1>3

\* A log that holds what p has committed last begins with what p has committed.
LEMMA BeginsAlike ==
    ASSUME RaftInv, NEW p \in Peers, NEW q \in Peers, NEW c \in 1 .. Len(log[p]),
           NEW x, x \in LogLinks(log[q]), x.index = c, log[p][c].term = x.term
    PROVE  /\ c <= Len(log[q])
           /\ SubSeq(log[p], 1, c) = SubSeq(log[q], 1, c)
  <1>1. c \in 1 .. Len(log[q]) /\ log[q][c].term = x.term
    BY LinkPlace, Zenon
  <1>2. c <= Len(log[q]) /\ log[p][c].term = log[q][c].term
    BY <1>1, LinkFacts
  <1>3. LogInv /\ MatchInv
    BY DEF RaftInv
  <1> QED
    BY <1>2, <1>3, EqualPrefix, Zenon

LEMMA Agreed ==
    ASSUME RaftInv, SafetyInv, NEW p \in Peers, NEW q \in Peers,
           commitIndex[p] <= commitIndex[q]
    PROVE  SubSeq(log[p], 1, commitIndex[p]) = SubSeq(log[q], 1, commitIndex[p])
  <1>1. CASE commitIndex[p] = 0
    <2>1. \A j \in 1 .. 0 : log[p][j] = log[q][j]
      OBVIOUS
    <2> QED
      BY <1>1, <2>1, SamePrefix, LinkFacts
  <1>2. CASE commitIndex[p] # 0
    <2>1. commitIndex[q] # 0 /\ commitIndex[p] \in Nat /\ commitIndex[q] \in Nat
      BY <1>2, LinkFacts
    <2>2. PICK x \in Links : /\ x.index = commitIndex[p]
                             /\ Through(Links, x)
                             /\ commitIndex[p] \in 1 .. Len(log[p])
                             /\ log[p][commitIndex[p]].term = x.term
      BY <1>2, Committed
    <2>3. PICK y \in Links : /\ y.index = commitIndex[q]
                             /\ Through(Links, y)
                             /\ commitIndex[q] \in 1 .. Len(log[q])
                             /\ log[q][commitIndex[q]].term = y.term
      BY <2>1, Committed
    <2>4. x.term \in Nat /\ y.term \in Nat
      BY LinkFacts DEF IndexTypes
    <2>5. y.term >= x.term
      <3>1. x.term > y.term => x.index > y.index
        BY <2>3, Zenon DEF Through
      <3> QED
        BY <2>1, <2>2, <2>3, <2>4, <3>1
    <2>6. x \in LogLinks(log[q])
      BY <2>1, <2>2, <2>3, <2>5, WalkDown, LinkFacts
    <2> QED
      BY <2>2, <2>6, BeginsAlike, Zenon
  <1> QED
    BY <1>1, <1>2, Zenon
=============================================================================
