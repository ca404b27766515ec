--------------------------- MODULE RaftLogProofs ----------------------------
(***************************************************************************)
(* What every handler of module Raft does to logs, commit indexes and      *)
(* messages: each action keeps LogInv.  No step takes back a commit,       *)
(* whatever the views of the peers, whoever leads, and through any number  *)
(* of crashes: the guard of append_entries keeps every truncation beyond   *)
(* the commit index, and the commit index stays within the log.  That      *)
(* needs nothing about elections.                                          *)
(***************************************************************************)
EXTENDS RaftRestart, RaftLinks

USE SMTT(30), ZenonT(30)
----------------------------------------------------------------------------
(* What append_entries makes of a log.                                     *)

\* A kept prefix with anything behind it.
LEMMA KeepAndAppend ==
    ASSUME NEW s, IsSeq(s), NEW t, IsSeq(t), NEW k \in 0 .. Len(s)
    PROVE  /\ IsSeq(SubSeq(s, 1, k) \o t)
           /\ Len(SubSeq(s, 1, k) \o t) = k + Len(t)
           /\ \A n \in 0 .. k : SubSeq(SubSeq(s, 1, k) \o t, 1, n) = SubSeq(s, 1, n)
  <1>1. PICK S : s \in Seq(S)
    BY DEF IsSeq
  <1>2. PICK T : t \in Seq(T)
    BY DEF IsSeq
  <1>3. s \in Seq(S \cup T) /\ t \in Seq(S \cup T)
    BY <1>1, <1>2
  <1>4. Len(s) \in Nat /\ Len(t) \in Nat
    BY SeqFacts
  <1> DEFINE u == SubSeq(s, 1, k)
  <1>5. /\ u \in Seq(S \cup T)
        /\ Len(u) = k
        /\ \A i \in 1 .. k : u[i] = s[i]
    BY <1>3, <1>4
  <1> HIDE DEF u
  <1>6. /\ u \o t \in Seq(S \cup T)
        /\ Len(u \o t) = k + Len(t)
        /\ \A i \in 1 .. k + Len(t) : (u \o t)[i] =
               IF i <= k THEN u[i] ELSE t[i - k]
    BY <1>3, <1>5
  <1>7. ASSUME NEW n \in 0 .. k PROVE SubSeq(u \o t, 1, n) = SubSeq(s, 1, n)
    <2>1. \A i \in 1 .. n : (u \o t)[i] = s[i]
      BY <1>4, <1>5, <1>6
    <2> QED
      BY <1>3, <1>4, <1>6, <2>1
  <1> QED
    BY <1>6, <1>7 DEF IsSeq, u

LEMMA KeptFacts ==
    ASSUME NEW p, commitIndex[p] \in Nat, IsSeq(log[p]),
           commitIndex[p] <= Len(log[p]), NEW m, AppendOK(m), CanAppend(p, m)
    PROVE  KeptLength(log[p], m) \in commitIndex[p] .. Len(log[p])
  <1> DEFINE C == Conflicts(log[p], m)
  <1>1. Len(log[p]) \in Nat /\ Len(m.entries) \in Nat /\ m.prevLogIndex \in Nat
    BY SeqFacts DEF AppendOK
  <1>2. \A i \in C : /\ i \in Nat
                     /\ m.prevLogIndex + i <= Len(log[p])
                     /\ m.prevLogIndex + i > commitIndex[p]
    BY SeqFacts DEF Conflicts, CanAppend, AppendOK
  <1>3. KeptLength(log[p], m) =
            IF C = {} THEN Len(log[p]) ELSE m.prevLogIndex + Min(C) - 1
    BY DEF KeptLength
  <1> HIDE DEF C
  <1>4. CASE C = {}
    BY <1>1, <1>3, <1>4
  <1>5. CASE C # {}
    <2>1. Min(C) \in C
      BY <1>2, <1>5, MinExists
    <2> DEFINE i == Min(C)
    <2>2. KeptLength(log[p], m) = m.prevLogIndex + i - 1
      BY <1>3, <1>5
    <2> HIDE DEF i
    <2>3. /\ i \in Nat
          /\ m.prevLogIndex + i <= Len(log[p])
          /\ m.prevLogIndex + i > commitIndex[p]
      BY <1>2, <2>1 DEF i
    <2> QED
      BY <1>1, <2>2, <2>3
  <1> QED
    BY <1>4, <1>5

LEMMA AppendedFacts ==
    ASSUME NEW p, commitIndex[p] \in Nat, IsSeq(log[p]),
           commitIndex[p] <= Len(log[p]), NEW m, AppendOK(m), CanAppend(p, m)
    PROVE  LET lg == AppendedLog(log[p], m)
           IN  /\ IsSeq(lg)
               /\ FollowerCommit(p, m, lg) \in commitIndex[p] .. Len(lg)
               /\ SubSeq(lg, 1, commitIndex[p]) = SubSeq(log[p], 1, commitIndex[p])
  <1> DEFINE K    == KeptLength(log[p], m)
             rest == SubSeq(m.entries, K - m.prevLogIndex + 1, Len(m.entries))
             new  == NewEntries(log[p], m)
             lg   == AppendedLog(log[p], m)
  <1>1. K \in commitIndex[p] .. Len(log[p])
    BY KeptFacts
  <1>2. Len(log[p]) \in Nat /\ Len(m.entries) \in Nat /\ m.prevLogIndex \in Nat
    BY SeqFacts DEF AppendOK
  <1>3. new = [i \in DOMAIN rest |-> [term |-> rest[i].term, hash |-> rest[i].hash]]
    BY DEF NewEntries
  <1>4. lg = SubSeq(log[p], 1, K) \o new
    BY DEF AppendedLog
  <1>5. PICK n \in Nat : DOMAIN rest = 1 .. n
    <2> HIDE DEF K
    <2>1. K \in Nat
      BY <1>1, <1>2
    <2> QED
      BY <1>2, <2>1
  <1>6. IsSeq(new) /\ Len(new) \in Nat
    <2> HIDE DEF rest, new
    <2>1. new = [i \in 1 .. n |-> new[i]]
      BY <1>3, <1>5
    <2> QED
      BY <2>1, FunctionIsSeq
  <1> HIDE DEF K, new, lg
  <1>7. /\ IsSeq(lg)
        /\ Len(lg) = K + Len(new)
        /\ SubSeq(lg, 1, commitIndex[p]) = SubSeq(log[p], 1, commitIndex[p])
    <2>1. K \in 0 .. Len(log[p]) /\ commitIndex[p] \in 0 .. K
      BY <1>1, <1>2
    <2>2. /\ IsSeq(SubSeq(log[p], 1, K) \o new)
          /\ Len(SubSeq(log[p], 1, K) \o new) = K + Len(new)
          /\ \A i \in 0 .. K :
                SubSeq(SubSeq(log[p], 1, K) \o new, 1, i) = SubSeq(log[p], 1, i)
      BY <1>6, <2>1, KeepAndAppend
    <2> QED
      BY <1>4, <2>1, <2>2, Zenon
  <1>8. FollowerCommit(p, m, lg) \in commitIndex[p] .. Len(lg)
    BY <1>1, <1>2, <1>6, <1>7 DEF FollowerCommit, MaxOf, MinOf, AppendOK
  <1> QED
    BY <1>7, <1>8 DEF lg
----------------------------------------------------------------------------
(* What the operators on indexes return.                                   *)

\* advance_commit_index moves forward, within the log.
LEMMA AdvancedFacts ==
    ASSUME NEW p, commitIndex[p] \in Nat, NEW Q, NEW term, NEW lg, IsSeq(lg),
           commitIndex[p] <= Len(lg), NEW match
    PROVE  AdvancedCommitIndex(p, Q, term, lg, match) \in commitIndex[p] .. Len(lg)
  <1> DEFINE all == {i \in commitIndex[p] + 1 .. Len(lg) :
                        /\ lg[i].term = term
                        /\ IsMajority({q \in Q : match[q] >= i}, Q)}
  <1>1. Len(lg) \in Nat
    BY SeqFacts
  <1>2. all \in SUBSET (commitIndex[p] + 1 .. Len(lg))
    OBVIOUS
  <1>3. AdvancedCommitIndex(p, Q, term, lg, match) =
            IF all = {} THEN commitIndex[p] ELSE Max(all)
    BY DEF AdvancedCommitIndex
  <1> HIDE DEF all
  <1>4. all # {} => Max(all) \in all
    <2>1. all \in SUBSET (0 .. Len(lg))
      BY <1>1, <1>2
    <2> QED
      BY <1>1, <2>1, MaxExists, Zenon
  <1>5. CASE all = {}
    BY <1>1, <1>3, <1>5
  <1>6. CASE all # {}
    <2>1. AdvancedCommitIndex(p, Q, term, lg, match) \in commitIndex[p] + 1 .. Len(lg)
      BY <1>2, <1>3, <1>4, <1>6, Zenon
    <2> QED
      BY <1>1, <2>1
  <1> QED
    BY <1>5, <1>6

LEMMA MatchingFacts ==
    ASSUME NEW lg, IsSeq(lg), NEW m, AppendOK(m), NEW entries, IsSeq(entries)
    PROVE  MatchingIndexFor(lg, m, entries) \in Nat
  <1> DEFINE J == {j \in DOMAIN entries :
                      HasTermAt(lg, m.prevLogIndex + j, entries[j].term)}
             S == {m.prevLogIndex + i : i \in J}
  <1>1. m.prevLogIndex \in Nat /\ Len(entries) \in Nat
    BY SeqFacts DEF AppendOK
  <1>2. MatchingIndexFor(lg, m, entries) =
            IF S # {} THEN Max(S)
            ELSE IF HasTermAt(lg, m.prevLogIndex, m.prevLogTerm)
                 THEN m.prevLogIndex ELSE 0
    BY DEF MatchingIndexFor
  <1>3. J \subseteq 1 .. Len(entries)
    BY SeqFacts
  <1> HIDE DEF J
  <1>4. PICK n \in Nat : n = m.prevLogIndex + Len(entries)
    BY <1>1
  <1>5. S \in SUBSET (0 .. n)
    BY <1>1, <1>3, <1>4
  <1> HIDE DEF S
  <1>6. CASE S = {}
    BY <1>1, <1>2, <1>6
  <1>7. CASE S # {}
    <2>1. MatchingIndexFor(lg, m, entries) = Max(S)
      BY <1>2, <1>7
    <2>2. Max(S) \in 0 .. n
      BY <1>5, <1>7, MaxExists, Zenon
    <2> QED
      BY <2>1, <2>2
  <1> QED
    BY <1>6, <1>7
----------------------------------------------------------------------------
(* Steps that keep logs, commit indexes and match indexes.                 *)

CommitKept ==
    \A p \in Peers :
        /\ commitIndex'[p] >= commitIndex[p]
        /\ SubSeq(log'[p], 1, commitIndex[p]) = SubSeq(log[p], 1, commitIndex[p])

\* The parts of LogInv that concern neither logs nor commits.
SideTypes ==
    /\ known \in [Peers -> SUBSET Peers]
    /\ participants \in [Peers -> SUBSET Peers]
    /\ matchIndexes \in [Peers -> [Peers -> Nat]]

NewMessagesOK == \A m \in msgs' \ msgs : LogMessageOK(m)

LEMMA LogStep ==
    ASSUME LogInv, NEW p \in Peers, NEW lg, IsSeq(lg),
           NEW c \in commitIndex[p] .. Len(lg),
           SubSeq(lg, 1, commitIndex[p]) = SubSeq(log[p], 1, commitIndex[p]),
           log' = [log EXCEPT ![p] = lg],
           commitIndex' = [commitIndex EXCEPT ![p] = c],
           SideTypes', NewMessagesOK
    PROVE  LogInv' /\ CommitKept
  <1> USE DEF LogInv
  <1>1. commitIndex[p] \in Nat /\ Len(lg) \in Nat
    BY SeqFacts
  <1>2. commitIndex' \in [Peers -> Nat]
    BY <1>1
  <1>3. /\ log' = [q \in Peers |-> log'[q]]
        /\ log'[p] = lg
        /\ commitIndex'[p] = c
        /\ \A q \in Peers \ {p} : /\ log'[q] = log[q]
                                  /\ commitIndex'[q] = commitIndex[q]
    BY Zenon
  <1>4. \A q \in Peers : IsSeq(log'[q]) /\ commitIndex'[q] <= Len(log'[q])
    BY <1>1, <1>3
  <1>5. \A m \in msgs' : LogMessageOK(m)
    BY DEF NewMessagesOK
  <1>6. CommitKept
    BY <1>1, <1>3 DEF CommitKept
  <1>7. \A q \in Peers : IsSeq(log[q])'
    BY <1>4 DEF IsSeq
  <1>8. \A m \in msgs' : LogMessageOK(m)'
    BY <1>5, Zenon DEF LogMessageOK, AppendOK, IsSeq
  <1> QED
    BY <1>2, <1>3, <1>4, <1>6, <1>7, <1>8 DEF SideTypes

LEMMA QuietLogStep ==
    ASSUME LogInv, UNCHANGED <<log, commitIndex>>, SideTypes', NewMessagesOK
    PROVE  LogInv' /\ CommitKept
  <1> USE DEF LogInv
  <1>1. \A q \in Peers : IsSeq(log[q])'
    BY DEF IsSeq
  <1>2. \A m \in msgs' : LogMessageOK(m)'
    BY Zenon DEF LogMessageOK, AppendOK, IsSeq, NewMessagesOK
  <1>3. CommitKept
    BY DEF CommitKept
  <1> QED
    BY <1>1, <1>2, <1>3 DEF SideTypes

LEMMA StutterLog ==
    ASSUME LogInv, UNCHANGED vars
    PROVE  LogInv'
  <1>1. SideTypes' /\ NewMessagesOK
    BY DEF LogInv, SideTypes, NewMessagesOK, vars, viewVars, logVars
  <1> QED
    BY <1>1, QuietLogStep DEF vars, logVars
----------------------------------------------------------------------------
(* What the steps send.                                                    *)

LEMMA ExchangeSends ==
    ASSUME NEW taken, NEW M, Exchange(taken, M), \A m \in M : LogMessageOK(m)
    PROVE  NewMessagesOK
  BY DEF Exchange, NewMessagesOK

LEMMA SentOK ==
    ASSUME NEW p, NEW M, \A m \in M : LogMessageOK(m)
    PROVE  \A m \in SendTo(p, M) : LogMessageOK(m)
  BY DEF SendTo

LEMMA AppendEntriesForOK ==
    ASSUME NEW p, NEW q, NEW term, NEW lg, IsSeq(lg), NEW match,
           match[q] \in Nat, NEW s, commitIndex[p] \in Nat,
           NEW m \in AppendEntriesFor(p, q, term, lg, match, s)
    PROVE  LogMessageOK(m)
  <1> DEFINE prev  == MinOf(match[q], Len(lg))
             last  == MinOf(prev + MaxAppendEntries, Len(lg))
             batch == SubSeq(lg, prev + 1, last)
             file(e) == IF IsNoop(e) THEN 0 ELSE FindBlock(s, e.hash).index
             ents  == [i \in DOMAIN batch |->
                          [term |-> batch[i].term, hash |-> batch[i].hash,
                           index |-> file(batch[i])]]
  <1>1. /\ m.type = "AppendEntries"
        /\ m.prevLogIndex = prev
        /\ m.entries = ents
        /\ m.leaderCommit = commitIndex[p]
    <2>1. m = [type |-> "AppendEntries", from |-> p, to |-> q, term |-> term,
               prevLogIndex |-> prev, prevLogTerm |-> TermAt(lg, prev),
               entries |-> ents, leaderCommit |-> commitIndex[p]]
      BY Zenon DEF AppendEntriesFor
    <2> HIDE DEF prev, ents
    <2> QED
      BY <2>1
  <1>2. Len(lg) \in Nat
    BY SeqFacts
  <1>3. prev \in Nat
    BY <1>2 DEF MinOf
  <1> HIDE DEF prev
  <1>4. last \in Nat
    BY <1>2, <1>3, RaftAssumption DEF MinOf
  <1> HIDE DEF last
  <1>5. PICK n \in Nat : DOMAIN batch = 1 .. n
    <2>1. DOMAIN batch = 1 .. last - prev
      BY <1>3, <1>4
    <2>2. CASE last >= prev
      <3>1. last - prev \in Nat
        BY <1>3, <1>4, <2>2
      <3> QED
        BY <2>1, <3>1
    <2>3. CASE last < prev
      <3>1. 1 .. last - prev = 1 .. 0
        BY <1>3, <1>4, <2>3
      <3> QED
        BY <2>1, <3>1, Zenon
    <2> QED
      BY <1>3, <1>4, <2>2, <2>3
  <1> HIDE DEF batch, file
  <1>6. IsSeq(ents)
    <2>1. ents = [i \in 1 .. n |-> ents[i]]
      BY <1>5
    <2> HIDE DEF ents
    <2> QED
      BY <2>1, FunctionIsSeq
  <1> HIDE DEF ents
  <1> QED
    BY <1>1, <1>3, <1>6 DEF LogMessageOK, AppendOK

LEMMA AppendEntriesOK ==
    ASSUME NEW p, NEW Q, NEW term, NEW lg, IsSeq(lg), NEW match,
           \A q \in Q : match[q] \in Nat, NEW s, commitIndex[p] \in Nat
    PROVE  \A m \in AppendEntriesForFollowers(p, Q, term, lg, match, s) :
               LogMessageOK(m)
  <1> SUFFICES ASSUME NEW m \in AppendEntriesForFollowers(p, Q, term, lg, match, s)
               PROVE  LogMessageOK(m)
    OBVIOUS
  <1>1. PICK q \in Q \ {p} : m \in AppendEntriesFor(p, q, term, lg, match, s)
    BY DEF AppendEntriesForFollowers, SendTo
  <1> QED
    BY <1>1, AppendEntriesForOK

LEMMA AnswerOK ==
    ASSUME NEW p, NEW m, NEW term, NEW success, NEW match \in Nat
    PROVE  \A r \in AppendEntriesResponse(p, m, term, success, match) : LogMessageOK(r)
  BY DEF AppendEntriesResponse, SendTo, LogMessageOK
----------------------------------------------------------------------------
(* The actions.                                                            *)

LEMMA AppendAsLeaderLog ==
    ASSUME LogInv, NEW p \in Peers, NEW Q \in SUBSET Peers, NEW term, NEW hash,
           NEW match \in [Peers -> Nat], NEW s, NEW taken, NEW M,
           \A m \in M : LogMessageOK(m),
           AppendAsLeader(p, Q, term, hash, match, s, taken, M),
           known' \in [Peers -> SUBSET Peers],
           participants' \in [Peers -> SUBSET Peers]
    PROVE  LogInv' /\ CommitKept
  <1> DEFINE e   == [term |-> term, hash |-> hash]
             lg  == Append(log[p], e)
             own == [match EXCEPT ![p] = Len(lg)]
             AE  == AppendEntriesForFollowers(p, Q, term, lg, own, s)
             c   == AdvancedCommitIndex(p, Q, term, lg, own)
  <1>1. /\ IsSeq(log[p])
        /\ commitIndex[p] \in Nat
        /\ commitIndex[p] <= Len(log[p])
    BY DEF LogInv
  <1>2. /\ log' = [log EXCEPT ![p] = lg]
        /\ matchIndexes' = [matchIndexes EXCEPT ![p] = own]
        /\ Exchange(taken, M \cup AE)
        /\ commitIndex' = [commitIndex EXCEPT ![p] = c]
    BY DEF AppendAsLeader, AdvanceCommitIndex
  <1> HIDE DEF e
  <1>3. Len(log[p]) \in Nat
    BY <1>1, SeqFacts
  <1>4. /\ IsSeq(lg)
        /\ Len(lg) = Len(log[p]) + 1
        /\ \A n \in 0 .. Len(log[p]) : SubSeq(lg, 1, n) = SubSeq(log[p], 1, n)
    BY <1>1, AppendFacts
  <1> HIDE DEF lg
  <1>5. /\ commitIndex[p] <= Len(lg)
        /\ SubSeq(lg, 1, commitIndex[p]) = SubSeq(log[p], 1, commitIndex[p])
    BY <1>1, <1>3, <1>4
  <1>6. own \in [Peers -> Nat]
    BY <1>3, <1>4
  <1> HIDE DEF own
  <1>7. c \in commitIndex[p] .. Len(lg)
    BY <1>1, <1>4, <1>5, AdvancedFacts, Zenon
  <1>8. \A m \in AE : LogMessageOK(m)
    BY <1>1, <1>4, <1>6, AppendEntriesOK, Zenon
  <1> HIDE DEF AE, c
  <1>9. NewMessagesOK
    <2>1. \A m \in M \cup AE : LogMessageOK(m)
      BY <1>8
    <2> QED
      BY <1>2, <2>1, ExchangeSends
  <1>10. SideTypes'
    BY <1>2, <1>6 DEF SideTypes, LogInv
  <1> QED
    BY <1>2, <1>4, <1>5, <1>7, <1>9, <1>10, LogStep, Zenon

LEMMA TickLog ==
    ASSUME LogInv, NEW p \in Peers, Tick(p)
    PROVE  LogInv' /\ CommitKept
  <1> USE DEF LogInv
  <1>1. TickParticipants(p) \in SUBSET Peers
    BY DEF TickParticipants
  <1>2. RetainedMatch(p) \in [Peers -> Nat]
    BY DEF RetainedMatch
  <1>3. IsSeq(log[p]) /\ Len(log[p]) \in Nat /\ commitIndex[p] \in Nat
    BY SeqFacts
  <1>4. CASE UpdatePeers(p)
    <2>1. SideTypes'
      BY <1>4, RaftAssumption DEF UpdatePeers, SideTypes, logVars
    <2>2. NewMessagesOK
      BY <1>4 DEF UpdatePeers, NewMessagesOK
    <2> QED
      BY <1>4, <2>1, <2>2, QuietLogStep, Zenon DEF UpdatePeers, logVars
  <1>5. CASE IdleTick(p)
    <2>1. SideTypes'
      BY <1>1, <1>2, <1>5 DEF IdleTick, UpdateParticipants, SideTypes
    <2>2. NewMessagesOK
      BY <1>5 DEF IdleTick, NewMessagesOK
    <2> QED
      BY <1>5, <2>1, <2>2, QuietLogStep, Zenon DEF IdleTick
  <1>6. CASE Heartbeat(p)
    <2> DEFINE AE == AppendEntriesForFollowers(p, TickParticipants(p),
                         currentTerm[p], log[p], RetainedMatch(p), store[p])
    <2>1. SideTypes'
      BY <1>1, <1>2, <1>6, Zenon DEF Heartbeat, UpdateParticipants, SideTypes
    <2>2. \A m \in AE : LogMessageOK(m)
      BY <1>1, <1>2, <1>3, AppendEntriesOK, Zenon
    <2>3. Exchange({}, AE)
      BY <1>6 DEF Heartbeat
    <2> HIDE DEF AE
    <2>4. NewMessagesOK
      BY <2>2, <2>3, ExchangeSends, Zenon
    <2> QED
      BY <1>6, <2>1, <2>4, QuietLogStep, Zenon DEF Heartbeat
  <1>7. CASE StartElection(p)
    <2> DEFINE Q    == TickParticipants(p)
               term == currentTerm[p] + 1
               ask  == [type : {"RequestVote"}, from : {p}, to : known[p],
                        term : {term}, lastLogIndex : {Len(log[p])},
                        lastLogTerm : {LastLogTerm(log[p])}]
    <2>1. \A m \in ask : LogMessageOK(m)
      BY DEF LogMessageOK
    <2>2. /\ known' \in [Peers -> SUBSET Peers]
          /\ participants' \in [Peers -> SUBSET Peers]
      BY <1>1, <1>7 DEF StartElection, UpdateParticipants
    <2>3. CASE AppendAsLeader(p, Q, term, EmptyHash, NewLeaderMatch(p),
                              store[p], {}, ask)
      <3>1. NewLeaderMatch(p) \in [Peers -> Nat]
        BY <1>3 DEF NewLeaderMatch
      <3> HIDE DEF Q, term, ask
      <3>2. Q \in SUBSET Peers
        BY <1>1 DEF Q
      <3> QED
        BY <2>1, <2>2, <2>3, <3>1, <3>2, AppendAsLeaderLog, Zenon
    <2>4. CASE /\ matchIndexes' = [matchIndexes EXCEPT ![p] = RetainedMatch(p)]
               /\ Exchange({}, ask)
               /\ UNCHANGED <<log, commitIndex, store>>
      <3> HIDE DEF ask
      <3>1. NewMessagesOK
        BY <2>1, <2>4, ExchangeSends, Zenon
      <3>2. SideTypes'
        BY <1>2, <2>2, <2>4, Zenon DEF SideTypes
      <3> QED
        BY <2>4, <3>1, <3>2, QuietLogStep
    <2> QED
      BY <1>7, <2>3, <2>4, Zenon DEF StartElection
  <1> QED
    BY <1>4, <1>5, <1>6, <1>7, Zenon DEF Tick

LEMMA VoteLog ==
    ASSUME LogInv, NEW p \in Peers, NEW m \in msgs,
           \/ HandleRequestVote(p, m)
           \/ HandleNewerTerm(p, m)
           \/ HandleVote(p, m)
           \/ IgnoreAnswer(p, m)
    PROVE  LogInv' /\ CommitKept
  <1> USE DEF LogInv
  <1>1. ASSUME UNCHANGED <<viewVars, logVars>>, NewMessagesOK
        PROVE  LogInv' /\ CommitKept
    <2>1. SideTypes'
      BY <1>1 DEF SideTypes, viewVars, logVars
    <2> QED
      BY <1>1, <2>1, QuietLogStep DEF logVars
  <1>2. Exchange({m}, {}) => NewMessagesOK
    BY ExchangeSends
  <1>3. CASE HandleRequestVote(p, m)
    <2> DEFINE reply == [type |-> "RequestVoteResponse", from |-> p, to |-> m.from,
                         term |-> MaxOf(currentTerm[p], m.term),
                         granted |-> GrantsVote(p, m)]
    <2>1. LogMessageOK(reply)
      BY DEF LogMessageOK
    <2>2. Exchange({m}, SendTo(p, {reply}))
      BY <1>3 DEF HandleRequestVote
    <2> HIDE DEF reply
    <2>3. NewMessagesOK
      BY <2>1, <2>2, SentOK, ExchangeSends, Zenon
    <2> QED
      BY <1>1, <1>3, <2>3, Zenon DEF HandleRequestVote
  <1>4. CASE HandleNewerTerm(p, m) \/ IgnoreAnswer(p, m)
    BY <1>1, <1>2, <1>4, Zenon DEF HandleNewerTerm, IgnoreAnswer
  <1>5. CASE HandleVote(p, m)
    <2>1. CASE AppendAsLeader(p, participants[p], currentTerm[p], EmptyHash,
                              NewLeaderMatch(p), store[p], {m}, {})
      <3>1. NewLeaderMatch(p) \in [Peers -> Nat]
        BY SeqFacts DEF NewLeaderMatch
      <3>2. /\ known' \in [Peers -> SUBSET Peers]
            /\ participants' \in [Peers -> SUBSET Peers]
        BY <1>5 DEF HandleVote, viewVars
      <3>3. participants[p] \in SUBSET Peers /\ \A n \in {} : LogMessageOK(n)
        OBVIOUS
      <3> DEFINE none == {}
      <3>4. /\ AppendAsLeader(p, participants[p], currentTerm[p], EmptyHash,
                              NewLeaderMatch(p), store[p], {m}, none)
            /\ \A n \in none : LogMessageOK(n)
        BY <2>1, <3>3
      <3> HIDE DEF none
      <3> QED
        BY <3>1, <3>2, <3>3, <3>4, AppendAsLeaderLog, Zenon
    <2>2. CASE Exchange({m}, {}) /\ UNCHANGED logVars
      BY <1>1, <1>2, <1>5, <2>2, Zenon DEF HandleVote
    <2> QED
      BY <1>5, <2>1, <2>2, Zenon DEF HandleVote
  <1> QED
    BY <1>3, <1>4, <1>5, Zenon

LEMMA RejectLog ==
    ASSUME LogInv, NEW p \in Peers, NEW m \in msgs,
           RejectLeader(p, m) \/ RejectEntries(p, m)
    PROVE  LogInv' /\ CommitKept
  <1> USE DEF LogInv
  <1>1. AppendOK(m) /\ IsSeq(log[p]) /\ IsSeq(m.entries) /\ IsSeq(<< >>)
    <2>1. m.type = "AppendEntries"
      BY Zenon DEF RejectLeader, RejectEntries
    <2>2. << >> \in Seq({})
      OBVIOUS
    <2> QED
      BY <2>1, <2>2, Zenon DEF LogMessageOK, AppendOK, IsSeq
  <1>2. /\ MatchingIndexFor(log[p], m, << >>) \in Nat
        /\ MatchingIndexFor(log[p], m, m.entries) \in Nat
    BY <1>1, MatchingFacts
  <1>3. NewMessagesOK
    <2>1. \A term : \A match \in Nat :
             Exchange({m}, AppendEntriesResponse(p, m, term, FALSE, match))
                 => NewMessagesOK
      BY AnswerOK, ExchangeSends, Zenon
    <2> QED
      BY <1>2, <2>1, Zenon DEF RejectLeader, RejectEntries
  <1>4. UNCHANGED <<viewVars, logVars>>
    BY Zenon DEF RejectLeader, RejectEntries
  <1>5. SideTypes'
    BY <1>4 DEF SideTypes, viewVars, logVars
  <1> QED
    BY <1>3, <1>4, <1>5, QuietLogStep DEF logVars

LEMMA AcceptEntriesLog ==
    ASSUME LogInv, NEW p \in Peers, NEW m \in msgs, AcceptEntries(p, m)
    PROVE  LogInv' /\ CommitKept
  <1> DEFINE lg == AppendedLog(log[p], m)
             c  == FollowerCommit(p, m, lg)
             n  == m.prevLogIndex + Len(m.entries)
  <1>1. /\ AppendOK(m)
        /\ IsSeq(log[p])
        /\ commitIndex[p] \in Nat
        /\ commitIndex[p] <= Len(log[p])
    BY DEF AcceptEntries, LogInv, LogMessageOK
  <1>2. /\ CanAppend(p, m)
        /\ log' = [log EXCEPT ![p] = lg]
        /\ commitIndex' = [commitIndex EXCEPT ![p] = c]
        /\ Exchange({m}, AppendEntriesResponse(p, m, m.term, TRUE, n))
        /\ UNCHANGED <<viewVars, matchIndexes>>
    BY Zenon DEF AcceptEntries
  <1>3. /\ IsSeq(lg)
        /\ c \in commitIndex[p] .. Len(lg)
        /\ SubSeq(lg, 1, commitIndex[p]) = SubSeq(log[p], 1, commitIndex[p])
    BY <1>1, <1>2, AppendedFacts
  <1> HIDE DEF lg, c
  <1>4. n \in Nat
    BY <1>1, SeqFacts DEF AppendOK
  <1> HIDE DEF n
  <1>5. NewMessagesOK
    BY <1>2, <1>4, AnswerOK, ExchangeSends, Zenon
  <1>6. SideTypes'
    BY <1>2 DEF SideTypes, LogInv, viewVars
  <1> QED
    BY <1>2, <1>3, <1>5, <1>6, LogStep, Zenon

\* advance_commit_index on an unchanged log.
LEMMA AdvanceLog ==
    ASSUME LogInv, NEW p \in Peers, NEW Q, NEW term, NEW match,
           commitIndex' = [commitIndex EXCEPT ![p] =
               AdvancedCommitIndex(p, Q, term, log[p], match)],
           log' = log, SideTypes', NewMessagesOK
    PROVE  LogInv' /\ CommitKept
  <1>1. /\ IsSeq(log[p])
        /\ commitIndex[p] \in Nat
        /\ commitIndex[p] <= Len(log[p])
        /\ log' = [log EXCEPT ![p] = log[p]]
    BY DEF LogInv
  <1>2. AdvancedCommitIndex(p, Q, term, log[p], match) \in commitIndex[p] .. Len(log[p])
    BY <1>1, AdvancedFacts
  <1> QED
    BY <1>1, <1>2, LogStep, Zenon

LEMMA AnswerLog ==
    ASSUME LogInv, NEW p \in Peers, NEW m \in msgs,
           HandleAppendEntriesSuccess(p, m) \/ HandleAppendEntriesFailure(p, m)
    PROVE  LogInv' /\ CommitKept
  <1> USE DEF LogInv
  <1>1. /\ m.matchIndex \in Nat
        /\ m.from \in Peers
        /\ Len(log[p]) \in Nat
        /\ matchIndexes[p] \in [Peers -> Nat]
    BY SeqFacts DEF HandleAppendEntriesSuccess, HandleAppendEntriesFailure,
                    CountsAnswer, LogMessageOK
  <1>2. CASE HandleAppendEntriesSuccess(p, m)
    <2> DEFINE match == [matchIndexes[p] EXCEPT ![m.from] = MaxOf(@, m.matchIndex)]
    <2>1. match \in [Peers -> Nat]
      BY <1>1 DEF MaxOf
    <2>2. /\ matchIndexes' = [matchIndexes EXCEPT ![p] = match]
          /\ commitIndex' = [commitIndex EXCEPT ![p] =
                AdvancedCommitIndex(p, participants[p], currentTerm[p], log[p], match)]
          /\ Exchange({m}, {})
          /\ UNCHANGED <<viewVars, log>>
      BY <1>2 DEF HandleAppendEntriesSuccess, AdvanceCommitIndex
    <2> HIDE DEF match
    <2>3. SideTypes'
      BY <2>1, <2>2 DEF SideTypes, viewVars
    <2>4. NewMessagesOK
      BY <2>2, ExchangeSends
    <2> QED
      BY <2>2, <2>3, <2>4, AdvanceLog, Zenon
  <1>3. CASE HandleAppendEntriesFailure(p, m)
    <2> DEFINE held  == MinOf(m.matchIndex, Len(log[p]))
               match == [matchIndexes[p] EXCEPT ![m.from] = held]
               AE    == AppendEntriesFor(p, m.from, currentTerm[p], log[p], match,
                                         store[p])
               again == IF held >= Len(log[p]) THEN {} ELSE AE
    <2>1. held \in Nat
      BY <1>1 DEF MinOf
    <2>2. /\ matchIndexes' = [matchIndexes EXCEPT ![p] = match]
          /\ Exchange({m}, SendTo(p, again))
          /\ UNCHANGED <<viewVars, log, commitIndex>>
      BY <1>3 DEF HandleAppendEntriesFailure
    <2> HIDE DEF held
    <2>3. match \in [Peers -> Nat] /\ match[m.from] \in Nat
      BY <1>1, <2>1
    <2> HIDE DEF match
    <2>4. \A n \in AE : LogMessageOK(n)
      BY <2>3, AppendEntriesForOK, Zenon
    <2> HIDE DEF AE
    <2>5. \A n \in again : LogMessageOK(n)
      BY <2>4
    <2> HIDE DEF again
    <2>6. NewMessagesOK
      BY <2>2, <2>5, SentOK, ExchangeSends, Zenon
    <2>7. SideTypes'
      BY <2>2, <2>3, Zenon DEF SideTypes, viewVars
    <2> QED
      BY <2>2, <2>6, <2>7, QuietLogStep
  <1> QED
    BY <1>2, <1>3

LEMMA ClientTransactionLog ==
    ASSUME LogInv, NEW p \in Peers, NEW tx, ClientTransaction(p, tx)
    PROVE  LogInv' /\ CommitKept
  <1> DEFINE hash == NewBlock(store[p], store[p].mempool \cup {tx}).hash
             s    == StageClientTransaction(store[p], tx)
             none == {}
  <1> USE DEF LogInv
  <1>1. /\ known' \in [Peers -> SUBSET Peers]
        /\ participants' \in [Peers -> SUBSET Peers]
    BY DEF ClientTransaction, viewVars
  <1>2. CASE AppendAsLeader(p, participants[p], currentTerm[p], hash,
                            matchIndexes[p], s, none, none)
    <2>1. /\ participants[p] \in SUBSET Peers
          /\ matchIndexes[p] \in [Peers -> Nat]
          /\ \A n \in none : LogMessageOK(n)
      OBVIOUS
    <2> HIDE DEF hash, s, none
    <2> QED
      BY <1>1, <1>2, <2>1, AppendAsLeaderLog, Zenon
  <1>3. CASE UNCHANGED <<log, commitIndex, matchIndexes, msgs>>
    <2>1. SideTypes' /\ NewMessagesOK
      BY <1>1, <1>3 DEF SideTypes, NewMessagesOK
    <2> QED
      BY <1>3, <2>1, QuietLogStep
  <1> QED
    BY <1>2, <1>3, Zenon DEF ClientTransaction

LEMMA NextLog ==
    ASSUME LogInv, Next
    PROVE  LogInv' /\ CommitKept
  <1>1. ASSUME NEW p \in Peers, NEW m \in msgs, Receive(p, m)
        PROVE  LogInv' /\ CommitKept
    BY <1>1, VoteLog, RejectLog, AcceptEntriesLog, AnswerLog DEF Receive
  <1> QED
    BY <1>1, TickLog, ClientTransactionLog DEF Next
----------------------------------------------------------------------------
(* Crashes.                                                                *)

LEMMA RebootTypes ==
    ASSUME LogInv, NEW p \in Peers, Reboot(p)
    PROVE  SideTypes'
  <1>1. [q \in Peers |-> 0] \in [Peers -> Nat]
    OBVIOUS
  <1> QED
    BY <1>1 DEF LogInv, SideTypes, Reboot

LEMMA RestartLog ==
    ASSUME LogInv, NEW p \in Peers, Restart(p)
    PROVE  LogInv' /\ CommitKept
  <1>1. SideTypes'
    BY RebootTypes DEF Restart
  <1>2. NewMessagesOK
    BY DEF Restart, NewMessagesOK
  <1> QED
    BY <1>1, <1>2, QuietLogStep DEF Restart

LEMMA CrashInAppendLog ==
    ASSUME LogInv, NEW p \in Peers, NEW m \in msgs, CrashInAppend(p, m)
    PROVE  LogInv' /\ CommitKept
  <1> DEFINE lg == AppendedLog(log[p], m)
             c  == FollowerCommit(p, m, lg)
  <1>1. /\ AppendOK(m)
        /\ IsSeq(log[p])
        /\ commitIndex[p] \in Nat
        /\ commitIndex[p] <= Len(log[p])
    BY DEF CrashInAppend, LogInv, LogMessageOK
  <1>2. /\ CanAppend(p, m)
        /\ Reboot(p)
        /\ log' = [log EXCEPT ![p] = lg]
        /\ commitIndex' = [commitIndex EXCEPT ![p] = c]
        /\ Exchange({m}, {})
    BY DEF CrashInAppend, CrashInEffects
  <1>3. /\ IsSeq(lg)
        /\ c \in commitIndex[p] .. Len(lg)
        /\ SubSeq(lg, 1, commitIndex[p]) = SubSeq(log[p], 1, commitIndex[p])
    BY <1>1, <1>2, AppendedFacts
  <1> HIDE DEF lg, c
  <1>4. NewMessagesOK
    BY <1>2, ExchangeSends
  <1> QED
    BY <1>2, <1>3, <1>4, RebootTypes, LogStep, Zenon

LEMMA CrashInCommitLog ==
    ASSUME LogInv, NEW p \in Peers, NEW m \in msgs, CrashInCommit(p, m)
    PROVE  LogInv' /\ CommitKept
  <1> DEFINE match == [matchIndexes[p] EXCEPT ![m.from] = MaxOf(@, m.matchIndex)]
  <1>1. /\ Reboot(p)
        /\ log' = [log EXCEPT ![p] = log[p]]
        /\ commitIndex' = [commitIndex EXCEPT ![p] =
              AdvancedCommitIndex(p, participants[p], currentTerm[p], log[p], match)]
        /\ Exchange({m}, {})
    BY DEF CrashInCommit, CrashInEffects
  <1> HIDE DEF match
  <1>2. log' = log
    BY <1>1 DEF LogInv
  <1>3. NewMessagesOK
    BY <1>1, ExchangeSends
  <1> QED
    BY <1>1, <1>2, <1>3, RebootTypes, AdvanceLog, Zenon
----------------------------------------------------------------------------
(* The theorems.                                                           *)

LEMMA InitLog ==
    Init => LogInv
  <1> SUFFICES ASSUME Init PROVE LogInv
    OBVIOUS
  <1>1. known \in [Peers -> SUBSET Peers]
    BY RaftAssumption DEF Init
  <1>2. IsSeq(<< >>)
    <2>1. << >> \in Seq({})
      OBVIOUS
    <2> QED
      BY <2>1 DEF IsSeq
  <1> QED
    BY <1>1, <1>2 DEF Init, LogInv

\* advance_commit_index and append_entries never move the commit index
\* beyond the log, whatever the messages say.
THEOREM CommitIndexInLog ==
    Spec => []LogInv
  <1>1. LogInv /\ [Next]_vars => LogInv'
    BY NextLog, StutterLog
  <1> QED
    BY <1>1, InitLog, PTL DEF Spec

\* No handler takes back a commit: append_entries refuses a conflict at or
\* below the commit index, and commit indexes only grow.
THEOREM CommitsStay ==
    Spec => CommittedEntriesStay
  <1>1. LogInv /\ [Next]_vars => [CommitKept]_vars
    BY NextLog, Zenon
  <1>2. LogInv /\ [Next]_vars =>
            [\A p \in Peers :
                /\ commitIndex'[p] >= commitIndex[p]
                /\ SubSeq(log'[p], 1, commitIndex[p]) =
                      SubSeq(log[p], 1, commitIndex[p])]_vars
    BY <1>1, Zenon DEF CommitKept
  <1> QED
    BY <1>2, CommitIndexInLog, PTL DEF Spec, CommittedEntriesStay

\* Neither does a crash, at whatever point of a handler it comes: the log and
\* the commit index are saved together, before the effects run.
THEOREM CommitsSurviveCrashes ==
    RestartSpec => CommitsSurvive
  <1>1. ASSUME LogInv, RestartNext PROVE LogInv' /\ CommitKept
    BY <1>1, NextLog, RestartLog, CrashInAppendLog, CrashInCommitLog DEF RestartNext
  <1>2. LogInv /\ [RestartNext]_restartVars => LogInv'
    BY <1>1, StutterLog DEF restartVars
  <1>3. LogInv /\ [RestartNext]_restartVars =>
            [\A p \in Peers :
                /\ commitIndex'[p] >= commitIndex[p]
                /\ SubSeq(log'[p], 1, commitIndex[p]) =
                      SubSeq(log[p], 1, commitIndex[p])]_restartVars
    BY <1>1, Zenon DEF CommitKept
  <1>4. RestartInit => LogInv
    BY InitLog DEF RestartInit
  <1> QED
    BY <1>2, <1>3, <1>4, PTL DEF RestartSpec, CommitsSurvive
=============================================================================
