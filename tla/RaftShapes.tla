----------------------------- MODULE RaftShapes -----------------------------
(***************************************************************************)
(* The invariants of logs, and what the steps of module Raft do, in the few*)
(* shapes that the proofs reason with.  A link is an entry with its index  *)
(* and the term of the entry before it; a log and an AppendEntries message *)
(* are paths of links.  MatchInv says that links of one index and term are *)
(* the same link in every log and message, and that the leader of that term*)
(* appended it.  The handlers enter the later proofs only through what they*)
(* do to logs (LogShape) and to votes, acknowledgements and commit indexes *)
(* (CommitShape).                                                          *)
(***************************************************************************)
EXTENDS RaftVotes
----------------------------------------------------------------------------
(* What append_entries is given.                                           *)

\* Entries come with any contents: only their order matters here.
IsSeq(s) == \E S : s \in Seq(S)

\* An AppendEntries message append_entries can work with.
AppendOK(m) ==
    /\ m.prevLogIndex \in Nat
    /\ m.leaderCommit \in Nat
    /\ IsSeq(m.entries)
----------------------------------------------------------------------------
(* Logs, commit indexes and match indexes.                                 *)

LogMessageOK(m) ==
    /\ m.type = "AppendEntries" => AppendOK(m)
    /\ m.type = "AppendEntriesResponse" => m.matchIndex \in Nat

\* The commit index of a peer lies within its log.
LogInv ==
    /\ known \in [Peers -> SUBSET Peers]
    /\ participants \in [Peers -> SUBSET Peers]
    /\ log = [p \in Peers |-> log[p]]
    /\ commitIndex \in [Peers -> Nat]
    /\ matchIndexes \in [Peers -> [Peers -> Nat]]
    /\ \A p \in Peers : IsSeq(log[p]) /\ commitIndex[p] <= Len(log[p])
    /\ \A m \in msgs : LogMessageOK(m)
----------------------------------------------------------------------------
(* Links.                                                                  *)

Link(index, term, hash, prev) ==
    [index |-> index, term |-> term, hash |-> hash, prev |-> prev]

LogLinks(lg) ==
    {Link(i, lg[i].term, lg[i].hash, TermAt(lg, i - 1)) : i \in 1 .. Len(lg)}

TermBefore(m, i) == IF i = 1 THEN m.prevLogTerm ELSE m.entries[i - 1].term

MessageLinks(m) ==
    {Link(m.prevLogIndex + i, m.entries[i].term, m.entries[i].hash, TermBefore(m, i)) :
        i \in 1 .. Len(m.entries)}

\* m carries a part of lg.
Piece(m, lg) ==
    /\ m.prevLogIndex \in 0 .. Len(lg)
    /\ m.prevLogTerm = TermAt(lg, m.prevLogIndex)
    /\ Len(m.entries) \in Nat
    /\ m.prevLogIndex + Len(m.entries) <= Len(lg)
    /\ \A i \in 1 .. Len(m.entries) :
          /\ m.entries[i].term = lg[m.prevLogIndex + i].term
          /\ m.entries[i].hash = lg[m.prevLogIndex + i].hash

\* All links, in logs and on their way.
Links ==
    (UNION {LogLinks(log[p]) : p \in Peers})
    \cup (UNION {MessageLinks(m) : m \in {n \in msgs : n.type = "AppendEntries"}})

IsEntry(e) == e = [term |-> e.term, hash |-> e.hash]

EntriesOK(lg) == \A i \in 1 .. Len(lg) : IsEntry(lg[i])

\* A term and an index determine the link: its hash, and the term before it.
Agree(L) == \A x, y \in L : x.index = y.index /\ x.term = y.term => x = y

LinksAgree == Agree(Links)

\* Every term found in a link had a leader.
LinksElected == \A x \in Links : \E q \in Peers : WasElected(q, x.term)

\* A leader holds every link of its term.
LinksHeld ==
    \A p \in Peers : role[p] = "Leader" =>
        \A x \in Links : x.term = currentTerm[p] => x \in LogLinks(log[p])

LinkTypes ==
    /\ \A p \in Peers : EntriesOK(log[p])
    /\ \A x \in Links : x.index \in Nat \ {0} /\ x.term \in Nat

MatchInv == LinkTypes /\ LinksAgree /\ LinksElected /\ LinksHeld

\* Everything known of elections, logs and links.
RaftInv == ElectionInv /\ ForwardInv /\ LogInv /\ MatchInv
----------------------------------------------------------------------------
(* What the steps do with logs.                                            *)

\* Only leaders send entries, and what they send is part of their log.
SentByLeader ==
    \A m \in msgs' \ msgs : m.type = "AppendEntries" =>
        /\ m.from \in Peers
        /\ role'[m.from] = "Leader"
        /\ currentTerm'[m.from] = m.term
        /\ Piece(m, log'[m.from])
        /\ m.leaderCommit = commitIndex[m.from]

NoNewLeader(S) ==
    \A r \in S : role'[r] = "Leader" =>
        role[r] = "Leader" /\ currentTerm'[r] = currentTerm[r]

\* p, which leads a term or begins to, adds an entry of that term.
LeaderAppends(p) ==
    /\ role'[p] = "Leader"
    /\ \E h : log' = [log EXCEPT ![p] = Append(@, [term |-> currentTerm'[p], hash |-> h])]
    /\ \/ role[p] = "Leader" /\ currentTerm[p] = currentTerm'[p]
       \/ ~Leads(p, currentTerm'[p])
    /\ NoNewLeader(Peers \ {p})

\* p takes the entries of m.
FollowerTakes(p, m) ==
    /\ m.type = "AppendEntries"
    /\ CanAppend(p, m)
    /\ m.term >= currentTerm[p]
    /\ currentTerm'[p] = m.term
    /\ role'[p] = "Follower"
    /\ log' = [log EXCEPT ![p] = AppendedLog(@, m)]
    /\ NoNewLeader(Peers)

LogShape ==
    /\ SentByLeader
    /\ \/ log' = log /\ NoNewLeader(Peers)
       \/ \E p \in Peers : LeaderAppends(p)
       \/ \E p \in Peers, m \in msgs : FollowerTakes(p, m)
----------------------------------------------------------------------------
(* What the steps do with votes, acknowledgements and commit indexes.      *)

IsQuorum(M) ==
    \E v \in Views, p \in Peers : M \subseteq v \cup {p} /\ IsMajority(M, v \cup {p})

\* r counts, or may count, the vote of z, and did so before the step.
Counts(z, r) ==
    /\ role[r] = "Candidate"
    /\ currentTerm'[r] = currentTerm[r]
    /\ VotesFor(z, r)

\* z finds the log of the candidate r at least as good as its own.
Approves(z, r) ==
    /\ role[r] = "Candidate"
    /\ currentTerm'[r] = currentTerm[r]
    /\ currentTerm'[z] = currentTerm[r]
    /\ \E m \in msgs : /\ m.type = "RequestVote"
                       /\ m.from = r
                       /\ m.term = currentTerm[r]
                       /\ CandidateLogIsUpToDate(z, m)

LeaderVotes ==
    \A r \in Peers : role'[r] = "Leader" =>
        \/ role[r] = "Leader" /\ currentTerm'[r] = currentTerm[r]
        \/ \E T \in SUBSET Peers : /\ IsQuorum(T)
                                   /\ \A z \in T : z = r \/ Counts(z, r)

CandidateVotes ==
    \A c \in Peers : role'[c] = "Candidate" =>
        /\ \/ role[c] = "Candidate" /\ currentTerm'[c] = currentTerm[c]
           \/ currentTerm'[c] > currentTerm[c]
        /\ \A z \in Peers : VotesFor(z, c)' => z = c \/ Counts(z, c) \/ Approves(z, c)

NewAsks ==
    \A m \in msgs' \ msgs : m.type = "RequestVote" =>
        m.lastLogIndex = Len(log[m.from]) /\ m.lastLogTerm = LastLogTerm(log[m.from])

VoteShapes == LeaderVotes /\ CandidateVotes /\ NewAsks

Ack(m) == m.type = "AppendEntriesResponse" /\ m.success

\* Only a peer that takes entries acknowledges them.
NewAcks ==
    \A m \in msgs' \ msgs : Ack(m) =>
        \E r \in msgs : /\ FollowerTakes(m.from, r)
                        /\ r.from = m.to
                        /\ r.term = m.term
                        /\ m.matchIndex = r.prevLogIndex + Len(r.entries)

\* The leader p takes an answer of q.
Answers(p, q) ==
    \E m \in msgs :
        /\ m.type = "AppendEntriesResponse"
        /\ m.from = q
        /\ m.to = p
        /\ m.term = currentTerm[p]
        /\ IF m.success THEN matchIndexes'[p][q] = m.matchIndex
           ELSE matchIndexes'[p][q] = MinOf(m.matchIndex, Len(log[p]))

MatchMoves ==
    \A p, q \in Peers : role'[p] = "Leader" =>
        \/ matchIndexes'[p][q] = 0
        \/ q = p /\ matchIndexes'[p][q] = Len(log'[p])
        \/ role[p] = "Leader" /\ matchIndexes'[p][q] = matchIndexes[p][q]
        \/ role[p] = "Leader" /\ Answers(p, q)

\* The leader p commits an entry of its term that a majority holds.
LeaderCommits(p) ==
    LET c == commitIndex'[p]
    IN  /\ role'[p] = "Leader"
        /\ c \in 1 .. Len(log'[p])
        /\ log'[p][c].term = currentTerm'[p]
        /\ \E v \in Views :
              IsMajority({q \in v \cup {p} : matchIndexes'[p][q] >= c}, v \cup {p})

CommitMoves ==
    \A p \in Peers :
        \/ commitIndex'[p] = commitIndex[p]
        \/ LeaderCommits(p)
        \/ \E m \in msgs : /\ FollowerTakes(p, m)
                           /\ commitIndex'[p] = FollowerCommit(p, m, log'[p])

CommitShape == VoteShapes /\ NewAcks /\ MatchMoves /\ CommitMoves
=============================================================================
