----------------------------- MODULE RaftVotes ------------------------------
(***************************************************************************)
(* The inductive invariant of elections in module Raft.  The peers keep no *)
(* history: a voter that has moved to a later term no longer shows whom it *)
(* voted for.  ElectionInv therefore carries what the votes prove to       *)
(* candidates and leaders: who may still count a vote.  The same majorities*)
(* tell of leaders of the past: the majority that elected one stays lost to*)
(* every other candidate of its term (WasElected).                         *)
(***************************************************************************)
EXTENDS RaftState

\* Any two majorities, of whatever views two peers have, have a peer in common.
MajoritiesMeet ==
    \A v, w \in Views : \A p, q \in Peers :
        \A S \in SUBSET (v \cup {p}), T \in SUBSET (w \cup {q}) :
            IsMajority(S, v \cup {p}) /\ IsMajority(T, w \cup {q})
                => S \cap T # {}
----------------------------------------------------------------------------
(* The inductive invariant of elections.                                   *)

\* q has voted for p in term t, or will not vote in t any more.
Voted(q, p, t) ==
    \/ currentTerm[q] > t
    \/ currentTerm[q] = t /\ votedFor[q] = p

Grant(m) == m.type = "RequestVoteResponse" /\ m.granted

\* A candidate p has the vote of q, or it is on its way.
VotesFor(q, p) ==
    \/ q \in votesReceived[p]
    \/ \E m \in msgs : /\ Grant(m)
                       /\ m.from = q
                       /\ m.to = p
                       /\ m.term = currentTerm[p]

ElectionTypes ==
    /\ known \in [Peers -> SUBSET Peers]
    /\ participants \in [Peers -> SUBSET Peers]
    /\ currentTerm \in [Peers -> Nat]
    /\ votedFor \in [Peers -> Peers \cup {None}]
    /\ leaderId \in [Peers -> Peers \cup {None}]
    /\ role \in [Peers -> {"Follower", "Candidate", "Leader"}]
    /\ votesReceived \in [Peers -> SUBSET Peers]
    /\ \A m \in msgs : m.from \in Peers /\ m.to \in Peers /\ m.term \in Nat

ViewsOK(p) ==
    /\ \E v \in Views : known[p] = v \ {p}
    /\ role[p] # "Follower" => \E v \in Views : participants[p] = v \cup {p}
    /\ role[p] = "Candidate" => votesReceived[p] \subseteq participants[p]

MessageOK(m) ==
    /\ m.type = "RequestVote" => m.term <= currentTerm[m.from]
    /\ Grant(m) => m.term <= currentTerm[m.to] /\ Voted(m.from, m.to, m.term)

CandidateOK(p) ==
    role[p] = "Candidate" => \A q \in votesReceived[p] : Voted(q, p, currentTerm[p])

\* Two candidates of a term have no voter in common.
Separate(p, r) ==
    role[p] = "Candidate" /\ role[r] = "Candidate" /\ p # r
        /\ currentTerm[p] = currentTerm[r]
    => \A q \in Peers : ~(VotesFor(q, p) /\ VotesFor(q, r))

\* V is a majority that made p leader: none of it votes for another candidate
\* of the term any more.
Elects(V, p) ==
    /\ \E v \in Views : V \subseteq v \cup {p} /\ IsMajority(V, v \cup {p})
    /\ \A q \in V : Voted(q, p, currentTerm[p])
    /\ \A r \in Peers :
          role[r] = "Candidate" /\ currentTerm[r] = currentTerm[p] =>
              \A q \in V : ~VotesFor(q, r)

LeaderOK(p) == role[p] = "Leader" => \E V \in SUBSET Peers : Elects(V, p)

ElectionInv ==
    /\ ElectionTypes
    /\ \A p \in Peers : ViewsOK(p) /\ CandidateOK(p) /\ LeaderOK(p)
    /\ \A m \in msgs : MessageOK(m)
    /\ \A p, r \in Peers : Separate(p, r)
    /\ ElectionSafety
----------------------------------------------------------------------------
(* Leaders of the past, and who takes whom for its leader.                 *)

\* q leads term t, or has left it.
Leads(q, t) ==
    \/ currentTerm[q] > t
    \/ currentTerm[q] = t /\ role[q] = "Leader"

\* V is a majority that made q leader of t, in the past or now: no other peer
\* is leader of t, and no other candidate of t has a vote of V.
ElectedBy(V, q, t) ==
    /\ \E v \in Views : V \subseteq v \cup {q} /\ IsMajority(V, v \cup {q})
    /\ \A x \in V : Voted(x, q, t)
    /\ \A r \in Peers \ {q} : currentTerm[r] = t =>
          /\ role[r] # "Leader"
          /\ role[r] = "Candidate" => \A x \in V : ~VotesFor(x, r)

WasElected(q, t) ==
    /\ Leads(q, t)
    /\ \E V \in SUBSET Peers : ElectedBy(V, q, t)

Replication(m) == m.type \in {"AppendEntries", "AppendEntriesResponse"}

ForwardInv ==
    /\ \A m \in msgs : Replication(m) => m.from # m.to
    /\ \A m \in msgs : m.type = "AppendEntries" => WasElected(m.from, m.term)
    /\ \A p \in Peers : leaderId[p] \in Peers \ {p} =>
          WasElected(leaderId[p], currentTerm[p])
----------------------------------------------------------------------------
(* What makes elections last.                                              *)

\* Terms only grow, and a vote given in a term is kept in it.
VotesKept ==
    \A q \in Peers :
        \/ currentTerm'[q] > currentTerm[q]
        \/ currentTerm'[q] = currentTerm[q] /\ votedFor[q] \in {None, votedFor'[q]}

\* After the step r may count the vote of x: it could before, or x has shown
\* no vote for anybody else in that term.
MayCount(x, r) ==
    \/ /\ role[r] = "Candidate"
       /\ currentTerm[r] = currentTerm'[r]
       /\ VotesFor(x, r)
    \/ \A q \in Peers \ {r} : ~Voted(x, q, currentTerm'[r])

CandidatesCount ==
    \A r \in Peers : role'[r] = "Candidate" =>
        \A x \in Peers : VotesFor(x, r)' => MayCount(x, r)

MayCountMajority(r) ==
    \E v \in Views : \E T \in SUBSET Peers :
        /\ T \subseteq v \cup {r}
        /\ IsMajority(T, v \cup {r})
        /\ \A x \in T : MayCount(x, r)

LeadersCounted ==
    \A r \in Peers : role'[r] = "Leader" =>
        \/ role[r] = "Leader" /\ currentTerm[r] = currentTerm'[r]
        \/ MayCountMajority(r)

\* A leader gives up its term only for a later one.
LeadersStay ==
    \A r \in Peers : role[r] = "Leader" =>
        \/ currentTerm'[r] > currentTerm[r]
        \/ currentTerm'[r] = currentTerm[r] /\ role'[r] = "Leader"

\* What makes elections last.
ElectionKept ==
    VotesKept /\ CandidatesCount /\ LeadersCounted /\ LeadersStay

\* Whoever was elected stays elected, and whoever leads was elected.
ElectionsLast ==
    \A q \in Peers, t \in Nat :
        \/ WasElected(q, t)
        \/ role'[q] = "Leader" /\ currentTerm'[q] = t
        => WasElected(q, t)'
=============================================================================
