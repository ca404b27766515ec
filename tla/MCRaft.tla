------------------------------ MODULE MCRaft -------------------------------
(* Small instances of Raft for TLC. *)
EXTENDS RaftDecides, TLC

CONSTANTS a, b, c, t1, t2, t3

\* Discovery reports every peer.
StaticViews == {Peers}

\* Discovery may not, or no longer, report c.
ChangingViews == {{a, b}, {a, b, c}}

\* Every peer has ticked once: reached from Init by IdleTick of each peer.
Settled ==
    /\ known = [p \in Peers |-> Peers \ {p}]
    /\ participants = [p \in Peers |-> Peers]
    /\ currentTerm = [p \in Peers |-> 0]
    /\ votedFor = [p \in Peers |-> None]
    /\ leaderId = [p \in Peers |-> None]
    /\ role = [p \in Peers |-> "Follower"]
    /\ votesReceived = [p \in Peers |-> {}]
    /\ log = [p \in Peers |-> << >>]
    /\ commitIndex = [p \in Peers |-> 0]
    /\ matchIndexes = [p \in Peers |-> [q \in Peers |-> 0]]
    /\ store = [p \in Peers |-> OpenStore(<< >>)]
    /\ msgs = {}

SettledSpec == Settled /\ [][Next]_vars

\* The peers are alike, so one leader and one follower stand for all.
FairSpec == SettledSpec /\ Fairness(a, b)

LeaderLogReachesFollower == LeaderLogSpreads(a, b)

Symmetry == Permutations(Peers) \cup Permutations(Txs)

\* Peers ChangingViews does not tell apart.
MemberSymmetry == Permutations({a, b})
=============================================================================
