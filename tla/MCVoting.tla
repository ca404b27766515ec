----------------------------- MODULE MCVoting ------------------------------
(* Small instances of Voting for TLC. *)
EXTENDS Voting, TLC

CONSTANTS a, b, c, d, t1, t2, t3

StaticViews == {Peers}

\* Discovery may lose sight of every other peer.
LosingViews == {Peers, {c}}

\* Every peer sees all peers.
Settled ==
    /\ known = [p \in Peers |-> Peers \ {p}]
    /\ votings = [p \in Peers |-> << >>]
    /\ store = [p \in Peers |-> OpenStore(<< >>)]
    /\ lastCompleted = [p \in Peers |-> EmptyHash]
    /\ msgs = {}
    /\ submissions = 0

SettledSpec == Settled /\ [][Next]_vars

\* Peers that are not EntryPeers are alike, and so are transactions.
SourceSymmetry == Permutations({a, b}) \cup Permutations(Txs)
=============================================================================
