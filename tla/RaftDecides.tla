---------------------------- MODULE RaftDecides ----------------------------
(***************************************************************************)
(* The Raft engine implements DecidedLog: a peer has learned the part of   *)
(* its log up to its commit index, and what is decided is the longest such *)
(* part.                                                                   *)
(***************************************************************************)
EXTENDS Raft

Committed(p) == SubSeq(log[p], 1, commitIndex[p])

\* A peer with the highest commit index.
Foremost == CHOOSE p \in Peers : \A q \in Peers : commitIndex[q] <= commitIndex[p]

Abstract == INSTANCE DecidedLog WITH
    Entry   <- LogEntry,
    decided <- Committed(Foremost),
    learned <- [p \in Peers |-> Committed(p)]

\* Commits of all peers together behave like one growing sequence: no handler
\* of raft.rs commits, at any peer and in any term, anything but the next
\* entries of the sequence the others committed, or entries nobody has
\* committed beyond the end of it.
ImplementsDecidedLog == Abstract!Spec
=============================================================================
