----------------------------- MODULE RaftState -----------------------------
(***************************************************************************)
(* The state of the Raft consensus engine (RaftConsensus of                *)
(* src/src/peer/consensus/raft.rs) of every peer,                          *)
(* with the messages in flight; the operators on logs and votes that need  *)
(* nothing else; and what makes a state correct.  Module Raft adds the     *)
(* handlers.                                                               *)
(***************************************************************************)
EXTENDS Integers, FiniteSets, Sequences, FiniteSetsExt

CONSTANTS
    Peers,
    None,
    Views,              \* the peer sets discovery may report
    MaxAppendEntries,   \* MAX_APPEND_ENTRIES
    MaxTerm,            \* bound: no election beyond this term
    MaxLogLen,          \* bound: no client transaction at a log this long
    MaxInFlight         \* bound: messages in flight at the same time

VARIABLES
    known,          \* known_peers of each peer's network
    participants,
    currentTerm,
    votedFor,
    leaderId,
    role,
    votesReceived,
    log,
    commitIndex,
    matchIndexes,
    store,          \* block keeper and applied transactions of each peer
    msgs            \* messages in flight

electionVars == <<currentTerm, votedFor, leaderId, role, votesReceived>>
logVars      == <<log, commitIndex, matchIndexes, store>>
viewVars     == <<known, participants>>
vars         == <<viewVars, electionVars, logVars, msgs>>

ASSUME RaftAssumption ==
    /\ Views \subseteq SUBSET Peers
    /\ None \notin Peers
    /\ MaxAppendEntries \in Nat
    /\ MaxTerm \in Nat
    /\ MaxInFlight \in Nat
    /\ MaxLogLen \in Nat

MinOf(a, b) == IF a < b THEN a ELSE b
MaxOf(a, b) == IF a < b THEN b ELSE a

LastLogTerm(lg) == IF lg = << >> THEN 0 ELSE lg[Len(lg)].term

\* term_at(index) = Some(term)
HasTermAt(lg, index, term) ==
    \/ index = 0 /\ term = 0
    \/ index \in 1 .. Len(lg) /\ lg[index].term = term

TermAt(lg, index) == IF index = 0 THEN 0 ELSE lg[index].term

\* Faulty variant: half of the participants is enough.
IsHalf(S, all) == 2 * Cardinality(S) >= Cardinality(all)

\* majority()
IsMajority(S, all) == Cardinality(S) >= Cardinality(all) \div 2 + 1

\* Faulty variant: compares the last terms only.
CandidateLogByTermOnly(p, m) == m.lastLogTerm >= LastLogTerm(log[p])

\* candidate_log_is_up_to_date
CandidateLogIsUpToDate(p, m) ==
    \/ m.lastLogTerm > LastLogTerm(log[p])
    \/ m.lastLogTerm = LastLogTerm(log[p]) /\ m.lastLogIndex >= Len(log[p])
----------------------------------------------------------------------------
(* What append_entries makes of the log of a follower.                     *)

\* The entries of m, as positions in m.entries, that contradict the log.
Conflicts(lg, m) ==
    {i \in DOMAIN m.entries :
        /\ m.prevLogIndex + i <= Len(lg)
        /\ lg[m.prevLogIndex + i].term # m.entries[i].term}

\* Faulty variant: a conflict may reach below the commit index.
CanAppendAnywhere(p, m) == HasTermAt(log[p], m.prevLogIndex, m.prevLogTerm)

\* append_entries does not answer None: the previous entry is there, and the
\* first conflict, if any, lies beyond what is committed.
CanAppend(p, m) ==
    /\ HasTermAt(log[p], m.prevLogIndex, m.prevLogTerm)
    /\ \A i \in Conflicts(log[p], m) : m.prevLogIndex + i > commitIndex[p]

\* Faulty variant: the first conflicting entry is kept.
KeptThroughConflict(lg, m) ==
    IF Conflicts(lg, m) = {} THEN Len(lg)
    ELSE m.prevLogIndex + Min(Conflicts(lg, m))

\* The part of the log the entries of m leave in place.
KeptLength(lg, m) ==
    IF Conflicts(lg, m) = {} THEN Len(lg)
    ELSE m.prevLogIndex + Min(Conflicts(lg, m)) - 1

NewEntries(lg, m) ==
    LET rest == SubSeq(m.entries, KeptLength(lg, m) - m.prevLogIndex + 1,
                       Len(m.entries))
    IN  [i \in DOMAIN rest |-> [term |-> rest[i].term, hash |-> rest[i].hash]]

AppendedLog(lg, m) == SubSeq(lg, 1, KeptLength(lg, m)) \o NewEntries(lg, m)

\* Faulty variant: the leader's commit index replaces the peer's own.
FollowerCommitReplaced(p, m, lg) == MinOf(m.leaderCommit, Len(lg))

\* The commit index goes up to the leader's, within the log as it now is.
FollowerCommit(p, m, lg) == MaxOf(commitIndex[p], MinOf(m.leaderCommit, Len(lg)))
----------------------------------------------------------------------------
(* Safety.                                                                 *)

\* At most one leader per term: no schedule of elections, stale votes and
\* step-downs lets two peers run append_leader_noop in the same term.
ElectionSafety ==
    \A p, q \in Peers :
        role[p] = "Leader" /\ role[q] = "Leader"
            /\ currentTerm[p] = currentTerm[q] => p = q

\* A peer forwards client transactions (forward_client_transaction) only to
\* one that is leader in the same term, or has moved on to a later one; so a
\* chain of forwards always climbs to a higher term and never cycles.
ForwardsUpwards ==
    \A p, q \in Peers :
        leaderId[p] = q /\ p # q =>
            \/ currentTerm[q] > currentTerm[p]
            \/ currentTerm[q] = currentTerm[p] /\ role[q] = "Leader"

\* Two logs that have an entry of the same term at the same index hold the
\* same entries up to it; append_entries compares terms only.
LogMatching ==
    \A p, q \in Peers :
        \A i \in DOMAIN log[p] \cap DOMAIN log[q] :
            log[p][i].term = log[q][i].term =>
                SubSeq(log[p], 1, i) = SubSeq(log[q], 1, i)

\* No two peers consider different entries committed at the same index,
\* whoever sent them and whenever they were elected.
CommitAgreement ==
    \A p, q \in Peers :
        LET n == MinOf(commitIndex[p], commitIndex[q])
        IN  SubSeq(log[p], 1, n) = SubSeq(log[q], 1, n)

\* What any peer has committed is in the log of every leader of a term at
\* least that peer's own.
LeaderCompleteness ==
    \A p, q \in Peers :
        role[q] = "Leader" /\ currentTerm[q] >= currentTerm[p] =>
            /\ commitIndex[p] <= Len(log[q])
            /\ SubSeq(log[q], 1, commitIndex[p]) = SubSeq(log[p], 1, commitIndex[p])
=============================================================================
