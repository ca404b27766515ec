------------------------------- MODULE Voting ------------------------------
(***************************************************************************)
(* Leaderless voting on blocks: src/src/peer/consensus/voting.rs, driven   *)
(* by Peer::handle_message (src/src/peer.rs) and with the effects its      *)
(* handlers run (src/src/peer/effects.rs).  A handler and all its effects  *)
(* are one action: the event loop of a peer runs them without a break.     *)
(*                                                                         *)
(* Abstractions.  Peers are honest, so signatures and hashes verify.       *)
(* Every transaction is valid on its own; balances are in module Ledger.   *)
(***************************************************************************)
EXTENDS PeerEffects

CONSTANTS
    Peers,
    Views,            \* the peer sets discovery may report
    Down,             \* peers that are not running, but may still be reported
    EntryPeers,       \* the peers clients talk to
    Lossy,            \* whether the network may lose messages
    MaxSubmissions,   \* bound: client transactions submitted
    MaxInFlight       \* bound: messages in flight at the same time

VARIABLES
    known,           \* known_peers of each peer's network
    votings,         \* a VotingConsensus for each block hash seen
    store,           \* block keeper and applied transactions of each peer
    lastCompleted,   \* last_completed_block
    msgs,            \* messages in flight
    submissions      \* how many transactions clients have submitted

vars == <<known, votings, store, lastCompleted, msgs, submissions>>

ASSUME VotingAssumption ==
    /\ IsFiniteSet(Peers)
    /\ Views \subseteq SUBSET Peers
    /\ Down \subseteq Peers
    /\ EntryPeers \subseteq Peers
    /\ Lossy \in BOOLEAN
    /\ MaxSubmissions \in Nat
    /\ MaxInFlight \in Nat
----------------------------------------------------------------------------
(* The votes on one block, as one peer counts them.                        *)

\* outcome "None" is the code's None; the code stores no Pending.
VotingConsensus ==
    [participants : SUBSET Peers, approvals : SUBSET Peers,
     rejections : SUBSET Peers, outcome : {"None", "Approved", "Rejected"}]

\* VotingConsensus::new: the participants are fixed when the peer first
\* hears of the block.
NewVoting(p) ==
    [participants |-> known[p] \cup {p}, approvals |-> {}, rejections |-> {},
     outcome |-> "None"]

VotingOn(p, hash) ==
    IF hash \in DOMAIN votings[p] THEN votings[p][hash] ELSE NewVoting(p)

FaultyPeers(total) == (total - 1) \div 3

\* evaluate_outcome
EvaluateOutcome(total, approvals, rejections) ==
    IF approvals >= 2 * FaultyPeers(total) + 1 THEN "Approved"
    ELSE IF rejections >= FaultyPeers(total) THEN "Rejected"
    ELSE "None"

\* Faulty variant: whoever votes is counted.
MakeAnyVote(v, from, approve) ==
    LET voted == IF approve THEN [v EXCEPT !.approvals = @ \cup {from}]
                 ELSE [v EXCEPT !.rejections = @ \cup {from}]
    IN  [voted EXCEPT !.outcome =
            EvaluateOutcome(Cardinality(v.participants),
                            Cardinality(voted.approvals),
                            Cardinality(voted.rejections))]

\* make_vote on a voting without an outcome.
MakeVote(v, from, approve) ==
    LET voted == IF approve THEN [v EXCEPT !.approvals = @ \cup {from}]
                 ELSE [v EXCEPT !.rejections = @ \cup {from}]
    IN  IF from \notin v.participants THEN v
        ELSE [voted EXCEPT !.outcome =
                 EvaluateOutcome(Cardinality(v.participants),
                                 Cardinality(voted.approvals),
                                 Cardinality(voted.rejections))]

\* handle_voting_vote: a second vote of one peer, or a vote after the
\* outcome, changes nothing.
CountVote(v, from, approve) ==
    IF from \in v.approvals \cup v.rejections \/ v.outcome # "None" THEN v
    ELSE MakeVote(v, from, approve)

\* The proposer's vote, then this peer's own unless the first had effects
\* (on_block_proposal_validated).
CountProposal(v, proposer, p, valid) ==
    LET first == CountVote(v, proposer, TRUE)
    IN  IF first.outcome # v.outcome THEN first ELSE CountVote(first, p, valid)
----------------------------------------------------------------------------
(* Messages and effects.                                                   *)

\* A handler that took the messages taken sends M.
Exchange(taken, M) ==
    LET sent == {m \in M : m.to \notin Down}
    IN  \E arriving \in IF Lossy THEN SUBSET sent ELSE {sent} :
            /\ msgs' = (msgs \ taken) \cup arriving
            /\ Cardinality(msgs') <= MaxInFlight

\* broadcast_peer_message
Broadcast(p, type, body) ==
    {[type |-> type, from |-> p, to |-> q, body |-> body] : q \in known[p]}

\* The voting on hash goes from VotingOn(p, hash) to v, on store s: the
\* effects of the vote that gave it an outcome, if one did.  A commit that
\* fails leaves last_completed_block; the announcement is sent all the same.
Decide(p, hash, v, s, taken, M) ==
    LET old == VotingOn(p, hash)
    IN  /\ votings' = [votings EXCEPT ![p] =
              [h \in DOMAIN @ \cup {hash} |-> IF h = hash THEN v ELSE @[h]]]
        /\ \/ /\ v.outcome = old.outcome
              /\ store' = [store EXCEPT ![p] = s]
              /\ UNCHANGED lastCompleted
              /\ Exchange(taken, M)
           \/ /\ v.outcome # old.outcome
              /\ v.outcome = "Approved"
              /\ store' = [store EXCEPT ![p] = CommitBlock(s, hash)]
              /\ lastCompleted' = [lastCompleted EXCEPT ![p] =
                    IF IsUncommitted(s, hash) THEN hash ELSE @]
              /\ Exchange(taken, M \cup Broadcast(p, "BlockApproved", hash))
           \/ /\ v.outcome # old.outcome
              /\ v.outcome = "Rejected"
              /\ \E t \in ExecuteRollback(s, hash) : store' = [store EXCEPT ![p] = t]
              /\ lastCompleted' = [lastCompleted EXCEPT ![p] = hash]
              /\ Exchange(taken, M \cup Broadcast(p, "BlockReject", hash))

\* Stage tx and, when it fills the mempool, propose the block made of it
\* (ProposeBlock): a peer that knows no other commits at once and votes on
\* nothing; else its own vote is the first.
StageAndPropose(p, tx, taken, M) ==
    LET s     == StageClientTransaction(store[p], tx)
        block == NewBlock(store[p], store[p].mempool \cup {tx})
    IN  \/ /\ ~FillsMempool(store[p], tx)
           /\ store' = [store EXCEPT ![p] = s]
           /\ Exchange(taken, M)
           /\ UNCHANGED <<votings, lastCompleted>>
        \/ /\ FillsMempool(store[p], tx)
           /\ known[p] = {}
           /\ store' = [store EXCEPT ![p] = CommitBlock(s, block.hash)]
           /\ Exchange(taken, M)
           /\ UNCHANGED <<votings, lastCompleted>>
        \/ /\ FillsMempool(store[p], tx)
           /\ known[p] # {}
           /\ Decide(p, block.hash, CountVote(VotingOn(p, block.hash), p, TRUE),
                     s, taken, M \cup Broadcast(p, "BlockProposal", block))
----------------------------------------------------------------------------
Init ==
    /\ \E view \in [Peers -> Views] : known = [p \in Peers |-> view[p] \ {p}]
    /\ votings = [p \in Peers |-> << >>]
    /\ store = [p \in Peers |-> OpenStore(<< >>)]
    /\ lastCompleted = [p \in Peers |-> EmptyHash]
    /\ msgs = {}
    /\ submissions = 0

\* RestNetwork::update_peers
UpdatePeers(p) ==
    /\ \E view \in Views : known' = [known EXCEPT ![p] = view \ {p}]
    /\ UNCHANGED <<votings, store, lastCompleted, msgs, submissions>>

\* process_client_transaction: stage and broadcast.
ClientTransaction(p, tx) ==
    /\ p \in EntryPeers
    /\ submissions < MaxSubmissions
    /\ submissions' = submissions + 1
    /\ StageAndPropose(p, tx, {}, Broadcast(p, "Synchronization", tx))
    /\ UNCHANGED known

\* synchronize_transaction
SynchronizeTransaction(p, m) ==
    /\ m.type = "Synchronization"
    /\ m.to = p
    /\ StageAndPropose(p, m.body, {m}, {})
    /\ UNCHANGED <<known, submissions>>

\* process_block_proposal.  A block that is not linked to the chain, or is
\* already staged, is not valid; the vote is counted all the same.
ProcessBlockProposal(p, m) ==
    LET block == m.body
    IN  /\ m.type = "BlockProposal"
        /\ m.to = p
        /\ lastCompleted[p] # block.hash
        /\ \E valid \in BlockCanBeAdded(store[p], block) :
              Decide(p, block.hash,
                     CountProposal(VotingOn(p, block.hash), m.from, p, valid),
                     IF valid THEN StageBlock(store[p], block) ELSE store[p],
                     {m}, {})
        /\ UNCHANGED <<known, submissions>>

\* process_block_vote: a vote on a block that is staged here.
ProcessBlockVote(p, m) ==
    /\ m.type \in {"BlockApproved", "BlockReject"}
    /\ m.to = p
    /\ lastCompleted[p] # m.body
    /\ IsUncommitted(store[p], m.body)
    /\ Decide(p, m.body,
              CountVote(VotingOn(p, m.body), m.from, m.type = "BlockApproved"),
              store[p], {m}, {})
    /\ UNCHANGED <<known, submissions>>

\* A proposal of, or a vote on, the block completed last; a vote on a block
\* that is not staged.
IgnoreMessage(p, m) ==
    /\ m.to = p
    /\ \/ m.type = "BlockProposal" /\ lastCompleted[p] = m.body.hash
       \/ /\ m.type \in {"BlockApproved", "BlockReject"}
          /\ lastCompleted[p] = m.body \/ ~IsUncommitted(store[p], m.body)
    /\ Exchange({m}, {})
    /\ UNCHANGED <<known, votings, store, lastCompleted, submissions>>

\* Peer::handle_message
Receive(p, m) ==
    \/ SynchronizeTransaction(p, m)
    \/ ProcessBlockProposal(p, m)
    \/ ProcessBlockVote(p, m)
    \/ IgnoreMessage(p, m)

Next ==
    \E p \in Peers \ Down :
        \/ UpdatePeers(p)
        \/ \E tx \in Txs : ClientTransaction(p, tx)
        \/ \E m \in msgs : Receive(p, m)

Spec == Init /\ [][Next]_vars
----------------------------------------------------------------------------
(* Properties.                                                             *)

Message ==
    [type : {"Synchronization"}, from : Peers, to : Peers, body : Txs]
    \cup [type : {"BlockProposal"}, from : Peers, to : Peers, body : BlockFile]
    \cup [type : {"BlockApproved", "BlockReject"}, from : Peers, to : Peers,
          body : Hash]

\* Every variable keeps its type, and in a tally every peer that voted is a
\* participant and voted once, also when discovery changes the peers meanwhile:
\* the thresholds of evaluate_outcome count on it.
TypeOK ==
    /\ known \in [Peers -> SUBSET Peers]
    /\ DOMAIN votings = Peers
    /\ \A p \in Peers :
          /\ DOMAIN votings[p] \subseteq Hash
          /\ \A hash \in DOMAIN votings[p] :
                LET v == votings[p][hash]
                IN  /\ v \in VotingConsensus
                    /\ v.approvals \cup v.rejections \subseteq v.participants
                    /\ v.approvals \cap v.rejections = {}
    /\ store \in [Peers -> Store]
    /\ lastCompleted \in [Peers -> Hash]
    /\ msgs \subseteq Message
    /\ submissions \in Nat

FileTransactions(s) == UNION {Transactions(s.chain[i]) : i \in DOMAIN s.chain}

StagedTransactions(s) == UNION {Transactions(b) : b \in s.uncommitted}

\* The transactions a peer answers for: waiting, in an undecided block, or on
\* disk.
HeldTransactions(s) == s.mempool \cup s.pending \cup FileTransactions(s)

\* Every balance change comes from a transaction that is still waiting, staged
\* or on disk: rolling back undoes all that it takes away, also when blocks
\* that share transactions are staged, approved and rejected in any order.
AppliedIsAccountedFor ==
    \A p \in Peers :
        store[p].applied \subseteq store[p].mempool
            \cup StagedTransactions(store[p]) \cup FileTransactions(store[p])

\* A transaction waiting for the outcome of a block has a block staged: when
\* the last of its blocks is approved or rejected it stops being pending.
PendingIsStaged ==
    \A p \in Peers : store[p].pending \subseteq StagedTransactions(store[p])

\* A transaction a peer has accepted is waiting, pending or on disk from then
\* on: no proposal that takes it out of the mempool, no rejection and no commit
\* of a competing block drops it.
AcceptedIsHeld ==
    [][\A p \in Peers :
          HeldTransactions(store[p]) \subseteq HeldTransactions(store'[p])]_vars
----------------------------------------------------------------------------
(* Liveness.  Every peer works through its channel.                        *)

FairSpec ==
    Spec /\ \A p \in Peers \ Down : WF_vars(\E m \in msgs : Receive(p, m))

\* Once clients are quiet, every block a peer has heard of is approved or
\* rejected there.
ProposalsDecided ==
    <>[](\A p \in Peers : \A hash \in DOMAIN votings[p] :
            votings[p][hash].outcome # "None")
=============================================================================
