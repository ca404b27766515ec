------------------------------- MODULE Raft --------------------------------
(***************************************************************************)
(* The Raft consensus engine together with the effects its handlers run:   *)
(* src/src/peer/consensus/raft.rs, raft/election.rs, raft/replication.rs,  *)
(* driven by Peer::handle_message and Peer::handle_tick (src/src/peer.rs). *)
(* A peer handles one message or one tick at a time, effects included, so  *)
(* every handler is one action.                                            *)
(*                                                                         *)
(* Abstractions.                                                           *)
(*   - The log is a sequence: entry i has index i (the code appends at     *)
(*     last index + 1 and truncates to a prefix).                          *)
(*   - A missing key of match_indexes reads as 0, in the code as here.     *)
(*   - Timers are left open: a tick may find any timer due or not due.     *)
(*   - The peers are honest, so signatures and hashes verify.              *)
(*   - pending_blocks only hands a block from on_append_entries to the     *)
(*     staging effect of the same handler; the two are joined.             *)
(*   - A client may submit any transaction to any peer at any time, which  *)
(*     includes what a follower forwards to its leader.                    *)
(***************************************************************************)
EXTENDS RaftState, PeerEffects

LogEntry == [term : Nat, hash : Hash]

IsNoop(entry) == entry.hash = EmptyHash

\* The blocks of the entries after index from, up to index to.
BlocksBetween(lg, from, to) ==
    LET blocks == SelectSeq(SubSeq(lg, from + 1, to), LAMBDA e : ~IsNoop(e))
    IN  [i \in DOMAIN blocks |-> blocks[i].hash]
----------------------------------------------------------------------------
(* The network.  A message is posted once, without retry, by a task of its *)
(* own: it may be overtaken by later ones, and it may be lost.             *)

\* A handler that took the messages taken sends M; what arrives of M is any
\* part of it.
Exchange(taken, M) ==
    \E arriving \in SUBSET M :
        /\ msgs' = (msgs \ taken) \cup arriving
        /\ Cardinality(msgs') <= MaxInFlight

\* send_peer_message drops a message to a peer the sender does not know.
SendTo(p, M) == {m \in M : m.to \in known[p]}

\* append_entries_effect_for and send_raft_append_entries: entries after the
\* match index, at most MaxAppendEntries of them, each with its block file.
\* A block found neither staged nor on disk fails the whole message.
AppendEntriesFor(p, q, term, lg, match, s) ==
    LET prev    == MinOf(match[q], Len(lg))
        batch   == SubSeq(lg, prev + 1, MinOf(prev + MaxAppendEntries, Len(lg)))
        file(e) == IF IsNoop(e) THEN 0 ELSE FindBlock(s, e.hash).index
    IN  IF \E i \in DOMAIN batch :
              ~IsNoop(batch[i]) /\ ~HasBlock(s, batch[i].hash)
        THEN {}
        ELSE {[type |-> "AppendEntries", from |-> p, to |-> q, term |-> term,
               prevLogIndex |-> prev, prevLogTerm |-> TermAt(lg, prev),
               entries |-> [i \in DOMAIN batch |->
                               [term |-> batch[i].term, hash |-> batch[i].hash,
                                index |-> file(batch[i])]],
               leaderCommit |-> commitIndex[p]]}

\* append_entries_effects_for_followers
AppendEntriesForFollowers(p, Q, term, lg, match, s) ==
    SendTo(p, UNION {AppendEntriesFor(p, q, term, lg, match, s) : q \in Q \ {p}})

\* Faulty variants: an entry whose predecessor is held; an entry every
\* participant holds.
AdvancedTooEarly(p, Q, term, lg, match) ==
    LET held(i) == /\ lg[i].term = term
                   /\ IsMajority({q \in Q : match[q] >= i - 1}, Q)
        all     == {i \in commitIndex[p] + 1 .. Len(lg) : held(i)}
    IN  IF all = {} THEN commitIndex[p] ELSE Max(all)

AdvancedWhenAllHold(p, Q, term, lg, match) ==
    LET held(i) == lg[i].term = term /\ \A q \in Q : match[q] >= i
        all     == {i \in commitIndex[p] + 1 .. Len(lg) : held(i)}
    IN  IF all = {} THEN commitIndex[p] ELSE Max(all)

\* advance_commit_index: the last entry of the current term that a majority
\* of the participants holds.
AdvancedCommitIndex(p, Q, term, lg, match) ==
    LET held(i) == /\ lg[i].term = term
                   /\ IsMajority({q \in Q : match[q] >= i}, Q)
        all     == {i \in commitIndex[p] + 1 .. Len(lg) : held(i)}
    IN  IF all = {} THEN commitIndex[p] ELSE Max(all)

\* advance_commit_index, its CommitBlock effects and the persisted log.
AdvanceCommitIndex(p, Q, term, lg, match, s) ==
    LET commit == AdvancedCommitIndex(p, Q, term, lg, match)
    IN  /\ commitIndex' = [commitIndex EXCEPT ![p] = commit]
        /\ store' = [store EXCEPT ![p] =
              ExecuteCommits(s, BlocksBetween(lg, commitIndex[p], commit))]

\* append_local_block and append_leader_noop: push the entry, send it to the
\* other participants, commit what is now held by a majority.  M is what the
\* same handler sends besides, taken what it took.
AppendAsLeader(p, Q, term, hash, match, s, taken, M) ==
    LET lg  == Append(log[p], [term |-> term, hash |-> hash])
        own == [match EXCEPT ![p] = Len(lg)]
    IN  /\ log' = [log EXCEPT ![p] = lg]
        /\ matchIndexes' = [matchIndexes EXCEPT ![p] = own]
        /\ Exchange(taken, M \cup
              AppendEntriesForFollowers(p, Q, term, lg, own, s))
        /\ AdvanceCommitIndex(p, Q, term, lg, own, s)

\* The match indexes a new leader starts from (become_leader_if_majority).
NewLeaderMatch(p) == [q \in Peers |-> IF q = p THEN Len(log[p]) ELSE 0]

\* step_down(term)
StepDown(p, term) ==
    /\ currentTerm' = [currentTerm EXCEPT ![p] = term]
    /\ votedFor' = [votedFor EXCEPT ![p] = None]
    /\ leaderId' = [leaderId EXCEPT ![p] = None]
    /\ role' = [role EXCEPT ![p] = "Follower"]
    /\ votesReceived' = [votesReceived EXCEPT ![p] = {}]
----------------------------------------------------------------------------
Init ==
    /\ \E view \in [Peers -> Views] : known = [p \in Peers |-> view[p] \ {p}]
    /\ participants = [p \in Peers |-> {p}]
    /\ currentTerm = [p \in Peers |-> 0]
    /\ votedFor = [p \in Peers |-> None]
    /\ leaderId = [p \in Peers |-> None]
    /\ role = [p \in Peers |-> "Follower"]
    /\ votesReceived = [p \in Peers |-> {}]
    /\ log = [p \in Peers |-> << >>]
    /\ commitIndex = [p \in Peers |-> 0]
    /\ matchIndexes = [p \in Peers |-> [q \in Peers |-> 0]]
    /\ store = [p \in Peers |-> OpenStore(<< >>)]
    /\ msgs = {}
----------------------------------------------------------------------------
(* Ticks.  Each first takes over the peers its network knows, forgetting   *)
(* the votes and match indexes of the others (update_participants).        *)

TickParticipants(p) == known[p] \cup {p}

RetainedMatch(p) ==
    [q \in Peers |-> IF q \in TickParticipants(p) THEN matchIndexes[p][q] ELSE 0]

UpdateParticipants(p) ==
    participants' = [participants EXCEPT ![p] = TickParticipants(p)]

\* RestNetwork::update_peers takes over what discovery reports.
UpdatePeers(p) ==
    \E view \in Views :
        /\ view \ {p} # known[p]
        /\ known' = [known EXCEPT ![p] = view \ {p}]
        /\ UNCHANGED <<participants, electionVars, logVars, msgs>>

\* on_tick, no timer due.
IdleTick(p) ==
    /\ UpdateParticipants(p)
    /\ votesReceived' =
          [votesReceived EXCEPT ![p] = @ \cap TickParticipants(p)]
    /\ matchIndexes' = [matchIndexes EXCEPT ![p] = RetainedMatch(p)]
    /\ UNCHANGED <<known, currentTerm, votedFor, leaderId, role,
                   log, commitIndex, store, msgs>>

\* on_tick of a leader whose heartbeat is due.
Heartbeat(p) ==
    /\ role[p] = "Leader"
    /\ UpdateParticipants(p)
    /\ votesReceived' =
          [votesReceived EXCEPT ![p] = @ \cap TickParticipants(p)]
    /\ matchIndexes' = [matchIndexes EXCEPT ![p] = RetainedMatch(p)]
    /\ Exchange({}, AppendEntriesForFollowers(p, TickParticipants(p),
                        currentTerm[p], log[p], RetainedMatch(p), store[p]))
    /\ UNCHANGED <<known, currentTerm, votedFor, leaderId, role,
                   log, commitIndex, store>>

\* on_tick of a follower or candidate whose election timeout has passed.  A
\* peer that knows no other wins at once and appends its no-op.
StartElection(p) ==
    LET Q    == TickParticipants(p)
        term == currentTerm[p] + 1
        wins == IsMajority({p}, Q)
        ask  == [type : {"RequestVote"}, from : {p}, to : known[p],
                 term : {term}, lastLogIndex : {Len(log[p])},
                 lastLogTerm : {LastLogTerm(log[p])}]
    IN  /\ role[p] # "Leader"
        /\ term <= MaxTerm
        /\ UpdateParticipants(p)
        /\ currentTerm' = [currentTerm EXCEPT ![p] = term]
        /\ votedFor' = [votedFor EXCEPT ![p] = p]
        /\ leaderId' = [leaderId EXCEPT ![p] = IF wins THEN p ELSE None]
        /\ role' = [role EXCEPT ![p] = IF wins THEN "Leader" ELSE "Candidate"]
        /\ votesReceived' = [votesReceived EXCEPT ![p] = {p}]
        /\ \/ /\ wins
              /\ AppendAsLeader(p, Q, term, EmptyHash, NewLeaderMatch(p),
                                store[p], {}, ask)
           \/ /\ ~wins
              /\ matchIndexes' = [matchIndexes EXCEPT ![p] = RetainedMatch(p)]
              /\ Exchange({}, ask)
              /\ UNCHANGED <<log, commitIndex, store>>
        /\ UNCHANGED known
----------------------------------------------------------------------------
(* Votes.                                                                  *)

\* request_vote: the vote this peer has in the request's term.
VoteInTerm(p, m) == IF m.term > currentTerm[p] THEN None ELSE votedFor[p]

\* Faulty variant: the leader of the old term is kept.
LeaderKept(p, m) == leaderId[p]

\* request_vote: the leader this peer has in the request's term.
LeaderInTerm(p, m) == IF m.term > currentTerm[p] THEN None ELSE leaderId[p]

\* Faulty variant: a vote already given in this term is forgotten.
GrantsVoteAgain(p, m) ==
    m.term >= currentTerm[p] /\ CandidateLogIsUpToDate(p, m)

GrantsVote(p, m) ==
    /\ m.term >= currentTerm[p]
    /\ CandidateLogIsUpToDate(p, m)
    /\ VoteInTerm(p, m) \in {None, m.from}

\* on_request_vote
HandleRequestVote(p, m) ==
    LET newer == m.term > currentTerm[p]
        grant == GrantsVote(p, m)
        reply == [type |-> "RequestVoteResponse", from |-> p, to |-> m.from,
                  term |-> MaxOf(currentTerm[p], m.term), granted |-> grant]
    IN  /\ m.type = "RequestVote"
        /\ m.to = p
        /\ currentTerm' = [currentTerm EXCEPT ![p] = MaxOf(@, m.term)]
        /\ votedFor' = [votedFor EXCEPT ![p] =
                           IF grant THEN m.from ELSE VoteInTerm(p, m)]
        /\ leaderId' = [leaderId EXCEPT ![p] = LeaderInTerm(p, m)]
        /\ role' = [role EXCEPT ![p] = IF newer THEN "Follower" ELSE @]
        /\ votesReceived' = [votesReceived EXCEPT ![p] = IF newer THEN {} ELSE @]
        /\ Exchange({m}, SendTo(p, {reply}))
        /\ UNCHANGED <<viewVars, logVars>>

\* on_request_vote_response and on_append_entries_response: an answer from a
\* later term makes any peer a follower.
HandleNewerTerm(p, m) ==
    /\ m.type \in {"RequestVoteResponse", "AppendEntriesResponse"}
    /\ m.to = p
    /\ m.term > currentTerm[p]
    /\ StepDown(p, m.term)
    /\ Exchange({m}, {})
    /\ UNCHANGED <<viewVars, logVars>>

\* The vote counts (receive_vote).
CountsVote(p, m) ==
    /\ role[p] = "Candidate"
    /\ m.term = currentTerm[p]
    /\ m.granted
    /\ m.from \in participants[p]

\* on_request_vote_response of a candidate that is granted a vote of its
\* term; the vote that makes a majority makes it leader.
HandleVote(p, m) ==
    LET votes == votesReceived[p] \cup {m.from}
        wins  == IsMajority(votes, participants[p])
    IN  /\ m.type = "RequestVoteResponse"
        /\ m.to = p
        /\ CountsVote(p, m)
        /\ votesReceived' = [votesReceived EXCEPT ![p] = votes]
        /\ \/ /\ wins
              /\ role' = [role EXCEPT ![p] = "Leader"]
              /\ leaderId' = [leaderId EXCEPT ![p] = p]
              /\ AppendAsLeader(p, participants[p], currentTerm[p], EmptyHash,
                                NewLeaderMatch(p), store[p], {m}, {})
           \/ /\ ~wins
              /\ Exchange({m}, {})
              /\ UNCHANGED <<role, leaderId, logVars>>
        /\ UNCHANGED <<viewVars, currentTerm, votedFor>>
----------------------------------------------------------------------------
(* Replication at a follower.                                              *)

\* receive_append_entries_at.  timedOut: this peer has not heard from its
\* leader for an election timeout.
AcceptsLeader(p, m, timedOut) ==
    /\ m.from \in participants[p]
    /\ m.term >= currentTerm[p]
    /\ \/ m.term > currentTerm[p]
       \/ leaderId[p] \in {None, m.from}
       \/ timedOut

\* Faulty variant: goes back one entry, also from the start of the log.
MatchingIndexOneBack(lg, m, entries) ==
    IF HasTermAt(lg, m.prevLogIndex, m.prevLogTerm)
    THEN m.prevLogIndex + Len(entries) - 1 ELSE 0

\* matching_index_for
MatchingIndexFor(lg, m, entries) ==
    LET matches == {m.prevLogIndex + i : i \in
                       {j \in DOMAIN entries :
                           HasTermAt(lg, m.prevLogIndex + j, entries[j].term)}}
    IN  IF matches # {} THEN Max(matches)
        ELSE IF HasTermAt(lg, m.prevLogIndex, m.prevLogTerm) THEN m.prevLogIndex
        ELSE 0

AppendEntriesResponse(p, m, term, success, match) ==
    SendTo(p, {[type |-> "AppendEntriesResponse", from |-> p, to |-> m.from,
                term |-> term, success |-> success, matchIndex |-> match]})

\* entries_to_stage: blocks beyond the commit index the message found.
BlocksToStage(p, m) ==
    LET stage(i) == /\ m.prevLogIndex + i > commitIndex[p]
                    /\ ~IsNoop(m.entries[i])
        at == SelectSeq([i \in DOMAIN m.entries |-> i], stage)
    IN  [i \in DOMAIN at |-> [hash |-> m.entries[at[i]].hash,
                              index |-> m.entries[at[i]].index]]

\* The effects append_entries returns, in their order: rollbacks of the
\* entries cut off, staging, commits.
FollowerEffects(p, m, lg, commit) ==
    LET cut     == BlocksBetween(log[p], KeptLength(log[p], m), Len(log[p]))
        commits == BlocksBetween(lg, commitIndex[p], commit)
        staged  == UNION {StageRaftEntries(s, BlocksToStage(p, m)) :
                             s \in ExecuteRollbacks(store[p], cut)}
    IN  {ExecuteCommits(s, commits) : s \in staged}

\* The sender becomes the leader this peer follows.
FollowLeader(p, m) ==
    /\ currentTerm' = [currentTerm EXCEPT ![p] = m.term]
    /\ votedFor' = [votedFor EXCEPT ![p] =
                       IF m.term > currentTerm[p] THEN None ELSE @]
    /\ leaderId' = [leaderId EXCEPT ![p] = m.from]
    /\ role' = [role EXCEPT ![p] = "Follower"]
    /\ votesReceived' = [votesReceived EXCEPT ![p] = {}]

\* handle_append_entries, the sender is not accepted as leader.
RejectLeader(p, m) ==
    /\ m.type = "AppendEntries"
    /\ m.to = p
    /\ ~AcceptsLeader(p, m, FALSE)
    /\ Exchange({m}, AppendEntriesResponse(p, m, currentTerm[p], FALSE,
                          MatchingIndexFor(log[p], m, << >>)))
    /\ UNCHANGED <<viewVars, electionVars, logVars>>

\* handle_append_entries, the entries do not fit the log.
RejectEntries(p, m) ==
    /\ m.type = "AppendEntries"
    /\ m.to = p
    /\ \E timedOut \in BOOLEAN : AcceptsLeader(p, m, timedOut)
    /\ ~CanAppend(p, m)
    /\ FollowLeader(p, m)
    /\ Exchange({m}, AppendEntriesResponse(p, m, m.term, FALSE,
                          MatchingIndexFor(log[p], m, m.entries)))
    /\ UNCHANGED <<viewVars, logVars>>

\* handle_append_entries, the entries are taken.  The acknowledgement is the
\* last effect; it is sent whatever became of the effects before it.
AcceptEntries(p, m) ==
    LET lg     == AppendedLog(log[p], m)
        commit == FollowerCommit(p, m, lg)
    IN  /\ m.type = "AppendEntries"
        /\ m.to = p
        /\ \E timedOut \in BOOLEAN : AcceptsLeader(p, m, timedOut)
        /\ CanAppend(p, m)
        /\ FollowLeader(p, m)
        /\ log' = [log EXCEPT ![p] = lg]
        /\ commitIndex' = [commitIndex EXCEPT ![p] = commit]
        /\ \E s \in FollowerEffects(p, m, lg, commit) :
              store' = [store EXCEPT ![p] = s]
        /\ Exchange({m}, AppendEntriesResponse(p, m, m.term, TRUE,
                              m.prevLogIndex + Len(m.entries)))
        /\ UNCHANGED <<viewVars, matchIndexes>>
----------------------------------------------------------------------------
(* Replication at a leader.                                                *)

\* An answer the leader takes (handle_leader_append_entries_response).
CountsAnswer(p, m) ==
    /\ role[p] = "Leader"
    /\ m.term = currentTerm[p]
    /\ m.from \in participants[p]

\* handle_leader_append_entries_response, success.
HandleAppendEntriesSuccess(p, m) ==
    LET match == [matchIndexes[p] EXCEPT ![m.from] = MaxOf(@, m.matchIndex)]
    IN  /\ m.type = "AppendEntriesResponse"
        /\ m.to = p
        /\ CountsAnswer(p, m)
        /\ m.success
        /\ matchIndexes' = [matchIndexes EXCEPT ![p] = match]
        /\ AdvanceCommitIndex(p, participants[p], currentTerm[p], log[p], match,
                              store[p])
        /\ Exchange({m}, {})
        /\ UNCHANGED <<viewVars, electionVars, log>>

\* handle_leader_append_entries_response, failure: go back to what the
\* follower says it holds, and send again at once if that is not everything.
HandleAppendEntriesFailure(p, m) ==
    LET held  == MinOf(m.matchIndex, Len(log[p]))
        match == [matchIndexes[p] EXCEPT ![m.from] = held]
        again == IF held >= Len(log[p]) THEN {}
                 ELSE AppendEntriesFor(p, m.from, currentTerm[p], log[p], match,
                                       store[p])
    IN  /\ m.type = "AppendEntriesResponse"
        /\ m.to = p
        /\ CountsAnswer(p, m)
        /\ ~m.success
        /\ matchIndexes' = [matchIndexes EXCEPT ![p] = match]
        /\ Exchange({m}, SendTo(p, again))
        /\ UNCHANGED <<viewVars, electionVars, log, commitIndex, store>>

\* Answers that on_request_vote_response and on_append_entries_response leave
\* without effect.
IgnoreAnswer(p, m) ==
    /\ \/ m.type = "RequestVoteResponse" /\ ~CountsVote(p, m)
       \/ m.type = "AppendEntriesResponse" /\ ~CountsAnswer(p, m)
    /\ m.to = p
    /\ m.term <= currentTerm[p]
    /\ Exchange({m}, {})
    /\ UNCHANGED <<viewVars, electionVars, logVars>>

\* Faulty variant: a block may be made while another is undecided.
UncommittedBlockAllowed(p) == commitIndex[p] <= Len(log[p])

\* ensure_no_uncommitted_block
NoUncommittedBlock(p) ==
    \A i \in commitIndex[p] + 1 .. Len(log[p]) : IsNoop(log[p][i])

\* on_client_transaction of a leader, and on_block_created when the
\* transaction fills the mempool.  Any other peer only forwards it.
ClientTransaction(p, tx) ==
    LET s == StageClientTransaction(store[p], tx)
    IN  /\ role[p] = "Leader"
        /\ NoUncommittedBlock(p)
        /\ Len(log[p]) < MaxLogLen
        /\ \/ /\ FillsMempool(store[p], tx)
              /\ AppendAsLeader(p, participants[p], currentTerm[p],
                                NewBlock(store[p], store[p].mempool \cup {tx}).hash,
                                matchIndexes[p], s, {}, {})
           \/ /\ ~FillsMempool(store[p], tx)
              /\ store' = [store EXCEPT ![p] = s]
              /\ UNCHANGED <<log, commitIndex, matchIndexes, msgs>>
        /\ UNCHANGED <<viewVars, electionVars>>
----------------------------------------------------------------------------
Tick(p) == UpdatePeers(p) \/ IdleTick(p) \/ Heartbeat(p) \/ StartElection(p)

\* ConsensusEngine::on_message
Receive(p, m) ==
    \/ HandleRequestVote(p, m)
    \/ HandleNewerTerm(p, m)
    \/ HandleVote(p, m)
    \/ RejectLeader(p, m)
    \/ RejectEntries(p, m)
    \/ AcceptEntries(p, m)
    \/ HandleAppendEntriesSuccess(p, m)
    \/ HandleAppendEntriesFailure(p, m)
    \/ IgnoreAnswer(p, m)

Next ==
    \E p \in Peers :
        \/ Tick(p)
        \/ \E m \in msgs : Receive(p, m)
        \/ \E tx \in Txs : ClientTransaction(p, tx)

Spec == Init /\ [][Next]_vars

(* Fairness.  Every peer works through its channel.  p ticks for ever, and *)
(* the network between p and q loses messages, but not all of them.        *)

\* p handles a message of q.
Handles(p, q) == \E m \in msgs : m.from = q /\ Receive(p, m)

HeartbeatArrives(p, q) ==
    /\ Heartbeat(p)
    /\ \E m \in msgs' : m.type = "AppendEntries" /\ m.from = p /\ m.to = q

\* q handles an AppendEntries of p and the answer arrives.
Answered(p, q) ==
    /\ \E m \in msgs : m.type = "AppendEntries" /\ m.from = p /\ Receive(q, m)
    /\ \E r \in msgs' :
          r.type = "AppendEntriesResponse" /\ r.from = q /\ r.to = p

Fairness(p, q) ==
    /\ \A r, s \in Peers : WF_vars(Handles(r, s))
    /\ SF_vars(HeartbeatArrives(p, q))
    /\ SF_vars(Answered(p, q))
----------------------------------------------------------------------------
(* Types.                                                                  *)

Message ==
    [type : {"RequestVote"}, from : Peers, to : Peers, term : Nat,
     lastLogIndex : Nat, lastLogTerm : Nat]
    \cup
    [type : {"RequestVoteResponse"}, from : Peers, to : Peers, term : Nat,
     granted : BOOLEAN]
    \cup
    [type : {"AppendEntries"}, from : Peers, to : Peers, term : Nat,
     prevLogIndex : Nat, prevLogTerm : Nat,
     entries : Seq([term : Nat, hash : Hash, index : Nat]), leaderCommit : Nat]
    \cup
    [type : {"AppendEntriesResponse"}, from : Peers, to : Peers, term : Nat,
     success : BOOLEAN, matchIndex : Nat]

\* Every variable keeps its type, and no log is shorter than its commit index.
TypeOK ==
    /\ known \in [Peers -> SUBSET Peers]
    /\ participants \in [Peers -> SUBSET Peers]
    /\ currentTerm \in [Peers -> Nat]
    /\ votedFor \in [Peers -> Peers \cup {None}]
    /\ leaderId \in [Peers -> Peers \cup {None}]
    /\ role \in [Peers -> {"Follower", "Candidate", "Leader"}]
    /\ votesReceived \in [Peers -> SUBSET Peers]
    /\ log \in [Peers -> Seq(LogEntry)]
    /\ commitIndex \in [Peers -> Nat]
    /\ \A p \in Peers : commitIndex[p] <= Len(log[p])
    /\ matchIndexes \in [Peers -> [Peers -> Nat]]
    /\ store \in [Peers -> Store]
    /\ msgs \subseteq Message
----------------------------------------------------------------------------
(* Safety.                                                                 *)

\* A step never takes back a commit: the commit index does not fall and the
\* entries up to it stay, whatever append_entries truncates.
CommittedEntriesStay ==
    [][\A p \in Peers :
          /\ commitIndex'[p] >= commitIndex[p]
          /\ SubSeq(log'[p], 1, commitIndex[p]) = SubSeq(log[p], 1, commitIndex[p])]_vars
----------------------------------------------------------------------------
(* What the effects make of the log.                                       *)

\* Every block file extends the one before it and sits at its index.
ChainLinked ==
    \A p \in Peers : \A i \in DOMAIN store[p].chain :
        LET block == store[p].chain[i]
        IN  /\ block.index = i
            /\ PreviousHash(block) = IF i = 1 THEN EmptyHash
                                     ELSE store[p].chain[i - 1].hash

\* A transaction waiting for the outcome of a block has a block staged: when
\* the last of its blocks is decided it leaves pending_transactions.
PendingIsStaged ==
    \A p \in Peers : \A tx \in store[p].pending :
        \E block \in store[p].uncommitted : tx \in Transactions(block)

\* A leader that reads a successful acknowledgement can rely on the follower
\* holding the blocks acknowledged, staged or on disk.
AckedBlocksHeld ==
    \A m \in msgs :
        m.type = "AppendEntriesResponse" /\ m.success
            /\ m.term = currentTerm[m.from] =>
            \A i \in 1 .. m.matchIndex :
                IsNoop(log[m.from][i]) \/ HasBlock(store[m.from], log[m.from][i].hash)
----------------------------------------------------------------------------
(* Liveness.                                                               *)

\* A leader p that no later election removes brings q to its own log,
\* whatever conflicting suffix q had, and gets all of it committed.
LeaderLogSpreads(p, q) ==
    role[p] = "Leader" /\ currentTerm[p] = MaxTerm
        ~> /\ log[q] = log[p]
           /\ commitIndex[q] = Len(log[p])
=============================================================================
