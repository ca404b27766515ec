----------------------------- MODULE VotingSync ----------------------------
(***************************************************************************)
(* Voting peers that also retrieve missing blocks, and that crash and      *)
(* restart: src/src/synchronization.rs and the event loop of               *)
(* src/src/peer_runtime.rs composed with module Voting.                    *)
(*                                                                         *)
(* A synchronization waits for other peers many times; the peer's event    *)
(* loop waits with it and takes no message meanwhile, while the other      *)
(* peers and this peer's network task go on.  The loop over the missing    *)
(* blocks keeps idx one above the height: only it commits meanwhile.       *)
(* A block file is never rewritten, so the answers to one question about   *)
(* a file are read in one step.                                            *)
(***************************************************************************)
EXTENDS Voting, FiniteSetsExt

CONSTANTS
    SyncPeers,     \* the peers whose sync interval fires
    MaxErrors,     \* errors that end a synchronization: 3 in the code
    MaxAsked,      \* peers asked about one block, at most: 3 in the code
    MaxRestarts    \* bound: restarts of peers

VARIABLES
    sync,       \* the synchronization each peer is in
    restarts    \* how many restarts there were

syncVars == <<vars, sync, restarts>>

ASSUME VotingSyncAssumption ==
    /\ SyncPeers \subseteq Peers
    /\ MaxErrors \in Nat \ {0}
    /\ MaxAsked \in Nat \ {0}
    /\ MaxRestarts \in Nat

\* phase: "running" inside check_and_retrieve_missing_blocks, "panicked" when
\* it brought the peer down; asked: peers whose height is still to come
\* (get_latest_indexes); heights: what the others answered; errors:
\* errors_count.
Synchronization ==
    [phase : {"idle", "running", "panicked"}, asked : SUBSET Peers,
     heights : UNION {[S -> Nat] : S \in SUBSET Peers}, errors : Nat]

NoSync == [phase |-> "idle", asked |-> {}, heights |-> << >>, errors |-> 0]

\* PeersStates::get_peers_for_index
PeersForIndex(heights, idx) == {q \in DOMAIN heights : heights[q] >= idx}

\* PeersStates::get_max_index
MaxIndex(heights) == Max({heights[q] : q \in DOMAIN heights} \cup {0})

\* Faulty variant: as many answers as in a large network.
FixedNumberOfPeers(p) == MaxAsked

\* The number of equal answers get_block_file asks for.
NumberOfPeers(p) ==
    IF Cardinality(known[p]) < MaxAsked THEN Cardinality(known[p]) ELSE MaxAsked

\* A loop over missing blocks that has more to fetch.
IsFetching(p) ==
    /\ sync[p].phase = "running"
    /\ sync[p].asked = {}
    /\ BlockHeight(store[p]) + 1 <= MaxIndex(sync[p].heights)
    /\ sync[p].errors < MaxErrors

\* choose_multiple: as many of the peers that have the block as it can get.
Chosen(p) ==
    LET peers == PeersForIndex(sync[p].heights, BlockHeight(store[p]) + 1)
    IN  {S \in SUBSET peers :
            Cardinality(S) = IF Cardinality(peers) < NumberOfPeers(p)
                             THEN Cardinality(peers) ELSE NumberOfPeers(p)}

\* The questions to the peers S can all be answered, and alike.
AllMatch(p, S) ==
    /\ Cardinality(S) = NumberOfPeers(p)
    /\ S \subseteq known[p] \ Down
    /\ \A q, r \in S : store[q].chain[BlockHeight(store[p]) + 1]
                         = store[r].chain[BlockHeight(store[p]) + 1]
----------------------------------------------------------------------------
SyncInit ==
    /\ Init
    /\ sync = [p \in Peers |-> NoSync]
    /\ restarts = 0

\* The sync interval fires.
StartSync(p) ==
    /\ p \in SyncPeers
    /\ sync[p].phase = "idle"
    /\ sync' = [sync EXCEPT ![p] = [NoSync EXCEPT !.phase = "running",
                                                  !.asked = known[p]]]
    /\ UNCHANGED <<vars, restarts>>

\* q's answer to GetLatestBlockState arrives.
HearState(p, q) ==
    /\ q \in sync[p].asked \ Down
    /\ sync' = [sync EXCEPT
          ![p].asked = @ \ {q},
          ![p].heights = [r \in DOMAIN @ \cup {q} |->
              IF r = q THEN BlockHeight(store[q]) ELSE @[r]]]
    /\ UNCHANGED <<vars, restarts>>

\* q does not answer, or the answer is lost.
MissState(p, q) ==
    /\ q \in sync[p].asked
    /\ Lossy \/ q \in Down
    /\ sync' = [sync EXCEPT ![p].asked = @ \ {q}]
    /\ UNCHANGED <<vars, restarts>>

\* get_block_file finds the chosen peers of one mind, and the block is staged
\* and committed at once (apply_synchronized_block).
FetchBlock(p) ==
    /\ IsFetching(p)
    /\ known[p] # {}
    /\ \E S \in Chosen(p) : \E q \in S :
          LET block == store[q].chain[BlockHeight(store[p]) + 1]
          IN  /\ AllMatch(p, S)
              /\ TRUE \in BlockCanBeAdded(store[p], block)
              /\ store' = [store EXCEPT ![p] =
                    CommitBlock(StageBlock(store[p], block), block.hash)]
              /\ lastCompleted' = [lastCompleted EXCEPT ![p] = block.hash]
    /\ UNCHANGED <<known, votings, msgs, submissions, sync, restarts>>

\* Too few answers, answers that differ, a lost answer, or a block that does
\* not extend the chain.
FailToFetch(p) ==
    /\ IsFetching(p)
    /\ known[p] # {}
    /\ \E S \in Chosen(p) :
          \/ Lossy
          \/ ~AllMatch(p, S)
          \/ \E q \in S : FALSE \in
                BlockCanBeAdded(store[p], store[q].chain[BlockHeight(store[p]) + 1])
    /\ sync' = [sync EXCEPT ![p].errors = @ + 1]
    /\ UNCHANGED <<vars, restarts>>

\* The network task has meanwhile lost sight of every peer: none is chosen,
\* none has to answer, and random_range(0..0) panics.
Panic(p) ==
    /\ IsFetching(p)
    /\ known[p] = {}
    /\ sync' = [sync EXCEPT ![p] = [NoSync EXCEPT !.phase = "panicked"]]
    /\ UNCHANGED <<vars, restarts>>

\* Nothing more to fetch, or too many errors.
EndSync(p) ==
    /\ sync[p].phase = "running"
    /\ sync[p].asked = {}
    /\ ~IsFetching(p)
    /\ sync' = [sync EXCEPT ![p] = NoSync]
    /\ UNCHANGED <<vars, restarts>>

\* run_peer on what is on disk: votings, mempool, staged blocks and balances
\* are gone.
Restart(p) ==
    /\ restarts < MaxRestarts
    /\ restarts' = restarts + 1
    /\ store' = [store EXCEPT ![p] = OpenStore(@.chain)]
    /\ votings' = [votings EXCEPT ![p] = << >>]
    /\ lastCompleted' = [lastCompleted EXCEPT ![p] = EmptyHash]
    /\ sync' = [sync EXCEPT ![p] = NoSync]
    /\ UNCHANGED <<known, msgs, submissions>>

SyncStep(p) ==
    \/ StartSync(p)
    \/ \E q \in Peers : HearState(p, q) \/ MissState(p, q)
    \/ FetchBlock(p)
    \/ FailToFetch(p)
    \/ Panic(p)
    \/ EndSync(p)

\* The event loop takes a message only outside a synchronization.
Handle(p) ==
    /\ sync[p].phase = "idle"
    /\ \/ \E tx \in Txs : ClientTransaction(p, tx)
       \/ \E m \in msgs : Receive(p, m)
    /\ UNCHANGED <<sync, restarts>>

SyncNext ==
    \E p \in Peers \ Down :
        \/ UpdatePeers(p) /\ UNCHANGED <<sync, restarts>>
        \/ Handle(p)
        \/ SyncStep(p)
        \/ Restart(p)

SyncSpec == SyncInit /\ [][SyncNext]_syncVars
----------------------------------------------------------------------------
(* Properties.                                                             *)

\* A step that is no restart keeps what a peer has accepted (AcceptedIsHeld),
\* also when the blocks come from synchronization.
AcceptedIsHeldUntilRestart ==
    [][\A p \in Peers :
          restarts' # restarts
          \/ HeldTransactions(store[p]) \subseteq HeldTransactions(store'[p])]_syncVars

\* The event loop of p never stops taking its sync interval and going on with
\* a synchronization; the other peers answer.
SyncFairness(p) == WF_syncVars(SyncStep(p))
=============================================================================
