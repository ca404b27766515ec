---------------------------- MODULE PeerEffects ----------------------------
(***************************************************************************)
(* What a peer does when consensus asks for it: src/src/peer/effects.rs.   *)
(* A store is a BlockKeeper record with one more field,                    *)
(*   applied   TransactionProcessor::applied_transactions.                 *)
(* Balances are left to module Ledger; here every transaction is valid, so *)
(* applying it only records its id.                                        *)
(*                                                                         *)
(* execute_all runs every effect of the queue, in order, also after one    *)
(* failed.  An effect that can go several ways (the order of a HashMap) is *)
(* a set of stores, so a queue of effects takes a set of stores to a set.  *)
(***************************************************************************)
EXTENDS BlockKeeper

Store == [mempool : SUBSET Txs, pending : SUBSET Txs,
          uncommitted : SUBSET BlockFile, chain : Seq(BlockFile),
          applied : SUBSET Txs]

\* A peer as it starts (PeerEffects::new on BlockKeeper::new): the block files
\* are what is on disk, all that lives in memory is empty.  The processor is
\* empty too: read_state is never called.
OpenStore(chain) ==
    [mempool |-> {}, pending |-> {}, uncommitted |-> {}, chain |-> chain,
     applied |-> {}]

\* process_transaction answers Ok for a transaction already applied, so a
\* transaction seen before enters the mempool again.
StageClientTransaction(s, tx) ==
    AddTransaction([s EXCEPT !.applied = @ \cup {tx}], tx)

\* stage_external_block, and the staging half of apply_synchronized_block.
StageBlock(s, block) ==
    AddExternalBlock([s EXCEPT !.applied = @ \cup Transactions(block)], block)

\* Faulty variant: the block goes, what it applied stays.
RollbackKeepingApplied(s, hash) ==
    IF ~IsUncommitted(s, hash) THEN {s} ELSE RollbackBlock(s, hash)

\* ConsensusEffect::RollbackBlock: a block that is not staged is skipped.
ExecuteRollback(s, hash) ==
    IF ~IsUncommitted(s, hash) THEN {s}
    ELSE LET undone == Transactions(UncommittedBlock(s, hash))
         IN  RollbackBlock([s EXCEPT !.applied = @ \ undone], hash)

\* The outcomes of staging one entry of StageRaftEntries, each a store and
\* whether the loop goes on: it returns at the first block that fails the
\* linkage check.
StageRaftEntry(s, block) ==
    IF IsUncommitted(s, block.hash) THEN {[store |-> s, ok |-> TRUE]}
    ELSE {[store |-> IF ok THEN StageBlock(s, block) ELSE s, ok |-> ok] :
             ok \in BlockCanBeAdded(s, block)}

StageRaftEntries(s, blocks) ==
    LET next(r, block) == IF r.ok THEN StageRaftEntry(r.store, block) ELSE {r}
        after[n \in 0 .. Len(blocks)] ==
            IF n = 0 THEN {[store |-> s, ok |-> TRUE]}
            ELSE UNION {next(r, blocks[n]) : r \in after[n - 1]}
    IN  {r.store : r \in after[Len(blocks)]}

ExecuteRollbacks(s, hashes) ==
    LET after[n \in 0 .. Len(hashes)] ==
            IF n = 0 THEN {s}
            ELSE UNION {ExecuteRollback(t, hashes[n]) : t \in after[n - 1]}
    IN  after[Len(hashes)]

\* CommitBlock effects: one that fails does not stop the next.
ExecuteCommits(s, hashes) ==
    LET after[n \in 0 .. Len(hashes)] ==
            IF n = 0 THEN s ELSE CommitBlock(after[n - 1], hashes[n])
    IN  after[Len(hashes)]
=============================================================================
