---------------------------- MODULE BlockKeeper ----------------------------
(***************************************************************************)
(* Block storage of one peer: src/src/storage.rs.  The operators work on   *)
(* the record that stands for a BlockKeeper,                               *)
(*   mempool      transactions waiting for a block,                        *)
(*   pending      pending_transactions: in some block that is not decided, *)
(*   uncommitted  uncommited_blocks: staged blocks, in memory only,        *)
(*   chain        the block files on disk; file i is chain[i].             *)
(*                                                                         *)
(* Hashing is taken to be collision free: a block's hash is the sequence   *)
(* of transaction sets it extends, so the hash of a block holding txs on   *)
(* top of prev is Append(prev, txs).  The transactions of a block are      *)
(* sorted by id, so the set determines them.  The hash does not cover the  *)
(* block's index, which is a field of its own.                             *)
(***************************************************************************)
EXTENDS Integers, FiniteSets, Sequences

CONSTANTS
    Txs,          \* the signed client transactions
    MempoolSize   \* transactions that make a block

ASSUME MempoolSizeAssumption == MempoolSize \in Nat \ {0}

Hash == Seq(SUBSET Txs)

\* Both "no block yet" and the block hash of a Raft no-op.
EmptyHash == << >>

BlockFile == [hash : Hash \ {EmptyHash}, index : Nat \ {0}]

PreviousHash(block) == SubSeq(block.hash, 1, Len(block.hash) - 1)

Transactions(block) == block.hash[Len(block.hash)]

BlockHeight(k) == Len(k.chain)

LastCommitedHash(k) ==
    IF k.chain = << >> THEN EmptyHash ELSE k.chain[BlockHeight(k)].hash

\* get_uncommited_block(hash).is_some()
IsUncommitted(k, hash) == \E b \in k.uncommitted : b.hash = hash

UncommittedBlock(k, hash) == CHOOSE b \in k.uncommitted : b.hash = hash

\* uncommited_blocks is keyed by hash: an insert replaces.
InsertUncommitted(k, block) ==
    [k EXCEPT !.uncommitted = {b \in @ : b.hash # block.hash} \cup {block}]

\* The block create_new_block makes of txs: on top of the last committed
\* block, whatever else is staged.
NewBlock(k, txs) ==
    [hash |-> Append(LastCommitedHash(k), txs), index |-> BlockHeight(k) + 1]

CreateNewBlock(k, txs) ==
    InsertUncommitted([k EXCEPT !.pending = @ \cup txs], NewBlock(k, txs))

\* TRUE when add_transaction answers NewBlockCreated.
FillsMempool(k, tx) == Cardinality(k.mempool \cup {tx}) >= MempoolSize

AddTransaction(k, tx) ==
    IF FillsMempool(k, tx)
    THEN CreateNewBlock([k EXCEPT !.mempool = {}], k.mempool \cup {tx})
    ELSE [k EXCEPT !.mempool = @ \cup {tx}]

\* Faulty variant: they leave the mempool, and are not pending.
AddExternalBlockForgetting(k, block) ==
    InsertUncommitted([k EXCEPT !.mempool = @ \ Transactions(block)], block)

\* Transactions of the block that were waiting in the mempool become pending.
AddExternalBlock(k, block) ==
    InsertUncommitted(
        [k EXCEPT !.mempool = @ \ Transactions(block),
                  !.pending = @ \cup (k.mempool \cap Transactions(block))],
        block)

\* Faulty variant: the block's transactions stay pending.
CommitBlockKeepingPending(k, hash) ==
    IF ~IsUncommitted(k, hash) THEN k
    ELSE LET block == UncommittedBlock(k, hash)
         IN  [k EXCEPT !.chain = Append(@, block),
                       !.uncommitted = @ \ {block}]

\* Faulty variant: the block is dropped, and no file is written.
CommitBlockWithoutFile(k, hash) ==
    IF ~IsUncommitted(k, hash) THEN k
    ELSE LET block == UncommittedBlock(k, hash)
         IN  [k EXCEPT !.pending = @ \ Transactions(block),
                       !.uncommitted = @ \ {block}]

\* An unknown block is an error and changes nothing.  The file is written at
\* height + 1; neither the block's index nor its previous hash is compared
\* with the chain.
CommitBlock(k, hash) ==
    IF ~IsUncommitted(k, hash) THEN k
    ELSE LET block == UncommittedBlock(k, hash)
         IN  [k EXCEPT !.chain = Append(@, block),
                       !.pending = @ \ Transactions(block),
                       !.uncommitted = @ \ {block}]

\* The keepers rollback_block can leave.  The block's pending transactions go
\* back through add_transaction one by one; when they fill the mempool the
\* first of them, in an order the model leaves open, make a new block, whose
\* NewBlockCreated nobody looks at.  A block holds at most MempoolSize
\* transactions, so this happens at most once.
RollbackBlock(k, hash) ==
    LET block    == UncommittedBlock(k, hash)
        back     == Transactions(block) \cap k.pending
        dropped  == [k EXCEPT !.uncommitted = @ \ {block},
                              !.pending = @ \ back]
        fills(S) == Cardinality(k.mempool \cup S) = MempoolSize
    IN  IF Cardinality(k.mempool \cup back) < MempoolSize
        THEN {[dropped EXCEPT !.mempool = @ \cup back]}
        ELSE {CreateNewBlock([dropped EXCEPT !.mempool = back \ S],
                             k.mempool \cup S) :
                 S \in {T \in SUBSET back : fills(T)}}

\* The answers block_can_be_added may give.  Several staged blocks can have
\* the index before this one's; the code looks at whichever the HashMap
\* yields first.
BlockCanBeAdded(k, block) ==
    LET before == {b \in k.uncommitted : b.index + 1 = block.index}
    IN  IF IsUncommitted(k, block.hash) THEN {FALSE}
        ELSE IF BlockHeight(k) = block.index - 1
        THEN {PreviousHash(block) = LastCommitedHash(k)}
        ELSE IF before = {} THEN {FALSE}
        ELSE {PreviousHash(block) = b.hash : b \in before}

\* A block as send_raft_append_entries finds it: staged, or else on disk.
HasBlock(k, hash) ==
    IsUncommitted(k, hash) \/ \E i \in DOMAIN k.chain : k.chain[i].hash = hash

FindBlock(k, hash) ==
    IF IsUncommitted(k, hash) THEN UncommittedBlock(k, hash)
    ELSE k.chain[CHOOSE i \in DOMAIN k.chain :
                    /\ k.chain[i].hash = hash
                    /\ \A j \in 1 .. i - 1 : k.chain[j].hash # hash]
=============================================================================
