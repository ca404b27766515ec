----------------------------- MODULE PeerLedger ----------------------------
(***************************************************************************)
(* Block storage and balances of one peer, changed together by the effects *)
(* of src/src/peer/effects.rs.  Consensus is left open: other peers send   *)
(* blocks, and any staged block may be approved or rejected at any time.   *)
(***************************************************************************)
EXTENDS BlockKeeper, Ledger

CONSTANTS
    MaxStaged,   \* bound: staged blocks
    MaxHeight,   \* bound: block files, and the length of hashes
    MaxSupply    \* bound: no transaction when there are more coins

VARIABLES
    keeper,   \* BlockKeeper
    ledger    \* TransactionProcessor

vars == <<keeper, ledger>>

ASSUME PeerLedgerAssumption ==
    /\ Txs \subseteq Transaction
    /\ \A x, y \in Txs : x.id = y.id => x = y
    /\ MaxStaged \in Nat
    /\ MaxHeight \in Nat
    /\ MaxSupply \in Nat

\* The transactions of a block as it stores them (create_new_block sorts).
Sorted(txs) ==
    [i \in 1 .. Cardinality(txs) |->
        CHOOSE x \in txs : Cardinality({y \in txs : y.id < x.id}) = i - 1]

Init ==
    /\ keeper = [mempool |-> {}, pending |-> {}, uncommitted |-> {},
                 chain |-> << >>]
    /\ ledger = EmptyLedger

\* stage_client_transaction: a transaction that fails is not staged.
ClientTransaction(tx) ==
    LET L == ProcessTransaction(ledger, tx)
    IN  /\ Supply(ledger) <= MaxSupply
        /\ tx \in L.applied
        /\ FillsMempool(keeper, tx) => Cardinality(keeper.uncommitted) < MaxStaged
        /\ ledger' = L
        /\ keeper' = AddTransaction(keeper, tx)

\* The blocks other peers can have made on what is committed or staged here.
ExternalBlocks ==
    LET full == {S \in SUBSET Txs : Cardinality(S) = MempoolSize}
    IN  {NewBlock(keeper, S) : S \in full}
        \cup {[hash |-> Append(b.hash, S), index |-> b.index + 1] :
                 b \in keeper.uncommitted, S \in full}

\* stage_external_block
ReceiveBlock(block) ==
    /\ Supply(ledger) <= MaxSupply
    /\ Cardinality(keeper.uncommitted) < MaxStaged
    /\ Len(block.hash) <= MaxHeight + 1
    /\ TRUE \in BlockCanBeAdded(keeper, block)
    /\ ledger' = ProcessTransactions(ledger, Sorted(Transactions(block)))
    /\ keeper' = AddExternalBlock(keeper, block)

\* ConsensusEffect::CommitBlock
Commit(block) ==
    /\ BlockHeight(keeper) < MaxHeight
    /\ keeper' = CommitBlock(keeper, block.hash)
    /\ UNCHANGED ledger

\* ConsensusEffect::RollbackBlock
Rollback(block) ==
    /\ ledger' = RollbackTransactions(ledger, Sorted(Transactions(block)))
    /\ keeper' \in RollbackBlock(keeper, block.hash)

Next ==
    \/ \E tx \in Txs : ClientTransaction(tx)
    \/ \E block \in ExternalBlocks : ReceiveBlock(block)
    \/ \E block \in keeper.uncommitted : Commit(block) \/ Rollback(block)

Spec == Init /\ [][Next]_vars
----------------------------------------------------------------------------
(* Properties.                                                             *)

\* Accounts hold balances within u32, and nothing else is applied than what
\* was submitted: debits never go below zero, whatever was rolled back.
TypeOK ==
    /\ DOMAIN ledger.accounts \subseteq Users
    /\ \A u \in DOMAIN ledger.accounts : ledger.accounts[u] \in Account
    /\ ledger.applied \subseteq Txs

\* No coin disappears: there are at least the coins of the AddCoin transactions
\* that are applied, although balances are reversed out of order, against later
\* transactions that spent them, and saturate.
NoCoinLost == Supply(ledger) >= Minted(ledger)

\* Every coin comes from an AddCoin that is applied: rolling back a block takes
\* away what it brought.
NoCoinFromNothing == Supply(ledger) <= Minted(ledger)

\* Rolling back a block right after staging it restores every balance, whatever
\* the ledger was and whichever of its transactions failed, if none of them had
\* been applied before.
RollbackUndoesStaging ==
    \A S \in SUBSET (Txs \ ledger.applied) :
        LET staged == ProcessTransactions(ledger, Sorted(S))
            back   == RollbackTransactions(staged, Sorted(S))
        IN  /\ back.applied = ledger.applied
            /\ \A u \in DOMAIN back.accounts :
                  back.accounts[u].balance =
                      IF u \in DOMAIN ledger.accounts
                      THEN ledger.accounts[u].balance ELSE 0
=============================================================================
