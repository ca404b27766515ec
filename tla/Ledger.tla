------------------------------- MODULE Ledger ------------------------------
(***************************************************************************)
(* Balances: TransactionProcessor in src/src/transactions.rs.  A ledger is *)
(*   accounts   an account for each user that ever received a coin,        *)
(*   applied    applied_transactions.                                      *)
(* A transaction is a record; its id stands for the signature in hex, the  *)
(* order of ids for the order of those strings.  Balances have the width   *)
(* of the code's u32: the release build wraps where it says + and is       *)
(* saturating where it says so.                                            *)
(***************************************************************************)
EXTENDS Integers, FiniteSets, SequencesExt

CONSTANTS
    Users,     \* public keys
    Assets,    \* AssetType
    Modulus    \* balances are below it: 2^32 in the code

ASSUME ModulusAssumption == Modulus \in Nat \ {0}

Balance == 0 .. Modulus - 1

Account == [asset : Assets, balance : Balance]

\* to is of no account in an AddCoin.
Transaction ==
    [id : Nat, operation : {"AddCoin", "Send"}, from : Users, to : Users,
     amount : Balance, asset : Assets]

EmptyLedger == [accounts |-> << >>, applied |-> {}]

\* u32 addition in a release build, (b + amount) % Modulus.
WrappingAdd(b, amount) ==
    IF b + amount < Modulus THEN b + amount ELSE b + amount - Modulus

\* Faulty variant: a plain subtraction.
PlainSub(b, amount) == b - amount

SaturatingSub(b, amount) == IF b < amount THEN 0 ELSE b - amount

SetAccount(accounts, user, account) ==
    [u \in DOMAIN accounts \cup {user} |->
        IF u = user THEN account ELSE accounts[u]]

SetBalance(accounts, user, balance) ==
    SetAccount(accounts, user, [accounts[user] EXCEPT !.balance = balance])

\* The user has no account of another asset (AssetMismatch).
AssetMatches(accounts, user, asset) ==
    user \in DOMAIN accounts => accounts[user].asset = asset

\* add_coin, when the asset matches.
Credit(accounts, user, asset, amount) ==
    IF user \in DOMAIN accounts
    THEN SetBalance(accounts, user, WrappingAdd(accounts[user].balance, amount))
    ELSE SetAccount(accounts, user, [asset |-> asset, balance |-> amount])

\* The checks of add_coin and of send_coins, in any order: a failed one leaves
\* the ledger as it was.
IsValid(accounts, tx) ==
    IF tx.operation = "AddCoin"
    THEN AssetMatches(accounts, tx.from, tx.asset)
    ELSE /\ tx.from \in DOMAIN accounts
         /\ accounts[tx.from].asset = tx.asset
         /\ accounts[tx.from].balance >= tx.amount
         /\ AssetMatches(accounts, tx.to, tx.asset)

\* add_coin, or send_coins: debit, then credit.
Perform(accounts, tx) ==
    IF tx.operation = "AddCoin"
    THEN Credit(accounts, tx.from, tx.asset, tx.amount)
    ELSE Credit(SetBalance(accounts, tx.from,
                           accounts[tx.from].balance - tx.amount),
                tx.to, tx.asset, tx.amount)

\* process_transaction: a transaction applied before is Ok and changes
\* nothing, an invalid one is an error and changes nothing.
ProcessTransaction(L, tx) ==
    IF tx \in L.applied \/ ~IsValid(L.accounts, tx) THEN L
    ELSE [accounts |-> Perform(L.accounts, tx), applied |-> L.applied \cup {tx}]

Withdraw(accounts, user, amount) ==
    IF user \notin DOMAIN accounts THEN accounts
    ELSE SetBalance(accounts, user, SaturatingSub(accounts[user].balance, amount))

\* Faulty variant: the recipient loses the coins, the sender does not get them.
UndoWithoutRefund(accounts, tx) ==
    Withdraw(accounts, IF tx.operation = "AddCoin" THEN tx.from ELSE tx.to,
             tx.amount)

\* reverse_add_coin, reverse_send_coins
Undo(accounts, tx) ==
    IF tx.operation = "AddCoin" THEN Withdraw(accounts, tx.from, tx.amount)
    ELSE LET taken == Withdraw(accounts, tx.to, tx.amount)
         IN  IF tx.from \notin DOMAIN taken THEN taken
             ELSE SetBalance(taken, tx.from,
                             WrappingAdd(taken[tx.from].balance, tx.amount))

\* rollback_transaction
RollbackTransaction(L, tx) ==
    IF tx \notin L.applied THEN L
    ELSE [accounts |-> Undo(L.accounts, tx), applied |-> L.applied \ {tx}]

\* apply_block_transactions: what fails is only logged.
ProcessTransactions(L, txs) == FoldLeft(ProcessTransaction, L, txs)

\* Faulty variant: first to last.
RollbackInOrder(L, txs) == FoldLeft(RollbackTransaction, L, txs)

\* rollback_transactions: last to first.
RollbackTransactions(L, txs) ==
    FoldRight(LAMBDA tx, acc : RollbackTransaction(acc, tx), txs, L)
----------------------------------------------------------------------------
\* All coins.
Supply(L) ==
    FoldSet(LAMBDA u, sum : L.accounts[u].balance + sum, 0, DOMAIN L.accounts)

\* The coins of the AddCoin transactions that are applied.
Minted(L) ==
    FoldSet(LAMBDA tx, sum : IF tx.operation = "AddCoin" THEN tx.amount + sum
                             ELSE sum,
            0, L.applied)
=============================================================================
