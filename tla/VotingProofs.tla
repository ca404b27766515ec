---------------------------- MODULE VotingProofs ----------------------------
(***************************************************************************)
(* What the block keeper and the effects do with transactions, and what    *)
(* follows for peers that vote on blocks, synchronize, crash and restart:  *)
(* for any number of peers, transactions, blocks and messages.             *)
(***************************************************************************)
EXTENDS VotingSync, TLAPS

USE SMTT(30), ZenonT(30)

(* One store.                                                              *)

\* The part of the invariant that concerns one peer's store.
StoreOK(s) ==
    /\ s \in Store
    /\ s.pending \subseteq StagedTransactions(s)
    /\ s.applied \subseteq s.mempool \cup StagedTransactions(s) \cup FileTransactions(s)

\* t has every transaction and every block file s has, and is as good a store.
Continues(s, t) ==
    /\ StoreOK(t)
    /\ HeldTransactions(s) \subseteq HeldTransactions(t)
    /\ DOMAIN s.chain \subseteq DOMAIN t.chain

LEMMA BlockTypes ==
    ASSUME NEW block \in BlockFile
    PROVE  /\ Transactions(block) \in SUBSET Txs
           /\ PreviousHash(block) \in Hash
  <1>1. /\ block.hash \in Seq(SUBSET Txs)
        /\ block.hash # << >>
    BY DEF BlockFile, Hash, EmptyHash
  <1>2. Len(block.hash) \in Nat \ {0}
    BY <1>1
  <1> QED
    BY <1>1, <1>2 DEF Transactions, PreviousHash, Hash

LEMMA NewBlockTypes ==
    ASSUME NEW s \in Store, NEW txs \in SUBSET Txs
    PROVE  /\ NewBlock(s, txs) \in BlockFile
           /\ Transactions(NewBlock(s, txs)) = txs
  <1>1. s.chain \in Seq(BlockFile)
    BY DEF Store
  <1>2. LastCommitedHash(s) \in Seq(SUBSET Txs)
    <2>1. CASE s.chain = << >>
      BY <2>1 DEF LastCommitedHash, EmptyHash
    <2>2. CASE s.chain # << >>
      <3>1. Len(s.chain) \in 1 .. Len(s.chain)
        BY <1>1, <2>2
      <3>2. s.chain[Len(s.chain)] \in BlockFile
        BY <1>1, <3>1
      <3> QED
        BY <2>2, <3>2 DEF LastCommitedHash, BlockHeight, BlockFile, Hash
    <2> QED
      BY <2>1, <2>2
  <1> DEFINE h == LastCommitedHash(s)
  <1> HIDE DEF h
  <1>3. /\ Append(h, txs) \in Seq(SUBSET Txs)
        /\ Append(h, txs) # << >>
        /\ Append(h, txs)[Len(Append(h, txs))] = txs
    BY <1>2 DEF h
  <1>4. Len(s.chain) + 1 \in Nat \ {0}
    BY <1>1
  <1> QED
    BY <1>3, <1>4 DEF NewBlock, BlockHeight, Transactions, BlockFile, Hash,
                      EmptyHash, h

LEMMA InsertTypes ==
    ASSUME NEW s \in Store, NEW block \in BlockFile
    PROVE  LET t == InsertUncommitted(s, block)
           IN  /\ t \in Store
               /\ t.mempool = s.mempool
               /\ t.pending = s.pending
               /\ t.chain = s.chain
               /\ t.applied = s.applied
               /\ StagedTransactions(t) =
                      StagedTransactions(s) \cup Transactions(block)
  <1> DEFINE t == InsertUncommitted(s, block)
  <1>1. /\ t \in Store
        /\ t.mempool = s.mempool
        /\ t.pending = s.pending
        /\ t.chain = s.chain
        /\ t.applied = s.applied
        /\ t.uncommitted = {b \in s.uncommitted : b.hash # block.hash} \cup {block}
    BY DEF InsertUncommitted, Store
  <1> HIDE DEF t
  <1>2. \A b \in s.uncommitted : b.hash = block.hash =>
            Transactions(b) = Transactions(block)
    BY DEF Transactions
  <1>3. StagedTransactions(t) = StagedTransactions(s) \cup Transactions(block)
    BY <1>1, <1>2 DEF StagedTransactions
  <1> QED
    BY <1>1, <1>3 DEF t

LEMMA FilesOfAppend ==
    ASSUME NEW s \in Store, NEW t, NEW block, t.chain = Append(s.chain, block)
    PROVE  FileTransactions(t) = FileTransactions(s) \cup Transactions(block)
  <1>1. s.chain \in Seq(BlockFile)
    BY DEF Store
  <1>2. /\ DOMAIN t.chain = DOMAIN s.chain \cup {Len(s.chain) + 1}
        /\ t.chain[Len(s.chain) + 1] = block
        /\ \A i \in DOMAIN s.chain : t.chain[i] = s.chain[i]
    BY <1>1
  <1> QED
    BY <1>2 DEF FileTransactions

LEMMA FilesOfSame ==
    ASSUME NEW s, NEW t, t.chain = s.chain
    PROVE  FileTransactions(t) = FileTransactions(s)
  BY DEF FileTransactions

\* create_new_block of transactions that leave the mempool.
LEMMA CreateNewBlockOK ==
    ASSUME NEW s \in Store, NEW k \in Store, NEW txs \in SUBSET Txs,
           k.chain = s.chain,
           s.mempool \cup s.pending \subseteq k.mempool \cup k.pending \cup txs,
           k.pending \subseteq StagedTransactions(k),
           k.applied \subseteq k.mempool \cup txs \cup StagedTransactions(k)
                                  \cup FileTransactions(k)
    PROVE  Continues(s, CreateNewBlock(k, txs))
  <1> DEFINE k1    == [k EXCEPT !.pending = @ \cup txs]
             block == NewBlock(k, txs)
             t     == CreateNewBlock(k, txs)
  <1>1. /\ k1 \in Store
        /\ k1.mempool = k.mempool
        /\ k1.pending = k.pending \cup txs
        /\ k1.chain = k.chain
        /\ k1.applied = k.applied
        /\ k1.uncommitted = k.uncommitted
    BY DEF Store
  <1>2. block \in BlockFile /\ Transactions(block) = txs
    BY NewBlockTypes
  <1>3. t = InsertUncommitted(k1, block)
    BY DEF CreateNewBlock
  <1> HIDE DEF k1, block, t
  <1>4. /\ t \in Store
        /\ t.mempool = k1.mempool
        /\ t.pending = k1.pending
        /\ t.chain = k1.chain
        /\ t.applied = k1.applied
        /\ StagedTransactions(t) = StagedTransactions(k1) \cup txs
    BY <1>1, <1>2, <1>3, InsertTypes
  <1>5. StagedTransactions(k1) = StagedTransactions(k)
    BY <1>1 DEF StagedTransactions
  <1>6. /\ FileTransactions(t) = FileTransactions(k)
        /\ FileTransactions(t) = FileTransactions(s)
    BY <1>1, <1>4, FilesOfSame
  <1>7. StoreOK(t)
    BY <1>1, <1>4, <1>5, <1>6 DEF StoreOK
  <1>8. HeldTransactions(s) \subseteq HeldTransactions(t)
    BY <1>1, <1>4, <1>6 DEF HeldTransactions
  <1> QED
    BY <1>1, <1>4, <1>7, <1>8 DEF Continues, t

\* stage_client_transaction keeps what the peer holds.
LEMMA StageClientTransactionOK ==
    ASSUME NEW s, StoreOK(s), NEW tx \in Txs
    PROVE  Continues(s, StageClientTransaction(s, tx))
  <1> DEFINE s1  == [s EXCEPT !.applied = @ \cup {tx}]
             txs == s.mempool \cup {tx}
  <1>1. /\ s \in Store
        /\ s1 \in Store
        /\ s1.mempool = s.mempool
        /\ s1.pending = s.pending
        /\ s1.chain = s.chain
        /\ s1.applied = s.applied \cup {tx}
        /\ s1.uncommitted = s.uncommitted
        /\ txs \in SUBSET Txs
    BY DEF StoreOK, Store
  <1>2. /\ s.pending \subseteq StagedTransactions(s)
        /\ s.applied \subseteq s.mempool \cup StagedTransactions(s)
                                  \cup FileTransactions(s)
    BY DEF StoreOK
  <1>3. CASE FillsMempool(s1, tx)
    <2> DEFINE k == [s1 EXCEPT !.mempool = {}]
    <2>1. StageClientTransaction(s, tx) = CreateNewBlock(k, txs)
      BY <1>1, <1>3 DEF StageClientTransaction, AddTransaction
    <2>2. /\ k \in Store
          /\ k.mempool = {}
          /\ k.pending = s.pending
          /\ k.chain = s.chain
          /\ k.applied = s.applied \cup {tx}
          /\ k.uncommitted = s.uncommitted
      BY <1>1, Zenon DEF Store
    <2> HIDE DEF k
    <2>3. /\ StagedTransactions(k) = StagedTransactions(s)
          /\ FileTransactions(k) = FileTransactions(s)
      BY <2>2 DEF StagedTransactions, FileTransactions
    <2> QED
      BY <1>1, <1>2, <2>1, <2>2, <2>3, CreateNewBlockOK
  <1>4. CASE ~FillsMempool(s1, tx)
    <2> DEFINE t == [s1 EXCEPT !.mempool = @ \cup {tx}]
    <2>1. StageClientTransaction(s, tx) = t
      BY <1>4 DEF StageClientTransaction, AddTransaction
    <2>2. /\ t \in Store
          /\ t.mempool = s.mempool \cup {tx}
          /\ t.pending = s.pending
          /\ t.chain = s.chain
          /\ t.applied = s.applied \cup {tx}
          /\ t.uncommitted = s.uncommitted
      BY <1>1, Zenon DEF Store
    <2> HIDE DEF t
    <2>3. /\ StagedTransactions(t) = StagedTransactions(s)
          /\ FileTransactions(t) = FileTransactions(s)
      BY <2>2 DEF StagedTransactions, FileTransactions
    <2> QED
      BY <1>2, <2>1, <2>2, <2>3 DEF Continues, StoreOK, HeldTransactions
  <1> QED
    BY <1>3, <1>4

\* add_external_block keeps what the peer holds.
LEMMA StageBlockOK ==
    ASSUME NEW s, StoreOK(s), NEW block \in BlockFile
    PROVE  Continues(s, StageBlock(s, block))
  <1> DEFINE T == Transactions(block)
             s1 == [s EXCEPT !.applied = @ \cup T]
             k == [s1 EXCEPT !.mempool = @ \ T, !.pending = @ \cup (s1.mempool \cap T)]
             t == StageBlock(s, block)
  <1>1. T \in SUBSET Txs
    BY BlockTypes
  <1>2. t = InsertUncommitted(k, block)
    BY DEF StageBlock, AddExternalBlock
  <1> HIDE DEF T, t
  <1>3. /\ k \in Store
        /\ k.mempool = s.mempool \ T
        /\ k.pending = s.pending \cup (s.mempool \cap T)
        /\ k.chain = s.chain
        /\ k.applied = s.applied \cup T
        /\ k.uncommitted = s.uncommitted
    BY <1>1, Zenon DEF StoreOK, Store
  <1> HIDE DEF k, s1
  <1>4. /\ StagedTransactions(k) = StagedTransactions(s)
        /\ FileTransactions(k) = FileTransactions(s)
    BY <1>3 DEF StagedTransactions, FileTransactions
  <1>5. /\ t \in Store
        /\ t.mempool = k.mempool
        /\ t.pending = k.pending
        /\ t.chain = k.chain
        /\ t.applied = k.applied
        /\ StagedTransactions(t) = StagedTransactions(k) \cup T
    BY <1>2, <1>3, InsertTypes DEF T
  <1>6. FileTransactions(t) = FileTransactions(s)
    BY <1>3, <1>5, FilesOfSame
  <1>7. /\ s.pending \subseteq StagedTransactions(s)
        /\ s.applied \subseteq s.mempool \cup StagedTransactions(s)
                                  \cup FileTransactions(s)
    BY DEF StoreOK
  <1>8. StoreOK(t)
    BY <1>3, <1>4, <1>5, <1>6, <1>7 DEF StoreOK
  <1>9. HeldTransactions(s) \subseteq HeldTransactions(t)
    BY <1>3, <1>5, <1>6 DEF HeldTransactions
  <1> QED
    BY <1>3, <1>5, <1>8, <1>9 DEF Continues, t

LEMMA StagedIsThere ==
    ASSUME NEW s, NEW hash, IsUncommitted(s, hash)
    PROVE  UncommittedBlock(s, hash) \in s.uncommitted
  BY DEF IsUncommitted, UncommittedBlock

\* A block that leaves uncommited_blocks takes at most its own transactions
\* from the staged ones.
LEMMA StagedWithout ==
    ASSUME NEW s, NEW k, NEW block, k.uncommitted = s.uncommitted \ {block}
    PROVE  StagedTransactions(s) \subseteq
               StagedTransactions(k) \cup Transactions(block)
  BY DEF StagedTransactions

\* commit_block keeps what the peer holds.
LEMMA CommitBlockOK ==
    ASSUME NEW s, StoreOK(s), NEW hash
    PROVE  Continues(s, CommitBlock(s, hash))
  <1>1. CASE ~IsUncommitted(s, hash)
    BY <1>1 DEF CommitBlock, Continues
  <1>2. CASE IsUncommitted(s, hash)
    <2> DEFINE block == UncommittedBlock(s, hash)
               T     == Transactions(block)
               t     == CommitBlock(s, hash)
    <2>1. block \in s.uncommitted
      BY <1>2, StagedIsThere
    <2>2. t = [s EXCEPT !.chain = Append(@, block), !.pending = @ \ T,
                        !.uncommitted = @ \ {block}]
      BY <1>2 DEF CommitBlock
    <2> HIDE DEF block, T, t
    <2>3. s \in Store /\ block \in BlockFile
      BY <2>1 DEF StoreOK, Store
    <2>4. Append(s.chain, block) \in Seq(BlockFile)
      BY <2>3 DEF Store
    <2>5. /\ t \in Store
          /\ t.mempool = s.mempool
          /\ t.pending = s.pending \ T
          /\ t.chain = Append(s.chain, block)
          /\ t.applied = s.applied
          /\ t.uncommitted = s.uncommitted \ {block}
      BY <2>2, <2>3, <2>4, Zenon DEF Store
    <2>6. FileTransactions(t) = FileTransactions(s) \cup T
      BY <2>3, <2>5, FilesOfAppend DEF T
    <2>7. StagedTransactions(s) \subseteq StagedTransactions(t) \cup T
      BY <2>5, StagedWithout DEF T
    <2>8. StoreOK(t)
      BY <2>5, <2>6, <2>7 DEF StoreOK
    <2>9. HeldTransactions(s) \subseteq HeldTransactions(t)
      BY <2>5, <2>6 DEF HeldTransactions
    <2>10. DOMAIN s.chain \subseteq DOMAIN t.chain
      BY <2>3, <2>5 DEF Store
    <2> QED
      BY <2>8, <2>9, <2>10 DEF Continues, t
  <1> QED
    BY <1>1, <1>2

\* A RollbackBlock effect keeps what the peer holds.
LEMMA ExecuteRollbackOK ==
    ASSUME NEW s, StoreOK(s), NEW hash, NEW t \in ExecuteRollback(s, hash)
    PROVE  Continues(s, t)
  <1>1. CASE ~IsUncommitted(s, hash)
    BY <1>1 DEF ExecuteRollback, Continues
  <1>2. CASE IsUncommitted(s, hash)
    <2> DEFINE block   == UncommittedBlock(s, hash)
               T       == Transactions(block)
               s1      == [s EXCEPT !.applied = @ \ T]
               back    == T \cap s1.pending
               dropped == [s1 EXCEPT !.uncommitted = @ \ {block}, !.pending = @ \ back]
    <2>1. block \in s.uncommitted /\ s \in Store
      BY <1>2, StagedIsThere DEF StoreOK
    <2>2. T \in SUBSET Txs
      BY <2>1, BlockTypes DEF Store
    <2>3. s1.uncommitted = s.uncommitted
      BY <2>1 DEF Store
    <2>4. UncommittedBlock(s1, hash) = block
      BY <2>3 DEF UncommittedBlock
    <2>5. t \in RollbackBlock(s1, hash)
      BY <1>2 DEF ExecuteRollback
    <2>6. \/ t = [dropped EXCEPT !.mempool = @ \cup back]
          \/ \E S \in SUBSET back :
                t = CreateNewBlock([dropped EXCEPT !.mempool = back \ S],
                                   s1.mempool \cup S)
      BY <2>4, <2>5, Zenon DEF RollbackBlock
    <2> HIDE DEF block, T
    <2>7. /\ s1.mempool = s.mempool
          /\ s1.pending = s.pending
      BY <2>1 DEF Store
    <2>8. /\ dropped \in Store
          /\ dropped.mempool = s.mempool
          /\ dropped.pending = s.pending \ back
          /\ dropped.chain = s.chain
          /\ dropped.applied = s.applied \ T
          /\ dropped.uncommitted = s.uncommitted \ {block}
          /\ back = T \cap s.pending
          /\ back \in SUBSET Txs
      BY <2>1, <2>2, Zenon DEF Store
    <2> HIDE DEF dropped, back, s1
    <2>9. /\ StagedTransactions(s) \subseteq StagedTransactions(dropped) \cup T
          /\ FileTransactions(dropped) = FileTransactions(s)
      BY <2>8, StagedWithout, FilesOfSame DEF T
    <2>10. /\ s.pending \subseteq StagedTransactions(s)
           /\ s.applied \subseteq s.mempool \cup StagedTransactions(s)
                                     \cup FileTransactions(s)
      BY DEF StoreOK
    <2>11. CASE t = [dropped EXCEPT !.mempool = @ \cup back]
      <3>1. /\ t \in Store
            /\ t.mempool = s.mempool \cup back
            /\ t.pending = s.pending \ back
            /\ t.chain = s.chain
            /\ t.applied = s.applied \ T
            /\ t.uncommitted = dropped.uncommitted
        BY <2>8, <2>11 DEF Store
      <3>2. /\ StagedTransactions(t) = StagedTransactions(dropped)
            /\ FileTransactions(t) = FileTransactions(s)
        BY <3>1, FilesOfSame DEF StagedTransactions
      <3>3. StoreOK(t)
        BY <2>8, <2>9, <2>10, <3>1, <3>2 DEF StoreOK
      <3> QED
        BY <3>1, <3>2, <3>3 DEF Continues, HeldTransactions
    <2>12. ASSUME NEW S \in SUBSET back,
                  t = CreateNewBlock([dropped EXCEPT !.mempool = back \ S],
                                     s1.mempool \cup S)
           PROVE  Continues(s, t)
      <3> DEFINE k   == [dropped EXCEPT !.mempool = back \ S]
                 txs == s.mempool \cup S
      <3>1. /\ k \in Store
            /\ k.mempool = back \ S
            /\ k.pending = s.pending \ back
            /\ k.chain = s.chain
            /\ k.applied = s.applied \ T
            /\ k.uncommitted = dropped.uncommitted
            /\ txs \in SUBSET Txs
        BY <2>1, <2>8 DEF Store
      <3>2. t = CreateNewBlock(k, txs)
        BY <2>7, <2>12
      <3> HIDE DEF k
      <3>3. /\ StagedTransactions(k) = StagedTransactions(dropped)
            /\ FileTransactions(k) = FileTransactions(s)
        BY <3>1, FilesOfSame DEF StagedTransactions
      <3>4. k.pending \subseteq StagedTransactions(k)
        BY <2>8, <2>9, <2>10, <3>1, <3>3
      <3>5. k.applied \subseteq k.mempool \cup txs \cup StagedTransactions(k)
                                   \cup FileTransactions(k)
        BY <2>8, <2>9, <2>10, <3>1, <3>3
      <3>6. s.mempool \cup s.pending \subseteq k.mempool \cup k.pending \cup txs
        BY <3>1
      <3> QED
        BY <2>1, <3>1, <3>2, <3>4, <3>5, <3>6, CreateNewBlockOK
    <2> QED
      BY <2>6, <2>11, <2>12, Zenon
  <1> QED
    BY <1>1, <1>2

LEMMA OpenStoreOK ==
    ASSUME NEW chain \in Seq(BlockFile)
    PROVE  StoreOK(OpenStore(chain))
  BY DEF StoreOK, OpenStore, Store, StagedTransactions, FileTransactions

LEMMA ContinuesTwice ==
    ASSUME NEW r, NEW s, NEW t, Continues(r, s), Continues(s, t)
    PROVE  Continues(r, t)
  BY DEF Continues
----------------------------------------------------------------------------
(* One voting.                                                             *)

\* What TypeOK says of one tally.
TallyOK(v) ==
    /\ v \in VotingConsensus
    /\ v.approvals \cup v.rejections \subseteq v.participants
    /\ v.approvals \cap v.rejections = {}

LEMMA EvaluateTypes ==
    ASSUME NEW total, NEW approvals, NEW rejections
    PROVE  EvaluateOutcome(total, approvals, rejections)
               \in {"None", "Approved", "Rejected"}
  BY DEF EvaluateOutcome

LEMMA CountVoteOK ==
    ASSUME NEW v, TallyOK(v), NEW from \in Peers, NEW approve
    PROVE  TallyOK(CountVote(v, from, approve))
  <1>1. CASE from \in v.approvals \cup v.rejections \/ v.outcome # "None"
    BY <1>1 DEF CountVote
  <1>2. CASE /\ ~(from \in v.approvals \cup v.rejections \/ v.outcome # "None")
             /\ from \notin v.participants
    BY <1>2 DEF CountVote, MakeVote
  <1>3. CASE /\ ~(from \in v.approvals \cup v.rejections \/ v.outcome # "None")
             /\ from \in v.participants
    <2> DEFINE voted == IF approve THEN [v EXCEPT !.approvals = @ \cup {from}]
                        ELSE [v EXCEPT !.rejections = @ \cup {from}]
               out   == EvaluateOutcome(Cardinality(v.participants),
                                        Cardinality(voted.approvals),
                                        Cardinality(voted.rejections))
    <2>1. CountVote(v, from, approve) = [voted EXCEPT !.outcome = out]
      BY <1>3 DEF CountVote, MakeVote
    <2>2. TallyOK(voted)
      <3>1. CASE approve
        BY <1>3, <3>1 DEF TallyOK, VotingConsensus
      <3>2. CASE ~approve
        BY <1>3, <3>2 DEF TallyOK, VotingConsensus
      <3> QED
        BY <3>1, <3>2
    <2>3. out \in {"None", "Approved", "Rejected"}
      BY EvaluateTypes
    <2> HIDE DEF voted, out
    <2> QED
      BY <2>1, <2>2, <2>3 DEF TallyOK, VotingConsensus
  <1> QED
    BY <1>1, <1>2, <1>3

LEMMA CountProposalOK ==
    ASSUME NEW v, TallyOK(v), NEW proposer \in Peers, NEW p \in Peers, NEW valid
    PROVE  TallyOK(CountProposal(v, proposer, p, valid))
  <1> DEFINE first == CountVote(v, proposer, TRUE)
  <1>1. TallyOK(first)
    BY CountVoteOK, Zenon
  <1> HIDE DEF first
  <1>2. TallyOK(CountVote(first, p, valid))
    BY <1>1, CountVoteOK
  <1> QED
    BY <1>1, <1>2, Zenon DEF CountProposal, first
----------------------------------------------------------------------------
(* The steps of voting.                                                    *)

\* The inductive invariant: the types, and every store as the operators leave it.
VotingInv == TypeOK /\ \A p \in Peers : StoreOK(store[p])

LEMMA VotingOnOK ==
    ASSUME TypeOK, NEW p \in Peers, NEW hash
    PROVE  TallyOK(VotingOn(p, hash))
  <1>1. CASE hash \in DOMAIN votings[p]
    BY <1>1 DEF TypeOK, VotingOn, TallyOK
  <1>2. CASE hash \notin DOMAIN votings[p]
    <2>1. known[p] \cup {p} \in SUBSET Peers
      BY DEF TypeOK
    <2> QED
      BY <1>2, <2>1 DEF VotingOn, NewVoting, TallyOK, VotingConsensus
  <1> QED
    BY <1>1, <1>2

\* A step of one peer that keeps its transactions, counts votes as it should
\* and sends well-formed messages.
PeerStep(p) ==
    /\ \E t : store' = [store EXCEPT ![p] = t] /\ Continues(store[p], t)
    /\ \/ votings' = votings
       \/ \E hash \in Hash : \E v :
             /\ TallyOK(v)
             /\ votings' = [votings EXCEPT ![p] =
                   [h \in DOMAIN @ \cup {hash} |-> IF h = hash THEN v ELSE @[h]]]
    /\ \/ lastCompleted' = lastCompleted
       \/ \E hash \in Hash : lastCompleted' = [lastCompleted EXCEPT ![p] = hash]
    /\ msgs' \subseteq msgs \cup Message

LEMMA PeerStepKeeps ==
    ASSUME VotingInv, NEW p \in Peers, PeerStep(p),
           known' \in [Peers -> SUBSET Peers], submissions' \in Nat
    PROVE  /\ VotingInv'
           /\ \A q \in Peers : /\ HeldTransactions(store[q]) \subseteq
                                     HeldTransactions(store'[q])
                               /\ DOMAIN store[q].chain \subseteq
                                     DOMAIN store'[q].chain
  <1>1. PICK t : store' = [store EXCEPT ![p] = t] /\ Continues(store[p], t)
    BY Zenon DEF PeerStep
  <1>2. /\ StoreOK(t)
        /\ t \in Store
        /\ HeldTransactions(store[p]) \subseteq HeldTransactions(t)
        /\ DOMAIN store[p].chain \subseteq DOMAIN t.chain
    BY <1>1 DEF Continues, StoreOK
  <1>3. store \in [Peers -> Store]
    BY DEF VotingInv, TypeOK
  <1>4. /\ store' \in [Peers -> Store]
        /\ store'[p] = t
        /\ \A q \in Peers \ {p} : store'[q] = store[q]
    BY <1>1, <1>2, <1>3
  <1>5. \A q \in Peers : /\ StoreOK(store'[q])
                         /\ HeldTransactions(store[q]) \subseteq
                                HeldTransactions(store'[q])
                         /\ DOMAIN store[q].chain \subseteq DOMAIN store'[q].chain
    BY <1>2, <1>4 DEF VotingInv
  <1>6. /\ DOMAIN votings' = Peers
        /\ \A q \in Peers :
              /\ DOMAIN votings'[q] \subseteq Hash
              /\ \A hash \in DOMAIN votings'[q] : TallyOK(votings'[q][hash])
    <2>1. /\ DOMAIN votings = Peers
          /\ \A q \in Peers :
                /\ DOMAIN votings[q] \subseteq Hash
                /\ \A hash \in DOMAIN votings[q] : TallyOK(votings[q][hash])
      BY DEF VotingInv, TypeOK, TallyOK
    <2>2. CASE votings' = votings
      BY <2>1, <2>2
    <2>3. CASE votings' # votings
      <3>1. PICK hash \in Hash : \E v :
                /\ TallyOK(v)
                /\ votings' = [votings EXCEPT ![p] =
                      [h \in DOMAIN @ \cup {hash} |-> IF h = hash THEN v ELSE @[h]]]
        BY <2>3 DEF PeerStep
      <3>2. PICK v : /\ TallyOK(v)
                     /\ votings' = [votings EXCEPT ![p] =
                           [h \in DOMAIN @ \cup {hash} |->
                               IF h = hash THEN v ELSE @[h]]]
        BY <3>1
      <3>3. /\ DOMAIN votings' = Peers
            /\ \A q \in Peers \ {p} : votings'[q] = votings[q]
            /\ votings'[p] = [h \in DOMAIN votings[p] \cup {hash} |->
                                 IF h = hash THEN v ELSE votings[p][h]]
        BY <2>1, <3>2
      <3> QED
        BY <2>1, <3>1, <3>2, <3>3
    <2> QED
      BY <2>2, <2>3
  <1>7. lastCompleted' \in [Peers -> Hash]
    BY DEF PeerStep, VotingInv, TypeOK
  <1>8. msgs' \subseteq Message
    BY DEF PeerStep, VotingInv, TypeOK
  <1>9. TypeOK'
    BY <1>4, <1>6, <1>7, <1>8 DEF TypeOK, TallyOK
  <1> QED
    BY <1>5, <1>9 DEF VotingInv

LEMMA ExchangeAdds ==
    ASSUME NEW taken, NEW M, M \subseteq Message, Exchange(taken, M)
    PROVE  msgs' \subseteq msgs \cup Message
  BY DEF Exchange

LEMMA BroadcastTypes ==
    ASSUME TypeOK, NEW p \in Peers, NEW body
    PROVE  /\ body \in Txs => Broadcast(p, "Synchronization", body) \subseteq Message
           /\ body \in BlockFile => Broadcast(p, "BlockProposal", body) \subseteq Message
           /\ body \in Hash => /\ Broadcast(p, "BlockApproved", body) \subseteq Message
                               /\ Broadcast(p, "BlockReject", body) \subseteq Message
  <1>1. known[p] \subseteq Peers
    BY DEF TypeOK
  <1> QED
    BY <1>1 DEF Broadcast, Message

\* A vote that is counted, and what follows from an outcome.
LEMMA DecideOK ==
    ASSUME VotingInv, NEW p \in Peers, NEW hash \in Hash, NEW v, TallyOK(v), NEW s,
           Continues(store[p], s), NEW taken, NEW M, M \subseteq Message,
           Decide(p, hash, v, s, taken, M)
    PROVE  PeerStep(p)
  <1>0. TypeOK
    BY DEF VotingInv
  <1>1. votings' = [votings EXCEPT ![p] =
            [h \in DOMAIN @ \cup {hash} |-> IF h = hash THEN v ELSE @[h]]]
    BY DEF Decide
  <1>2. CASE /\ store' = [store EXCEPT ![p] = s]
             /\ UNCHANGED lastCompleted
             /\ Exchange(taken, M)
    <2>1. msgs' \subseteq msgs \cup Message
      BY <1>2, ExchangeAdds
    <2> QED
      BY <1>1, <1>2, <2>1, Zenon DEF PeerStep
  <1>3. CASE /\ store' = [store EXCEPT ![p] = CommitBlock(s, hash)]
             /\ lastCompleted' = [lastCompleted EXCEPT ![p] =
                   IF IsUncommitted(s, hash) THEN hash ELSE @]
             /\ Exchange(taken, M \cup Broadcast(p, "BlockApproved", hash))
    <2>1. M \cup Broadcast(p, "BlockApproved", hash) \subseteq Message
      BY <1>0, BroadcastTypes
    <2>2. msgs' \subseteq msgs \cup Message
      BY <1>3, <2>1, ExchangeAdds
    <2>3. Continues(store[p], CommitBlock(s, hash))
      <3>1. Continues(s, CommitBlock(s, hash))
        BY CommitBlockOK DEF Continues
      <3> QED
        BY <3>1, ContinuesTwice
    <2>4. \E h \in Hash : lastCompleted' = [lastCompleted EXCEPT ![p] = h]
      <3>1. lastCompleted[p] \in Hash
        BY <1>0 DEF TypeOK
      <3> QED
        BY <1>3, <3>1, Zenon
    <2> QED
      BY <1>1, <1>3, <2>2, <2>3, <2>4, Zenon DEF PeerStep
  <1>4. CASE /\ \E t \in ExecuteRollback(s, hash) : store' = [store EXCEPT ![p] = t]
             /\ lastCompleted' = [lastCompleted EXCEPT ![p] = hash]
             /\ Exchange(taken, M \cup Broadcast(p, "BlockReject", hash))
    <2>1. M \cup Broadcast(p, "BlockReject", hash) \subseteq Message
      BY <1>0, BroadcastTypes
    <2>2. msgs' \subseteq msgs \cup Message
      BY <1>4, <2>1, ExchangeAdds
    <2>3. PICK t \in ExecuteRollback(s, hash) : store' = [store EXCEPT ![p] = t]
      BY <1>4, Zenon
    <2>4. Continues(store[p], t)
      <3>1. Continues(s, t)
        BY ExecuteRollbackOK DEF Continues
      <3> QED
        BY <3>1, ContinuesTwice
    <2> QED
      BY <1>1, <1>4, <2>2, <2>3, <2>4, Zenon DEF PeerStep
  <1> QED
    BY <1>2, <1>3, <1>4 DEF Decide

LEMMA StageAndProposeOK ==
    ASSUME VotingInv, NEW p \in Peers, NEW tx \in Txs, NEW taken, NEW M,
           M \subseteq Message, StageAndPropose(p, tx, taken, M)
    PROVE  PeerStep(p)
  <1> DEFINE s     == StageClientTransaction(store[p], tx)
             block == NewBlock(store[p], store[p].mempool \cup {tx})
  <1>0. TypeOK /\ store[p] \in Store /\ StoreOK(store[p])
    BY DEF VotingInv, TypeOK
  <1>1. Continues(store[p], s)
    BY <1>0, StageClientTransactionOK
  <1>2. block \in BlockFile
    <2>1. store[p].mempool \cup {tx} \in SUBSET Txs
      BY <1>0 DEF Store
    <2> QED
      BY <1>0, <2>1, NewBlockTypes
  <1>3. block.hash \in Hash
    BY <1>2 DEF BlockFile
  <1>4. Continues(store[p], CommitBlock(s, block.hash))
    <2>1. Continues(s, CommitBlock(s, block.hash))
      BY <1>1, CommitBlockOK DEF Continues
    <2> QED
      BY <1>1, <2>1, ContinuesTwice
  <1>5. CASE /\ store' = [store EXCEPT ![p] = s]
                \/ store' = [store EXCEPT ![p] = CommitBlock(s, block.hash)]
             /\ Exchange(taken, M)
             /\ UNCHANGED <<votings, lastCompleted>>
    <2> HIDE DEF s, block
    <2>1. msgs' \subseteq msgs \cup Message
      BY <1>5, ExchangeAdds
    <2> QED
      BY <1>1, <1>4, <1>5, <2>1 DEF PeerStep
  <1>6. CASE Decide(p, block.hash, CountVote(VotingOn(p, block.hash), p, TRUE),
                    s, taken, M \cup Broadcast(p, "BlockProposal", block))
    <2> DEFINE v == CountVote(VotingOn(p, block.hash), p, TRUE)
               N == M \cup Broadcast(p, "BlockProposal", block)
    <2> HIDE DEF s, block
    <2>1. TallyOK(v)
      BY <1>0, VotingOnOK, CountVoteOK, Zenon
    <2>2. N \subseteq Message
      BY <1>0, <1>2, BroadcastTypes
    <2>3. Decide(p, block.hash, v, s, taken, N)
      BY <1>6, Zenon
    <2> HIDE DEF v, N
    <2> QED
      BY <1>1, <1>3, <2>1, <2>2, <2>3, DecideOK
  <1> QED
    BY <1>5, <1>6, Zenon DEF StageAndPropose

\* The handlers of messages and client transactions.
LEMMA HandlersOK ==
    ASSUME VotingInv, NEW p \in Peers,
           \/ \E tx \in Txs : ClientTransaction(p, tx)
           \/ \E m \in msgs : Receive(p, m)
    PROVE  PeerStep(p) /\ known' = known /\ submissions' \in Nat
  <1>0. /\ TypeOK
        /\ submissions \in Nat
        /\ msgs \subseteq Message
        /\ store[p] \in Store
        /\ StoreOK(store[p])
    BY DEF VotingInv, TypeOK
  <1>1. ASSUME NEW tx \in Txs, ClientTransaction(p, tx)
        PROVE  PeerStep(p) /\ known' = known /\ submissions' \in Nat
    <2>1. Broadcast(p, "Synchronization", tx) \subseteq Message
      BY <1>0, BroadcastTypes
    <2>2. PeerStep(p)
      BY <1>1, <2>1, StageAndProposeOK DEF ClientTransaction
    <2> QED
      BY <1>0, <1>1, <2>2 DEF ClientTransaction
  <1>2. ASSUME NEW m \in msgs, SynchronizeTransaction(p, m)
        PROVE  PeerStep(p) /\ known' = known /\ submissions' \in Nat
    <2>1. m.body \in Txs
      BY <1>0, <1>2 DEF SynchronizeTransaction, Message
    <2>2. PeerStep(p)
      <3> DEFINE none == {}
      <3>1. /\ StageAndPropose(p, m.body, {m}, none)
            /\ none \subseteq Message
        BY <1>2 DEF SynchronizeTransaction
      <3> HIDE DEF none
      <3> QED
        BY <2>1, <3>1, StageAndProposeOK
    <2> QED
      BY <1>0, <1>2, <2>2 DEF SynchronizeTransaction
  <1>3. ASSUME NEW m \in msgs, ProcessBlockProposal(p, m)
        PROVE  PeerStep(p) /\ known' = known /\ submissions' \in Nat
    <2> DEFINE block    == m.body
               v(valid) == CountProposal(VotingOn(p, block.hash), m.from, p, valid)
               s(valid) == IF valid THEN StageBlock(store[p], block) ELSE store[p]
    <2>1. block \in BlockFile /\ m.from \in Peers
      BY <1>0, <1>3 DEF ProcessBlockProposal, Message
    <2>2. block.hash \in Hash
      BY <2>1 DEF BlockFile
    <2>3. PICK valid \in BlockCanBeAdded(store[p], block) :
              Decide(p, block.hash, v(valid), s(valid), {m}, {})
      BY <1>3 DEF ProcessBlockProposal
    <2>4. TallyOK(v(valid))
      BY <1>0, <2>1, VotingOnOK, CountProposalOK
    <2>5. Continues(store[p], s(valid))
      <3>1. Continues(store[p], StageBlock(store[p], block))
        BY <1>0, <2>1, StageBlockOK
      <3>2. Continues(store[p], store[p])
        BY <1>0 DEF Continues
      <3> QED
        BY <3>1, <3>2
    <2> DEFINE none == {}
    <2>6. /\ Decide(p, block.hash, v(valid), s(valid), {m}, none)
          /\ none \subseteq Message
      BY <2>3
    <2> HIDE DEF block, v, s, none
    <2>7. PeerStep(p)
      BY <2>2, <2>4, <2>5, <2>6, DecideOK
    <2> QED
      BY <1>0, <1>3, <2>7 DEF ProcessBlockProposal
  <1>4. ASSUME NEW m \in msgs, ProcessBlockVote(p, m)
        PROVE  PeerStep(p) /\ known' = known /\ submissions' \in Nat
    <2> DEFINE v == CountVote(VotingOn(p, m.body), m.from, m.type = "BlockApproved")
    <2>1. m.body \in Hash /\ m.from \in Peers
      BY <1>0, <1>4 DEF ProcessBlockVote, Message
    <2>2. TallyOK(v)
      BY <1>0, <2>1, VotingOnOK, CountVoteOK
    <2>3. Continues(store[p], store[p])
      BY <1>0 DEF Continues
    <2> DEFINE none == {}
    <2>4. /\ Decide(p, m.body, v, store[p], {m}, none)
          /\ none \subseteq Message
      BY <1>4 DEF ProcessBlockVote
    <2> HIDE DEF v, none
    <2>5. PeerStep(p)
      BY <2>1, <2>2, <2>3, <2>4, DecideOK
    <2> QED
      BY <1>0, <1>4, <2>5 DEF ProcessBlockVote
  <1>5. ASSUME NEW m \in msgs, IgnoreMessage(p, m)
        PROVE  PeerStep(p) /\ known' = known /\ submissions' \in Nat
    <2>1. Continues(store[p], store[p])
      BY <1>0 DEF Continues
    <2>2. store' = [store EXCEPT ![p] = store[p]]
      BY <1>5, <1>0 DEF IgnoreMessage, TypeOK
    <2>3. msgs' \subseteq msgs \cup Message
      BY <1>5 DEF IgnoreMessage, Exchange
    <2> QED
      BY <1>0, <1>5, <2>1, <2>2, <2>3, Zenon DEF IgnoreMessage, PeerStep
  <1> QED
    BY <1>1, <1>2, <1>3, <1>4, <1>5 DEF Receive

\* Nothing about stores, votings and messages changes.
LEMMA QuietOK ==
    ASSUME VotingInv, known' \in [Peers -> SUBSET Peers],
           UNCHANGED <<votings, store, lastCompleted, msgs, submissions>>
    PROVE  VotingInv'
  BY DEF VotingInv, TypeOK

LEMMA UpdatePeersTypes ==
    ASSUME VotingInv, NEW p \in Peers, UpdatePeers(p)
    PROVE  known' \in [Peers -> SUBSET Peers]
  BY VotingAssumption DEF VotingInv, TypeOK, UpdatePeers

LEMMA InitOK ==
    ASSUME Init
    PROVE  VotingInv
  <1>1. PICK view \in [Peers -> Views] : known = [p \in Peers |-> view[p] \ {p}]
    BY DEF Init
  <1>2. known \in [Peers -> SUBSET Peers]
    BY <1>1, VotingAssumption
  <1>3. << >> \in Seq(BlockFile) /\ << >> \in Hash /\ DOMAIN << >> = {}
    BY DEF Hash
  <1>4. StoreOK(OpenStore(<< >>))
    BY <1>3, OpenStoreOK, Zenon
  <1>5. OpenStore(<< >>) \in Store
    BY <1>4 DEF StoreOK
  <1> QED
    BY <1>2, <1>3, <1>4, <1>5 DEF Init, VotingInv, TypeOK, EmptyHash

LEMMA NextOK ==
    ASSUME VotingInv, [Next]_vars
    PROVE  /\ VotingInv'
           /\ \A q \in Peers : HeldTransactions(store[q]) \subseteq
                                   HeldTransactions(store'[q])
  <1>0. known \in [Peers -> SUBSET Peers]
    BY DEF VotingInv, TypeOK
  <1>1. CASE UNCHANGED vars
    BY <1>0, <1>1, QuietOK DEF vars
  <1>2. ASSUME NEW p \in Peers, UpdatePeers(p)
        PROVE  VotingInv' /\ store' = store
    BY <1>2, UpdatePeersTypes, QuietOK, Zenon DEF UpdatePeers
  <1>3. ASSUME NEW p \in Peers,
               \/ \E tx \in Txs : ClientTransaction(p, tx)
               \/ \E m \in msgs : Receive(p, m)
        PROVE  /\ VotingInv'
               /\ \A q \in Peers : HeldTransactions(store[q]) \subseteq
                                       HeldTransactions(store'[q])
    <2>1. PeerStep(p) /\ known' = known /\ submissions' \in Nat
      BY <1>3, HandlersOK
    <2> QED
      BY <1>0, <2>1, PeerStepKeeps
  <1> QED
    BY <1>1, <1>2, <1>3 DEF Next

\* Every variable keeps its type, tallies included.
THEOREM VotingTypes ==
    Spec => []TypeOK
  <1>1. Init => VotingInv
    BY InitOK
  <1>2. VotingInv /\ [Next]_vars => VotingInv'
    BY NextOK
  <1>3. VotingInv => TypeOK
    BY DEF VotingInv
  <1> QED
    BY <1>1, <1>2, <1>3, PTL DEF Spec

\* rollback_transactions undoes all that a rejected block takes away.
THEOREM AppliedAccounted ==
    Spec => []AppliedIsAccountedFor
  <1>1. Init => VotingInv
    BY InitOK
  <1>2. VotingInv /\ [Next]_vars => VotingInv'
    BY NextOK
  <1>3. VotingInv => AppliedIsAccountedFor
    BY DEF VotingInv, AppliedIsAccountedFor, StoreOK
  <1> QED
    BY <1>1, <1>2, <1>3, PTL DEF Spec

\* pending_transactions holds only what some staged block holds.
THEOREM PendingStaged ==
    Spec => []PendingIsStaged
  <1>1. Init => VotingInv
    BY InitOK
  <1>2. VotingInv /\ [Next]_vars => VotingInv'
    BY NextOK
  <1>3. VotingInv => PendingIsStaged
    BY DEF VotingInv, PendingIsStaged, StoreOK
  <1> QED
    BY <1>1, <1>2, <1>3, PTL DEF Spec

\* No handler drops a transaction that the peer has accepted.
THEOREM AcceptedHeld ==
    Spec => AcceptedIsHeld
  <1>1. Init => VotingInv
    BY InitOK
  <1>2. VotingInv /\ [Next]_vars => VotingInv'
    BY NextOK
  <1>3. VotingInv /\ [Next]_vars =>
            [\A p \in Peers : HeldTransactions(store[p]) \subseteq
                                  HeldTransactions(store'[p])]_vars
    BY NextOK
  <1> QED
    BY <1>1, <1>2, <1>3, PTL DEF Spec, AcceptedIsHeld
----------------------------------------------------------------------------
(* With synchronization and restarts.                                      *)

\* What r, a synchronization, has heard of the other peers' heights is true:
\* files are never removed.
HeardOK(r) ==
    /\ r \in Synchronization
    /\ \A q \in DOMAIN r.heights : 1 .. r.heights[q] \subseteq DOMAIN store[q].chain

SyncInv ==
    /\ VotingInv
    /\ sync \in [Peers -> Synchronization]
    /\ restarts \in Nat
    /\ \A p \in Peers : HeardOK(sync[p])

LEMMA HeightTypes ==
    ASSUME NEW r \in Synchronization
    PROVE  /\ DOMAIN r.heights \subseteq Peers
           /\ \A q \in DOMAIN r.heights : r.heights[q] \in Nat
           /\ r.asked \subseteq Peers
  <1>1. PICK S \in SUBSET Peers : r.heights \in [S -> Nat]
    BY DEF Synchronization
  <1> QED
    BY <1>1 DEF Synchronization

LEMMA NoSyncOK ==
    /\ NoSync \in Synchronization
    /\ DOMAIN NoSync.heights = {}
  <1>1. << >> \in [{} -> Nat]
    OBVIOUS
  <1>2. << >> \in UNION {[S -> Nat] : S \in SUBSET Peers}
    BY <1>1
  <1> QED
    BY <1>2 DEF NoSync, Synchronization

\* A step of p's synchronization, after which it is in r.
LEMMA SyncStepKeeps ==
    ASSUME SyncInv, VotingInv',
           \A q \in Peers : DOMAIN store[q].chain \subseteq DOMAIN store'[q].chain,
           NEW p \in Peers, NEW r, HeardOK(r), sync' = [sync EXCEPT ![p] = r],
           restarts' \in Nat
    PROVE  SyncInv'
  <1>1. \A q \in Peers : HeardOK(sync'[q])
    BY DEF SyncInv
  <1>2. \A q \in Peers : sync'[q] \in Synchronization
    BY <1>1 DEF HeardOK
  <1>3. sync' \in [Peers -> Synchronization]
    BY <1>2 DEF SyncInv
  <1>4. ASSUME NEW q \in Peers
        PROVE  HeardOK(sync[q])'
    <2>1. HeardOK(sync'[q])
      BY <1>1
    <2>2. DOMAIN sync'[q].heights \subseteq Peers
      BY <1>2, HeightTypes
    <2> QED
      BY <2>1, <2>2 DEF HeardOK
  <1> QED
    BY <1>3, <1>4 DEF SyncInv

LEMMA SyncUnchanged ==
    ASSUME SyncInv, VotingInv', sync' = sync, restarts' = restarts,
           \A q \in Peers : DOMAIN store[q].chain \subseteq DOMAIN store'[q].chain
    PROVE  SyncInv'
  <1>1. CASE Peers = {}
    BY <1>1 DEF SyncInv
  <1>2. ASSUME NEW p \in Peers
        PROVE  SyncInv'
    <2>1. /\ HeardOK(sync[p])
          /\ sync' = [sync EXCEPT ![p] = sync[p]]
          /\ restarts' \in Nat
      BY <1>2 DEF SyncInv
    <2> QED
      BY <1>2, <2>1, SyncStepKeeps, Zenon
  <1> QED
    BY <1>1, <1>2

LEMMA ClearedOK ==
    ASSUME NEW phase \in {"idle", "running", "panicked"}, NEW asked \in SUBSET Peers
    PROVE  HeardOK([NoSync EXCEPT !.phase = phase, !.asked = asked])
  <1> DEFINE r == [NoSync EXCEPT !.phase = phase, !.asked = asked]
  <1>1. r \in Synchronization /\ r.heights = NoSync.heights
    BY NoSyncOK, Zenon DEF Synchronization, NoSync
  <1> QED
    BY <1>1, NoSyncOK DEF HeardOK

\* The questions and answers about heights, and the ends of a synchronization.
LEMMA AskingOK ==
    ASSUME SyncInv, NEW p \in Peers,
           \/ StartSync(p)
           \/ \E q \in Peers : HearState(p, q) \/ MissState(p, q)
           \/ FailToFetch(p) \/ Panic(p) \/ EndSync(p)
    PROVE  SyncInv' /\ store' = store
  <1>0. /\ VotingInv
        /\ known[p] \in SUBSET Peers
        /\ HeardOK(sync[p])
        /\ sync[p] \in Synchronization
    BY DEF SyncInv, VotingInv, TypeOK
  <1>1. UNCHANGED vars
    BY Zenon DEF StartSync, HearState, MissState, FailToFetch, Panic, EndSync
  <1>2. VotingInv' /\ store' = store
    BY <1>0, <1>1, QuietOK, Zenon DEF vars, VotingInv, TypeOK
  <1>10. restarts' \in Nat
    BY Zenon DEF SyncInv, StartSync, HearState, MissState, FailToFetch, Panic, EndSync
  <1>3. SUFFICES \E r : HeardOK(r) /\ sync' = [sync EXCEPT ![p] = r]
    BY <1>2, <1>10, SyncStepKeeps, Zenon
  <1>4. CASE StartSync(p)
    <2>1. HeardOK([NoSync EXCEPT !.phase = "running", !.asked = known[p]])
      BY <1>0, ClearedOK, Zenon
    <2> QED
      BY <1>4, <2>1, Zenon DEF StartSync
  <1>5. ASSUME NEW q \in Peers, HearState(p, q)
        PROVE  \E r : HeardOK(r) /\ sync' = [sync EXCEPT ![p] = r]
    <2> DEFINE old == sync[p].heights
               new == [x \in DOMAIN old \cup {q} |->
                          IF x = q THEN BlockHeight(store[q]) ELSE old[x]]
               r == [sync[p] EXCEPT !.asked = @ \ {q}, !.heights = new]
    <2>1. sync' = [sync EXCEPT ![p] = r]
      BY <1>5, Zenon DEF HearState
    <2>2. store[q].chain \in Seq(BlockFile)
      BY <1>0, <1>5 DEF VotingInv, StoreOK, Store
    <2>3. /\ BlockHeight(store[q]) \in Nat
          /\ 1 .. BlockHeight(store[q]) = DOMAIN store[q].chain
      BY <2>2 DEF BlockHeight
    <2>4. DOMAIN new \in SUBSET Peers /\ new \in [DOMAIN new -> Nat]
      BY <1>0, <1>5, <2>3, HeightTypes
    <2>5. new \in UNION {[S -> Nat] : S \in SUBSET Peers}
      BY <2>4, Zenon
    <2>6. r \in Synchronization /\ r.heights = new
      BY <1>0, <2>5, Zenon DEF Synchronization
    <2>7. \A x \in DOMAIN new : 1 .. new[x] \subseteq DOMAIN store[x].chain
      BY <1>0, <2>3 DEF HeardOK
    <2> QED
      BY <2>1, <2>6, <2>7, Zenon DEF HeardOK
  <1>6. ASSUME NEW q \in Peers, MissState(p, q)
        PROVE  \E r : HeardOK(r) /\ sync' = [sync EXCEPT ![p] = r]
    <2> DEFINE r == [sync[p] EXCEPT !.asked = @ \ {q}]
    <2>1. sync' = [sync EXCEPT ![p] = r]
      BY <1>6 DEF MissState
    <2>2. r \in Synchronization /\ r.heights = sync[p].heights
      BY <1>0 DEF Synchronization
    <2> QED
      BY <1>0, <2>1, <2>2, Zenon DEF HeardOK
  <1>7. CASE FailToFetch(p)
    <2> DEFINE r == [sync[p] EXCEPT !.errors = @ + 1]
    <2>1. sync' = [sync EXCEPT ![p] = r]
      BY <1>7 DEF FailToFetch
    <2>2. r \in Synchronization /\ r.heights = sync[p].heights
      BY <1>0 DEF Synchronization
    <2> QED
      BY <1>0, <2>1, <2>2, Zenon DEF HeardOK
  <1>8. CASE Panic(p)
    <2> DEFINE r == [NoSync EXCEPT !.phase = "panicked"]
    <2>1. r \in Synchronization /\ r.heights = NoSync.heights
      BY NoSyncOK, Zenon DEF Synchronization, NoSync
    <2>2. HeardOK(r)
      BY <2>1, NoSyncOK DEF HeardOK
    <2> QED
      BY <1>8, <2>2, Zenon DEF Panic
  <1>9. CASE EndSync(p)
    BY <1>9, NoSyncOK, Zenon DEF EndSync, HeardOK
  <1> QED
    BY <1>4, <1>5, <1>6, <1>7, <1>8, <1>9

\* A fetched block exists at the peer asked for it, hence is a block.
LEMMA FetchBlockOK ==
    ASSUME SyncInv, NEW p \in Peers, FetchBlock(p)
    PROVE  PeerStep(p)
  <1> DEFINE idx      == BlockHeight(store[p]) + 1
             block(q) == store[q].chain[idx]
  <1>1. PICK S \in Chosen(p) : \E q \in S :
           /\ store' = [store EXCEPT ![p] =
                           CommitBlock(StageBlock(store[p], block(q)), block(q).hash)]
           /\ lastCompleted' = [lastCompleted EXCEPT ![p] = block(q).hash]
    BY Zenon DEF FetchBlock
  <1>2. PICK q \in S :
           /\ store' = [store EXCEPT ![p] =
                           CommitBlock(StageBlock(store[p], block(q)), block(q).hash)]
           /\ lastCompleted' = [lastCompleted EXCEPT ![p] = block(q).hash]
    BY <1>1, Zenon
  <1>3. q \in DOMAIN sync[p].heights /\ sync[p].heights[q] >= idx
    BY <1>1, <1>2 DEF Chosen, PeersForIndex
  <1>4. HeardOK(sync[p]) /\ sync[p] \in Synchronization
    BY DEF SyncInv
  <1>5. /\ q \in Peers
        /\ sync[p].heights[q] \in Nat
        /\ 1 .. sync[p].heights[q] \subseteq DOMAIN store[q].chain
    BY <1>3, <1>4, HeightTypes DEF HeardOK
  <1>6. /\ StoreOK(store[p])
        /\ store[p].chain \in Seq(BlockFile)
        /\ store[q].chain \in Seq(BlockFile)
    BY <1>5 DEF SyncInv, VotingInv, StoreOK, Store
  <1>7. idx \in DOMAIN store[q].chain
    BY <1>3, <1>5, <1>6 DEF BlockHeight
  <1>8. block(q) \in BlockFile
    BY <1>6, <1>7
  <1>9. block(q).hash \in Hash
    BY <1>8 DEF BlockFile
  <1> HIDE DEF block, idx
  <1>10. Continues(store[p], StageBlock(store[p], block(q)))
    BY <1>6, <1>8, StageBlockOK
  <1>11. Continues(StageBlock(store[p], block(q)),
                   CommitBlock(StageBlock(store[p], block(q)), block(q).hash))
    BY <1>10, CommitBlockOK DEF Continues
  <1>12. Continues(store[p], CommitBlock(StageBlock(store[p], block(q)), block(q).hash))
    BY <1>10, <1>11, ContinuesTwice, Zenon
  <1>13. votings' = votings /\ msgs' \subseteq msgs \cup Message
    BY DEF FetchBlock
  <1> QED
    BY <1>2, <1>9, <1>12, <1>13, Zenon DEF PeerStep

LEMMA RestartOK ==
    ASSUME SyncInv, NEW p \in Peers, Restart(p)
    PROVE  SyncInv'
  <1>0. VotingInv /\ TypeOK
    BY DEF SyncInv, VotingInv
  <1> DEFINE t == OpenStore(store[p].chain)
  <1>1. store[p].chain \in Seq(BlockFile)
    BY <1>0 DEF VotingInv, StoreOK, Store
  <1>2. StoreOK(t) /\ t \in Store /\ t.chain = store[p].chain
    <2>1. StoreOK(t)
      BY <1>1, OpenStoreOK
    <2>2. t.chain = store[p].chain
      BY DEF OpenStore
    <2> QED
      BY <2>1, <2>2 DEF StoreOK
  <1>3. store' = [store EXCEPT ![p] = t]
    BY DEF Restart
  <1> HIDE DEF t
  <1>4. /\ store' \in [Peers -> Store]
        /\ \A q \in Peers : StoreOK(store'[q])
        /\ \A q \in Peers : DOMAIN store[q].chain \subseteq DOMAIN store'[q].chain
    BY <1>0, <1>2, <1>3 DEF VotingInv, TypeOK
  <1>5. EmptyHash \in Hash
    BY DEF EmptyHash, Hash
  <1>6. lastCompleted' \in [Peers -> Hash]
    BY <1>0, <1>5 DEF Restart, TypeOK
  <1>7. /\ DOMAIN votings' = Peers
        /\ \A q \in Peers \ {p} : votings'[q] = votings[q]
        /\ DOMAIN votings'[p] = {}
    BY <1>0 DEF Restart, TypeOK
  <1>8. \A q \in Peers :
           /\ DOMAIN votings'[q] \subseteq Hash
           /\ \A hash \in DOMAIN votings'[q] :
                 /\ votings'[q][hash] \in VotingConsensus
                 /\ votings'[q][hash].approvals \cup votings'[q][hash].rejections
                       \subseteq votings'[q][hash].participants
                 /\ votings'[q][hash].approvals \cap votings'[q][hash].rejections = {}
    BY <1>0, <1>7 DEF TypeOK
  <1>9. VotingInv'
    BY <1>0, <1>4, <1>6, <1>7, <1>8 DEF Restart, VotingInv, TypeOK
  <1>10. HeardOK(NoSync)
    BY NoSyncOK DEF HeardOK
  <1>11. sync' = [sync EXCEPT ![p] = NoSync]
    BY DEF Restart
  <1>12. restarts' \in Nat
    BY DEF SyncInv, Restart
  <1> QED
    BY <1>4, <1>9, <1>10, <1>11, <1>12, SyncStepKeeps, Zenon

LEMMA SyncInitOK ==
    ASSUME SyncInit
    PROVE  SyncInv
  BY InitOK, NoSyncOK DEF SyncInit, SyncInv, HeardOK

LEMMA SyncNextOK ==
    ASSUME SyncInv, [SyncNext]_syncVars
    PROVE  /\ SyncInv'
           /\ \A q \in Peers :
                 restarts' # restarts
                 \/ HeldTransactions(store[q]) \subseteq HeldTransactions(store'[q])
  <1>0. VotingInv /\ known \in [Peers -> SUBSET Peers] /\ submissions \in Nat
    BY DEF SyncInv, VotingInv, TypeOK
  <1>1. CASE UNCHANGED syncVars
    <2>1. VotingInv'
      BY <1>0, <1>1, QuietOK DEF syncVars, vars
    <2> QED
      BY <1>1, <2>1, SyncUnchanged DEF syncVars, vars
  <1>2. ASSUME NEW p \in Peers, UpdatePeers(p), UNCHANGED <<sync, restarts>>
        PROVE  SyncInv' /\ store' = store
    <2>1. VotingInv' /\ store' = store
      BY <1>0, <1>2, UpdatePeersTypes, QuietOK, Zenon DEF UpdatePeers
    <2> QED
      BY <1>2, <2>1, SyncUnchanged
  <1>3. ASSUME NEW p \in Peers, PeerStep(p), known' = known, submissions' \in Nat,
               sync' = sync, restarts' = restarts
        PROVE  /\ SyncInv'
               /\ \A q \in Peers : HeldTransactions(store[q]) \subseteq
                                       HeldTransactions(store'[q])
    BY <1>0, <1>3, PeerStepKeeps, SyncUnchanged
  <1>4. ASSUME NEW p \in Peers, Handle(p)
        PROVE  /\ PeerStep(p) /\ known' = known /\ submissions' \in Nat
               /\ sync' = sync /\ restarts' = restarts
    BY <1>0, <1>4, HandlersOK DEF Handle
  <1>5. ASSUME NEW p \in Peers, FetchBlock(p)
        PROVE  /\ PeerStep(p) /\ known' = known /\ submissions' \in Nat
               /\ sync' = sync /\ restarts' = restarts
    BY <1>0, <1>5, FetchBlockOK, Zenon DEF FetchBlock
  <1>6. ASSUME NEW p \in Peers, SyncStep(p), ~FetchBlock(p)
        PROVE  SyncInv' /\ store' = store
    BY <1>6, AskingOK DEF SyncStep
  <1>7. ASSUME NEW p \in Peers, Restart(p)
        PROVE  SyncInv' /\ restarts' # restarts
    <2>1. restarts' # restarts
      BY <1>7 DEF Restart, SyncInv
    <2> QED
      BY <1>7, <2>1, RestartOK
  <1> QED
    BY <1>1, <1>2, <1>3, <1>4, <1>5, <1>6, <1>7 DEF SyncNext

\* Only a restart makes a peer forget a transaction it has accepted: neither
\* a handler nor a fetched block does.
THEOREM AcceptedHeldUntilRestart ==
    SyncSpec => AcceptedIsHeldUntilRestart
  <1>1. SyncInit => SyncInv
    BY SyncInitOK
  <1>2. SyncInv /\ [SyncNext]_syncVars => SyncInv'
    BY SyncNextOK
  <1>3. SyncInv /\ [SyncNext]_syncVars =>
            [\A p \in Peers :
                restarts' # restarts
                \/ HeldTransactions(store[p]) \subseteq HeldTransactions(store'[p])
            ]_syncVars
    BY SyncNextOK
  <1> QED
    BY <1>1, <1>2, <1>3, PTL DEF SyncSpec, AcceptedIsHeldUntilRestart
=============================================================================
