----------------------------- MODULE Blockchain -----------------------------
(***************************************************************************)
(* One running node: the chain, the mempool, the balances in the database  *)
(* and the wallet, and the threads that work on them.  Users are the       *)
(* threads that run menu commands and API calls, Net is the io_context     *)
(* thread that handles the messages of peers.  Nothing in Blockchain.cpp   *)
(* takes a lock, so the steps of two threads interleave; a thread's step   *)
(* is the work between two points where another thread's work can come in  *)
(* with an effect: the proof of work, every read and write of the balances *)
(* and the check and the debit of the wallet.  The serial node is the      *)
(* instance whose Users and Net are one and the same thread.               *)
(*                                                                         *)
(* The peers are the environment: blocks they mined on blocks they know    *)
(* and transactions that were broadcast, delivered at any time, in any     *)
(* order, and again.                                                       *)
(***************************************************************************)
EXTENDS Ledger

CONSTANTS Me,          \* address of the node's wallet
          Users, Net,  \* the node's threads
          FullNode,    \* nodeType == NodeType::FULL_NODE
          Receivers,   \* addresses the users and the peers pay to
          Amounts,     \* amounts the users enter
          MaxPeerTxs   \* bound: transfers in a block a peer mines

Threads == Users \cup Net

ASSUME BlockchainAssumption ==
    /\ Me \in Addr
    /\ FullNode \in BOOLEAN
    /\ Receivers \subseteq Addr
    /\ Amounts \subseteq Nat
    /\ IsFiniteSet(Users) /\ Users # {}
    /\ MaxPeerTxs \in Nat

VARIABLES
    chain,          \* Blockchain::chain
    mempool,        \* Blockchain::mempool
    balances,       \* the "balance:<address>" keys of the database
    walletBalance,  \* Wallet::balance of the node's wallet
    stored,         \* the "block:<number>" keys of the database
    pc,             \* where each thread is
    job,            \* "mine" or "receive": which call is applying a block
    newBlock,       \* the block a thread is mining or applying
    txIndex,        \* the transaction of newBlock it applies next
    readBal,        \* the two balances processTransaction has read
    newTx,          \* the transaction a thread is sending
    gossipTxs,      \* transactions broadcast by any node
    gossipBlocks    \* blocks broadcast by any node

nodeVars == <<chain, mempool, balances, walletBalance, stored>>
threadVars == <<pc, job, newBlock, txIndex, readBal, newTx>>
vars == <<nodeVars, threadVars, gossipTxs, gossipBlocks>>

Hashes(blocks) == {b.hash : b \in blocks}

\* Proof of work finds a hash no block has yet.
FreshHash == Hash \ Hashes(Elems(chain) \cup gossipBlocks)

\* Bound of the instances with a finite Hash: a proof of work that has started
\* finds its hash.
HashLeft == Cardinality(FreshHash) > Cardinality({t \in Threads : pc[t] = "mining"})

Put(store, b) ==
    [n \in DOMAIN store \cup {b.number} |-> IF n = b.number THEN b ELSE store[n]]

Confirmed == UNION {Elems(b.txs) : b \in Elems(chain)}

\* The locals of a thread that is in no call.
NoBlock == [number |-> 0, prev |-> NoHash, hash |-> NoHash, txs |-> <<>>]
NoTx == EmptyTx(CHOOSE now \in Times : TRUE)
NoneRead == [from |-> 0, to |-> 0]

\* The call a thread is in returns, and its locals go.
Return(t) ==
    /\ pc' = [pc EXCEPT ![t] = "idle"]
    /\ job' = [job EXCEPT ![t] = "none"]
    /\ newBlock' = [newBlock EXCEPT ![t] = NoBlock]
    /\ txIndex' = [txIndex EXCEPT ![t] = 1]
    /\ newTx' = [newTx EXCEPT ![t] = NoTx]
    /\ UNCHANGED readBal

-----------------------------------------------------------------------------
\* A node that has just started with a fresh chain and has called nobody.
FreshNode(now) ==
    /\ chain = <<GenesisBlock(now)>>
    /\ gossipBlocks = {GenesisBlock(now)}
    /\ mempool = <<>>
    /\ balances = [a \in Addr |-> 0]
    /\ walletBalance = 0
    /\ pc = [t \in Threads |-> "idle"]
    /\ job = [t \in Threads |-> "none"]
    /\ newBlock = [t \in Threads |-> NoBlock]
    /\ txIndex = [t \in Threads |-> 1]
    /\ readBal = [t \in Threads |-> NoneRead]
    /\ newTx = [t \in Threads |-> NoTx]
    /\ gossipTxs = {}

\* Its first start: loadFromDatabase has found no block, made the genesis block
\* and saved it.
Init == \E now \in Times : FreshNode(now) /\ stored = [n \in {0} |-> GenesisBlock(now)]

-----------------------------------------------------------------------------
(* mineBlock *)

\* Blocks with at most one transaction; the genesis block is one of them.
EmptyBlockCount == Cardinality({i \in DOMAIN chain : Len(chain[i].txs) <= 1})

\* Mutant: a block takes one pending transaction.
MineFirstOnly(t) ==
    /\ pc[t] = "idle"
    /\ HashLeft
    /\ \E now \in Times :
         newBlock' = [newBlock EXCEPT ![t] =
           [number |-> Len(chain), prev |-> Last(chain).hash, hash |-> NoHash,
            txs |-> Append(IF mempool = <<>> THEN <<>> ELSE <<Head(mempool)>>, Coinbase(Me, now))]]
    /\ pc' = [pc EXCEPT ![t] = "mining"]
    /\ job' = [job EXCEPT ![t] = "mine"]
    /\ UNCHANGED <<nodeVars, txIndex, readBal, newTx, gossipTxs, gossipBlocks>>

\* The call until the Block constructor starts its proof of work.  A refused
\* call throws and leaves no trace.
MineBlock(t) ==
    /\ pc[t] = "idle"
    /\ HashLeft
    /\ FullNode
    /\ ~(mempool = <<>> /\ EmptyBlockCount >= 3)
    /\ \A i \in DOMAIN mempool : VerifyTransactionBalance(balances, mempool[i])
    /\ \E now \in Times :
         newBlock' = [newBlock EXCEPT ![t] =
           [number |-> Len(chain), prev |-> Last(chain).hash, hash |-> NoHash,
            txs |-> Append(mempool, Coinbase(Me, now))]]
    /\ pc' = [pc EXCEPT ![t] = "mining"]
    /\ job' = [job EXCEPT ![t] = "mine"]
    /\ UNCHANGED <<nodeVars, txIndex, readBal, newTx, gossipTxs, gossipBlocks>>

\* The proof of work ends; the block is pushed without another look at the chain.
PushMined(t) ==
    /\ pc[t] = "mining"
    /\ ValidateTransactions(newBlock[t].txs)
    /\ \E h \in FreshHash :
         LET mined == [newBlock[t] EXCEPT !.hash = h]
         IN  /\ newBlock' = [newBlock EXCEPT ![t] = mined]
             /\ chain' = Append(chain, mined)
    /\ txIndex' = [txIndex EXCEPT ![t] = 1]
    /\ pc' = [pc EXCEPT ![t] = "apply"]
    /\ UNCHANGED <<mempool, balances, walletBalance, stored, job, readBal, newTx,
                   gossipTxs, gossipBlocks>>

\* Mutant: a block that fails validation is mined again.
MineAgain(t) ==
    /\ pc[t] = "mining"
    /\ ~ValidateTransactions(newBlock[t].txs)
    /\ UNCHANGED vars

\* "Failed to mine block - invalid transactions".
RefuseMined(t) ==
    /\ pc[t] = "mining"
    /\ ~ValidateTransactions(newBlock[t].txs)
    /\ Return(t)
    /\ UNCHANGED <<nodeVars, gossipTxs, gossipBlocks>>

-----------------------------------------------------------------------------
(* addExistingBlock, called by the handler of a BLOCK message *)

\* Mutant: the previous hash is not compared.
RejectsNumberOnly(b) ==
    \/ b.number = Last(chain).number /\ b.hash # Last(chain).hash
    \/ ~ValidateTransactions(b.txs)

\* The guards of addExistingBlock that throw, and the one that returns early.
Rejects(b) ==
    \/ b.prev # Last(chain).hash /\ b.number # Last(chain).number
    \/ b.number = Last(chain).number /\ b.hash # Last(chain).hash
    \/ ~ValidateTransactions(b.txs)

Repeats(b) ==
    b.number = Last(chain).number /\ b.hash = Last(chain).hash /\ b.prev = Last(chain).prev

ReceiveBlock(t, b) ==
    /\ pc[t] = "idle"
    /\ b.hash \notin Hashes(Elems(chain))
    /\ ~Rejects(b) /\ ~Repeats(b)
    /\ chain' = Append(chain, b)
    /\ newBlock' = [newBlock EXCEPT ![t] = b]
    /\ txIndex' = [txIndex EXCEPT ![t] = 1]
    /\ job' = [job EXCEPT ![t] = "receive"]
    /\ pc' = [pc EXCEPT ![t] = "apply"]
    /\ UNCHANGED <<mempool, balances, walletBalance, stored, readBal, newTx,
                   gossipTxs, gossipBlocks>>

-----------------------------------------------------------------------------
(* updateBalancesForBlock and processTransaction, for both calls *)

CurrentTx(t) == newBlock[t].txs[txIndex[t]]

Applying(t) == pc[t] = "apply" /\ txIndex[t] <= Len(newBlock[t].txs)

ReadBalances(t) ==
    /\ Applying(t)
    /\ VerifyTransactionBalance(balances, CurrentTx(t))
    /\ readBal' = [readBal EXCEPT ![t] =
         [from |-> GetBalance(balances, CurrentTx(t).sender),
          to   |-> GetBalance(balances, CurrentTx(t).receiver)]]
    /\ pc' = [pc EXCEPT ![t] = "write"]
    /\ UNCHANGED <<nodeVars, job, newBlock, txIndex, newTx, gossipTxs, gossipBlocks>>

\* Mutant: the first transaction that cannot be applied ends the update.
SkipRest(t) ==
    /\ Applying(t)
    /\ ~VerifyTransactionBalance(balances, CurrentTx(t))
    /\ txIndex' = [txIndex EXCEPT ![t] = Len(newBlock[t].txs) + 1]
    /\ UNCHANGED <<nodeVars, pc, job, newBlock, readBal, newTx, gossipTxs, gossipBlocks>>

\* "Insufficient funds": the block keeps the transaction, the balances do not.
SkipTransaction(t) ==
    /\ Applying(t)
    /\ ~VerifyTransactionBalance(balances, CurrentTx(t))
    /\ txIndex' = [txIndex EXCEPT ![t] = @ + 1]
    /\ UNCHANGED <<nodeVars, pc, job, newBlock, readBal, newTx, gossipTxs, gossipBlocks>>

\* Mutant: the sender is not debited.
WriteCredit(t) ==
    /\ pc[t] = "write"
    /\ balances' = [WriteBalance(balances, CurrentTx(t), readBal[t].from, readBal[t].to) EXCEPT
                      ![Me] = IF CurrentTx(t).sender = Me THEN readBal[t].from ELSE @]
    /\ readBal' = [readBal EXCEPT ![t] = NoneRead]
    /\ txIndex' = [txIndex EXCEPT ![t] = @ + 1]
    /\ pc' = [pc EXCEPT ![t] = "apply"]
    /\ UNCHANGED <<chain, mempool, walletBalance, stored, job, newBlock, newTx,
                   gossipTxs, gossipBlocks>>

WriteBalances(t) ==
    /\ pc[t] = "write"
    /\ balances' = WriteBalance(balances, CurrentTx(t), readBal[t].from, readBal[t].to)
    /\ readBal' = [readBal EXCEPT ![t] = NoneRead]
    /\ txIndex' = [txIndex EXCEPT ![t] = @ + 1]
    /\ pc' = [pc EXCEPT ![t] = "apply"]
    /\ UNCHANGED <<chain, mempool, walletBalance, stored, job, newBlock, newTx,
                   gossipTxs, gossipBlocks>>

\* The block that is broadcast: the one received, or the one that the chain ends
\* with when mineBlock has returned.
Announced(t) == IF job[t] = "mine" THEN Last(chain) ELSE newBlock[t]

\* Mutant: only mined blocks are saved.
FinishUnsaved(t) ==
    /\ pc[t] = "apply"
    /\ txIndex[t] > Len(newBlock[t].txs)
    /\ walletBalance' = IF job[t] = "mine" THEN balances[Me] ELSE walletBalance
    /\ stored' = IF job[t] = "mine" THEN Put(stored, newBlock[t]) ELSE stored
    /\ mempool' = <<>>
    /\ gossipBlocks' = gossipBlocks \cup {Announced(t)}
    /\ Return(t)
    /\ UNCHANGED <<chain, balances, gossipTxs>>

\* The end of both calls: the miner's wallet takes the balance of the database,
\* the block is saved, the mempool is emptied, and the node broadcasts.
FinishBlock(t) ==
    /\ pc[t] = "apply"
    /\ txIndex[t] > Len(newBlock[t].txs)
    /\ walletBalance' = IF job[t] = "mine" THEN balances[Me] ELSE walletBalance
    /\ stored' = Put(stored, newBlock[t])
    /\ mempool' = <<>>
    /\ gossipBlocks' = gossipBlocks \cup {Announced(t)}
    /\ Return(t)
    /\ UNCHANGED <<chain, balances, gossipTxs>>

-----------------------------------------------------------------------------
(* Transactions *)

InMempool(tx) == tx \in Elems(mempool)

\* Mutant: the pending hashes are not compared.
AddAnyTransaction(tx) ==
    mempool' = IF VerifyTransactionBalance(balances, tx) THEN Append(mempool, tx) ELSE mempool

\* What mempool.push_back at the end of addTransaction leaves.
AddTransaction(tx) ==
    mempool' = IF VerifyTransactionBalance(balances, tx) /\ ~InMempool(tx)
               THEN Append(mempool, tx) ELSE mempool

\* Mutant: the wallet does not compare its balance with the amount.
SendUnchecked(t, to, amount) ==
    /\ pc[t] = "idle"
    /\ amount > 0
    /\ \E now \in Times : newTx' = [newTx EXCEPT ![t] = Transfer(Me, to, amount, now)]
    /\ pc' = [pc EXCEPT ![t] = "signing"]
    /\ UNCHANGED <<nodeVars, job, newBlock, txIndex, readBal, gossipTxs, gossipBlocks>>

\* sendMoney until the transaction is made: the wallet compares the amount with
\* its own idea of the balance.
SendMoney(t, to, amount) ==
    /\ pc[t] = "idle"
    /\ amount > 0 /\ walletBalance >= amount
    /\ \E now \in Times : newTx' = [newTx EXCEPT ![t] = Transfer(Me, to, amount, now)]
    /\ pc' = [pc EXCEPT ![t] = "signing"]
    /\ UNCHANGED <<nodeVars, job, newBlock, txIndex, readBal, gossipTxs, gossipBlocks>>

\* The transaction has been hashed and signed; the debit does not look at the
\* balance again.
DebitWallet(t) ==
    /\ pc[t] = "signing"
    /\ walletBalance' = walletBalance - newTx[t].amount
    /\ pc' = [pc EXCEPT ![t] = "sending"]
    /\ UNCHANGED <<chain, mempool, balances, stored, job, newBlock, txIndex, readBal, newTx,
                   gossipTxs, gossipBlocks>>

\* sendMoney returns false; its callers go on with the empty transaction.
SendMoneyFails(t, amount) ==
    /\ pc[t] = "idle"
    /\ amount = 0 \/ walletBalance < amount
    /\ \E now \in Times : newTx' = [newTx EXCEPT ![t] = EmptyTx(now)]
    /\ pc' = [pc EXCEPT ![t] = "sending"]
    /\ UNCHANGED <<nodeVars, job, newBlock, txIndex, readBal, gossipTxs, gossipBlocks>>

\* The callers of sendMoney: addTransaction, then broadcastTransaction.
SubmitTransaction(t) ==
    /\ pc[t] = "sending"
    /\ AddTransaction(newTx[t])
    /\ gossipTxs' = gossipTxs \cup {newTx[t]}
    /\ Return(t)
    /\ UNCHANGED <<chain, balances, walletBalance, stored, gossipBlocks>>

\* The handler of a TRANSACTION message.
ReceiveTransaction(t, tx) ==
    /\ pc[t] = "idle"
    /\ IsValid(tx)
    /\ ~InMempool(tx)
    /\ AddTransaction(tx)
    /\ UNCHANGED <<chain, balances, walletBalance, stored, threadVars, gossipTxs, gossipBlocks>>

\* Wallet::getBalance (GET /api/wallet, menu option 5) overwrites the wallet's
\* balance with the database's.
ViewWallet(t) ==
    /\ pc[t] = "idle"
    /\ walletBalance' = balances[Me]
    /\ UNCHANGED <<chain, mempool, balances, stored, threadVars, gossipTxs, gossipBlocks>>

-----------------------------------------------------------------------------
(* The peers *)

\* A peer has a block in its chain only when it has received all before it.
Anchored(b) ==
    LET known[c \in gossipBlocks] ==
          c.number = 0 \/ \E p \in gossipBlocks : p.hash = c.prev /\ known[p]
    IN  known[b]

\* The balances of a peer whose chain ends with the block b.
PeerBalances(b) ==
    LET bal[c \in gossipBlocks] ==
          IF c.number = 0 THEN [a \in Addr |-> 0]
          ELSE UpdateBalances(bal[CHOOSE p \in gossipBlocks : p.hash = c.prev], c.txs)
    IN  bal[b]

\* A peer mines a block with n of the transfers it has accepted.
PeerMines(miner, parent, n) ==
    /\ HashLeft
    /\ Anchored(parent)
    /\ \E now \in Times, h \in FreshHash, s \in [1 .. n -> gossipTxs] :
         /\ \A i, j \in 1 .. n : s[i] = s[j] => i = j
         /\ \A i \in 1 .. n :
              IsValid(s[i]) /\ VerifyTransactionBalance(PeerBalances(parent), s[i])
         /\ gossipBlocks' = gossipBlocks \cup
              {[number |-> parent.number + 1, prev |-> parent.hash, hash |-> h,
                txs |-> Append(s, Coinbase(miner, now))]}
    /\ UNCHANGED <<nodeVars, threadVars, gossipTxs>>

\* What a payment to oneself does is the same whoever makes it: the node's own
\* wallet makes it, the peers do not.
PeerSends(from, to, amount) ==
    /\ amount > 0 /\ from # to
    /\ \E now \in Times : gossipTxs' = gossipTxs \cup {Transfer(from, to, amount, now)}
    /\ UNCHANGED <<nodeVars, threadVars, gossipBlocks>>

-----------------------------------------------------------------------------
UserStep(t) ==
    \/ MineBlock(t)
    \/ \E to \in Receivers, amount \in Amounts : SendMoney(t, to, amount)
    \/ \E amount \in Amounts : SendMoneyFails(t, amount)
    \/ ViewWallet(t)

NetStep(t) ==
    \/ \E b \in gossipBlocks : ReceiveBlock(t, b)
    \/ \E tx \in gossipTxs : ReceiveTransaction(t, tx)

\* What a thread that has started a call does next.
Continue(t) ==
    \/ PushMined(t)
    \/ RefuseMined(t)
    \/ ReadBalances(t)
    \/ SkipTransaction(t)
    \/ WriteBalances(t)
    \/ FinishBlock(t)
    \/ DebitWallet(t)
    \/ SubmitTransaction(t)

PeerStep ==
    /\ Net # {}
    /\ \/ \E miner \in Addr \ {Me}, parent \in gossipBlocks, n \in 0 .. MaxPeerTxs :
            PeerMines(miner, parent, n)
       \/ \E from \in Addr \ {Me}, to \in Receivers, amount \in Amounts : PeerSends(from, to, amount)

Next ==
    \/ \E t \in Users : UserStep(t)
    \/ \E t \in Net : NetStep(t)
    \/ \E t \in Threads : Continue(t)
    \/ PeerStep

Spec == Init /\ [][Next]_vars

\* A thread inside a call is scheduled again and again.
FairSpec == Spec /\ \A t \in Threads : WF_vars(Continue(t))
=============================================================================
