----------------------- MODULE BlockchainSerialProofs -----------------------
(***************************************************************************)
(* Theorems about the serial node: Users and Net are one and the same      *)
(* thread, so a call runs to its end before the next one starts.  This is  *)
(* the assumption Blockchain.cpp is written under; MCBlockchain_race.cfg   *)
(* shows that the first theorem fails without it.  The last ones are about *)
(* what Explorer.tla answers on such a node.                               *)
(***************************************************************************)
EXTENDS Explorer, BlockchainProofs, LedgerProofs

Serial == \A t, u \in Threads : t = u

\* The keys block:0 to block:n-1 hold the first n blocks.
SavedUpTo(n) == [k \in 0 .. n - 1 |-> chain[k + 1]]

Linked ==
    \A i \in 1 .. Len(chain) :
      chain[i].number = i - 1 /\ (i > 1 => chain[i].prev = chain[i - 1].hash)

\* A block in work goes on the last block of the chain.
DraftNext ==
    \A t \in Threads : pc[t] = "mining" =>
      newBlock[t].number = Len(chain) /\ newBlock[t].prev = chain[Len(chain)].hash

\* While a block is applied, it is the last one of the chain and all but it is
\* saved; at every other moment everything is.
Saved ==
    /\ (\A t \in Threads : pc[t] \notin {"apply", "write"}) => stored = SavedUpTo(Len(chain))
    /\ \A t \in Threads : pc[t] \in {"apply", "write"} =>
         stored = SavedUpTo(Len(chain) - 1) /\ newBlock[t] = chain[Len(chain)]

\* A block that is mined holds everything that is pending.
PendingInDraft ==
    \A t \in Threads : pc[t] \in {"mining", "apply", "write"} =>
      job[t] = "receive" \/ Elems(mempool) \subseteq Elems(newBlock[t].txs)

SerialInv == ChainInv /\ Linked /\ DraftNext /\ Saved /\ PendingInDraft

\* A node that has just started is linked, saved and idle.
LEMMA SerialInit == Init => SerialInv
<1> SUFFICES ASSUME Init PROVE SerialInv
  OBVIOUS
<1> USE DEF FreshNode
<1>1. ChainInv
  BY ChainInit
<1>2. PICK now \in Times : Init!(now)
  BY DEF Init
<1>3. Len(chain) = 1 /\ chain[1] = GenesisBlock(now)
  BY <1>2
<1>4. Linked
  BY <1>3 DEF Linked, GenesisBlock
<1>5. DraftNext /\ PendingInDraft
  BY <1>2 DEF DraftNext, PendingInDraft
<1>6. Saved
  <2>1. SavedUpTo(Len(chain)) = [k \in {0} |-> chain[k + 1]]
    BY <1>3 DEF SavedUpTo
  <2>2. stored = SavedUpTo(Len(chain))
    BY <1>2, <1>3, <2>1
  <2> QED
    BY <1>2, <2>2 DEF Saved
<1> QED
  BY <1>1, <1>4, <1>5, <1>6 DEF SerialInv

\* Appending the next block keeps the links.
LEMMA LinkedAppend ==
    ASSUME TypeOK, Linked, NEW b \in Block, chain' = Append(chain, b),
           b.number = Len(chain), b.prev = chain[Len(chain)].hash
    PROVE  /\ Linked'
           /\ chain'[Len(chain')] = b
           /\ SavedUpTo(Len(chain) - 1)' = SavedUpTo(Len(chain))
<1>1. Len(chain) \in Nat \ {0}
  BY LenProperties DEF TypeOK
<1>2. /\ Len(chain') = Len(chain) + 1
      /\ \A i \in 1 .. Len(chain) : chain'[i] = chain[i]
      /\ chain'[Len(chain) + 1] = b
  BY AppendProperties DEF TypeOK
<1>3. Linked'
  <2> SUFFICES ASSUME NEW i \in 1 .. Len(chain')
               PROVE  chain'[i].number = i - 1 /\ (i > 1 => chain'[i].prev = chain'[i - 1].hash)
    BY DEF Linked
  <2>1. CASE i \in 1 .. Len(chain)
    <3>1. i > 1 => i - 1 \in 1 .. Len(chain)
      BY <1>1, <2>1
    <3> QED
      BY <1>2, <2>1, <3>1 DEF Linked
  <2>2. CASE i = Len(chain) + 1
    BY <1>1, <1>2, <2>2
  <2>3. i \in 1 .. Len(chain) \/ i = Len(chain) + 1
    BY <1>1, <1>2
  <2> QED
    BY <2>1, <2>2, <2>3
<1>4. SavedUpTo(Len(chain) - 1)' = SavedUpTo(Len(chain))
  <2>1. Len(chain') - 1 = Len(chain)
    BY <1>1, <1>2
  <2>2. \A k \in 0 .. Len(chain) - 1 : chain'[k + 1] = chain[k + 1]
    BY <1>1, <1>2
  <2>3. [k \in 0 .. Len(chain) - 1 |-> chain'[k + 1]] = [k \in 0 .. Len(chain) - 1 |-> chain[k + 1]]
    BY <2>2
  <2> QED
    BY <2>1, <2>3 DEF SavedUpTo
<1> QED
  BY <1>1, <1>2, <1>3, <1>4

\* Saving the last block of the chain saves the chain.
LEMMA PutLast ==
    ASSUME ChainInv, Linked, stored = SavedUpTo(Len(chain) - 1)
    PROVE  Put(stored, chain[Len(chain)]) = SavedUpTo(Len(chain))
<1> DEFINE n == Len(chain)
<1>1. n \in Nat \ {0}
  BY LenProperties DEF ChainInv, TypeInv, TypeOK
<1>2. chain[n].number = n - 1
  BY <1>1 DEF Linked
<1> HIDE DEF n
<1>3. (0 .. (n - 1) - 1) \cup {n - 1} = 0 .. n - 1
  BY <1>1
<1>4. DOMAIN SavedUpTo(n - 1) = 0 .. (n - 1) - 1
  BY DEF SavedUpTo
<1>5. Put(SavedUpTo(n - 1), chain[n]) =
        [k \in 0 .. n - 1 |-> IF k = n - 1 THEN chain[n] ELSE SavedUpTo(n - 1)[k]]
  BY <1>2, <1>3, <1>4 DEF Put
<1>6. ASSUME NEW k \in 0 .. n - 1
      PROVE  (IF k = n - 1 THEN chain[n] ELSE SavedUpTo(n - 1)[k]) = chain[k + 1]
  <2>1. CASE k = n - 1
    BY <1>1, <2>1
  <2>2. CASE k # n - 1
    BY <1>1, <2>2 DEF SavedUpTo
  <2> QED
    BY <2>1, <2>2
<1>7. Put(SavedUpTo(n - 1), chain[n]) = SavedUpTo(n)
  BY <1>5, <1>6 DEF SavedUpTo
<1> QED
  BY <1>7 DEF n

\* A step of the one thread that leaves the chain and the database alone, and
\* neither starts nor ends the application of a block, keeps the invariant.
LEMMA SerialKept ==
    ASSUME SerialInv, ChainInv', Serial, NEW t \in Threads,
           chain' = chain, stored' = stored,
           newBlock'[t] = newBlock[t], job'[t] = job[t],
           \/ pc'[t] = pc[t] /\ (mempool' = mempool \/ pc[t] = "idle")
           \/ {pc[t], pc'[t]} \subseteq {"idle", "signing", "sending"}
           \/ {pc[t], pc'[t]} \subseteq {"apply", "write"} /\ mempool' = mempool
    PROVE  SerialInv'
<1> USE DEF SerialInv, Serial
<1>1. Linked'
  BY DEF Linked
<1>2. DraftNext'
  BY DEF DraftNext
<1>3. SavedUpTo(Len(chain))' = SavedUpTo(Len(chain))
      /\ SavedUpTo(Len(chain) - 1)' = SavedUpTo(Len(chain) - 1)
  BY DEF SavedUpTo
<1>4. Saved'
  BY <1>3 DEF Saved
<1>5. PendingInDraft'
  BY DEF PendingInDraft
<1> QED
  BY <1>1, <1>2, <1>4, <1>5

\* Every step of the serial node keeps its invariant.
LEMMA SerialStep ==
    ASSUME Serial
    PROVE  SerialInv /\ [Next]_vars => SerialInv'
<1> SUFFICES ASSUME SerialInv, [Next]_vars PROVE SerialInv'
  OBVIOUS
<1>a. ChainInv /\ ChainInv' /\ TypeOK
  BY ChainStep DEF SerialInv, ChainInv, TypeInv
<1>b. Len(chain) \in Nat \ {0} /\ Last(chain) = chain[Len(chain)]
  BY <1>a, LenProperties DEF TypeOK, Last
<1>1. ASSUME NEW t \in Users, MineBlock(t) PROVE SerialInv'
  <2>0. t \in Threads
    BY DEF Threads
  <2>1. PICK now \in Times :
          newBlock' = [newBlock EXCEPT ![t] =
            [number |-> Len(chain), prev |-> Last(chain).hash, hash |-> NoHash,
             txs |-> Append(mempool, Coinbase(Me, now))]]
    BY <1>1 DEF MineBlock
  <2>2. /\ newBlock'[t].number = Len(chain)
        /\ newBlock'[t].prev = chain[Len(chain)].hash
        /\ newBlock'[t].txs = Append(mempool, Coinbase(Me, now))
    BY <1>a, <1>b, <2>0, <2>1 DEF TypeOK
  <2>3. Elems(mempool) \subseteq Elems(Append(mempool, Coinbase(Me, now)))
    BY <1>a, RecordTypes, BlockchainAssumption, AppendElems DEF TypeOK
  <2>4. /\ chain' = chain /\ stored' = stored /\ mempool' = mempool
        /\ pc[t] = "idle" /\ pc'[t] = "mining"
    BY <1>1, <1>a, <2>0 DEF MineBlock, nodeVars, TypeOK
  <2>5. Linked' /\ DraftNext'
    BY <2>0, <2>2, <2>4 DEF SerialInv, Serial, Linked, DraftNext
  <2>6. SavedUpTo(Len(chain))' = SavedUpTo(Len(chain))
    BY <2>4 DEF SavedUpTo
  <2>7. Saved'
    BY <2>0, <2>4, <2>6 DEF SerialInv, Serial, Saved
  <2>8. Elems(mempool)' = Elems(mempool)
    BY <2>4
  <2>9. Elems(newBlock[t].txs)' = Elems(Append(mempool, Coinbase(Me, now)))
    BY <2>2
  <2>10. PendingInDraft'
    BY <2>0, <2>3, <2>8, <2>9 DEF Serial, PendingInDraft
  <2> QED
    BY <1>a, <2>5, <2>7, <2>10 DEF SerialInv
<1>2. ASSUME NEW t \in Users, NEW to \in Receivers, NEW amount \in Amounts,
             SendMoney(t, to, amount)
      PROVE  SerialInv'
  BY <1>2, <1>a, SerialKept DEF SendMoney, TypeOK, Threads, nodeVars
<1>3. ASSUME NEW t \in Users, NEW amount \in Amounts, SendMoneyFails(t, amount)
      PROVE  SerialInv'
  BY <1>3, <1>a, SerialKept DEF SendMoneyFails, TypeOK, Threads, nodeVars
<1>4. ASSUME NEW t \in Users, ViewWallet(t) PROVE SerialInv'
  BY <1>4, <1>a, SerialKept DEF ViewWallet, Threads, threadVars
<1>5. ASSUME NEW t \in Net, NEW b \in gossipBlocks, ReceiveBlock(t, b) PROVE SerialInv'
  <2>0. t \in Threads /\ b \in Block
    BY <1>a DEF Threads, TypeOK
  <2>1. b.prev = chain[Len(chain)].hash /\ b.number = chain[Len(chain)].number + 1
    BY <1>5, <1>a, ReceivedBlock
  <2>2. b.number = Len(chain)
    BY <1>b, <2>1 DEF SerialInv, Linked
  <2>3. chain' = Append(chain, b)
    BY <1>5 DEF ReceiveBlock
  <2>4. /\ Linked'
        /\ chain'[Len(chain')] = b
        /\ SavedUpTo(Len(chain) - 1)' = SavedUpTo(Len(chain))
    BY <1>a, <2>0, <2>1, <2>2, <2>3, LinkedAppend DEF SerialInv
  <2>5. /\ stored' = stored /\ newBlock'[t] = b /\ job'[t] = "receive"
        /\ pc[t] = "idle" /\ pc'[t] = "apply"
    BY <1>5, <1>a, <2>0 DEF ReceiveBlock, TypeOK
  <2>6. DraftNext' /\ PendingInDraft'
    BY <2>0, <2>5 DEF Serial, DraftNext, PendingInDraft
  <2>7. Saved'
    BY <2>0, <2>4, <2>5 DEF SerialInv, Serial, Saved
  <2> QED
    BY <1>a, <2>4, <2>6, <2>7 DEF SerialInv
<1>6. ASSUME NEW t \in Net, NEW tx \in gossipTxs, ReceiveTransaction(t, tx) PROVE SerialInv'
  BY <1>6, <1>a, SerialKept DEF ReceiveTransaction, Threads, threadVars
<1>7. ASSUME NEW t \in Threads, PushMined(t) PROVE SerialInv'
  <2>1. PICK h \in FreshHash :
          /\ newBlock' = [newBlock EXCEPT ![t] = [newBlock[t] EXCEPT !.hash = h]]
          /\ chain' = Append(chain, [newBlock[t] EXCEPT !.hash = h])
    BY <1>7 DEF PushMined
  <2> DEFINE b == [newBlock[t] EXCEPT !.hash = h]
  <2>2. /\ b \in Block
        /\ b.number = newBlock[t].number
        /\ b.prev = newBlock[t].prev /\ b.txs = newBlock[t].txs
    <3>1. newBlock[t] \in Block
      BY <1>a DEF TypeOK
    <3> QED
      BY <3>1 DEF Block, FreshHash
  <2>3. pc[t] = "mining" /\ pc'[t] = "apply" /\ stored' = stored
        /\ mempool' = mempool /\ job'[t] = job[t] /\ newBlock'[t] = b
    BY <1>7, <1>a, <2>1 DEF PushMined, TypeOK
  <2>4. b.number = Len(chain) /\ b.prev = chain[Len(chain)].hash
    BY <2>2, <2>3 DEF SerialInv, DraftNext
  <2>5. chain' = Append(chain, b)
    BY <2>1
  <2> HIDE DEF b
  <2>6. /\ Linked'
        /\ chain'[Len(chain')] = b
        /\ SavedUpTo(Len(chain) - 1)' = SavedUpTo(Len(chain))
    BY <1>a, <2>2, <2>4, <2>5, LinkedAppend DEF SerialInv
  <2>7. DraftNext'
    BY <2>3 DEF Serial, DraftNext
  <2>8. Saved'
    BY <2>3, <2>6 DEF SerialInv, Serial, Saved
  <2>9. PendingInDraft'
    BY <2>2, <2>3 DEF SerialInv, Serial, PendingInDraft
  <2> QED
    BY <1>a, <2>6, <2>7, <2>8, <2>9 DEF SerialInv
<1>8. ASSUME NEW t \in Threads, RefuseMined(t) PROVE SerialInv'
  <2>1. /\ chain' = chain /\ stored' = stored
        /\ pc[t] = "mining" /\ pc'[t] = "idle"
    BY <1>8, <1>a DEF RefuseMined, Return, TypeOK, nodeVars
  <2>2. SavedUpTo(Len(chain))' = SavedUpTo(Len(chain))
    BY <2>1 DEF SavedUpTo
  <2>3. Linked' /\ DraftNext' /\ PendingInDraft'
    BY <2>1 DEF SerialInv, Serial, Linked, DraftNext, PendingInDraft
  <2>4. Saved'
    BY <2>1, <2>2 DEF SerialInv, Serial, Saved
  <2> QED
    BY <1>a, <2>3, <2>4 DEF SerialInv
<1>9. ASSUME NEW t \in Threads, ReadBalances(t) PROVE SerialInv'
  BY <1>9, <1>a, SerialKept DEF ReadBalances, Applying, TypeOK, nodeVars
<1>10. ASSUME NEW t \in Threads, SkipTransaction(t) PROVE SerialInv'
  BY <1>10, <1>a, SerialKept DEF SkipTransaction, nodeVars
<1>11. ASSUME NEW t \in Threads, WriteBalances(t) PROVE SerialInv'
  BY <1>11, <1>a, SerialKept DEF WriteBalances, TypeOK
<1>12. ASSUME NEW t \in Threads, FinishBlock(t) PROVE SerialInv'
  <2>1. /\ chain' = chain
        /\ stored' = Put(stored, newBlock[t])
        /\ pc[t] = "apply" /\ pc'[t] = "idle"
    BY <1>12, <1>a DEF FinishBlock, Return, TypeOK
  <2>2. stored = SavedUpTo(Len(chain) - 1) /\ newBlock[t] = chain[Len(chain)]
    BY <2>1 DEF SerialInv, Saved
  <2>3. SavedUpTo(Len(chain))' = SavedUpTo(Len(chain))
    BY <2>1 DEF SavedUpTo
  <2>4. stored' = SavedUpTo(Len(chain))
    BY <1>a, <2>1, <2>2, PutLast DEF SerialInv
  <2>5. Saved'
    BY <2>1, <2>3, <2>4 DEF Serial, Saved
  <2>6. Linked' /\ DraftNext' /\ PendingInDraft'
    BY <2>1 DEF SerialInv, Serial, Linked, DraftNext, PendingInDraft
  <2> QED
    BY <1>a, <2>5, <2>6 DEF SerialInv
<1>13. ASSUME NEW t \in Threads, SubmitTransaction(t) PROVE SerialInv'
  <2>1. /\ chain' = chain /\ stored' = stored
        /\ pc[t] = "sending" /\ pc'[t] = "idle"
    BY <1>13, <1>a DEF SubmitTransaction, Return, TypeOK
  <2>2. SavedUpTo(Len(chain))' = SavedUpTo(Len(chain))
    BY <2>1 DEF SavedUpTo
  <2>3. Linked' /\ DraftNext' /\ PendingInDraft'
    BY <2>1 DEF SerialInv, Serial, Linked, DraftNext, PendingInDraft
  <2>4. Saved'
    BY <2>1, <2>2 DEF SerialInv, Serial, Saved
  <2> QED
    BY <1>a, <2>3, <2>4 DEF SerialInv
<1>14. ASSUME UNCHANGED <<nodeVars, threadVars>> PROVE SerialInv'
  <2>1. SavedUpTo(Len(chain))' = SavedUpTo(Len(chain))
        /\ SavedUpTo(Len(chain) - 1)' = SavedUpTo(Len(chain) - 1)
    BY <1>14 DEF SavedUpTo, nodeVars
  <2>2. Linked' /\ DraftNext' /\ PendingInDraft'
    BY <1>14 DEF SerialInv, Linked, DraftNext, PendingInDraft, nodeVars, threadVars
  <2>3. Saved'
    BY <1>14, <2>1 DEF SerialInv, Saved, nodeVars, threadVars
  <2> QED
    BY <1>a, <2>2, <2>3 DEF SerialInv
<1>15. PeerStep => UNCHANGED <<nodeVars, threadVars>>
  BY DEF PeerStep, PeerMines, PeerSends
<1>16. ASSUME NEW t \in Threads, DebitWallet(t) PROVE SerialInv'
  BY <1>16, <1>a, SerialKept DEF DebitWallet, TypeOK
<1> QED
  BY <1>1, <1>2, <1>3, <1>4, <1>5, <1>6, <1>7, <1>8, <1>9, <1>10, <1>11, <1>12, <1>13,
     <1>14, <1>15, <1>16
  DEF Next, UserStep, NetStep, Continue, vars

\* Every behaviour of the serial node keeps SerialInv.
LEMMA SerialInvariant ==
    ASSUME Serial
    PROVE  Spec => []SerialInv
<1>1. Init => SerialInv
  BY SerialInit
<1>2. SerialInv /\ [Next]_vars => SerialInv'
  BY SerialStep
<1> QED
  BY <1>1, <1>2, PTL DEF Spec

\* A node whose calls do not overlap links every block to the one before it.
THEOREM SerialChainLinked ==
    ASSUME Serial
    PROVE  Spec => []ChainLinked
<1>1. SerialInv => ChainLinked
  <2> SUFFICES ASSUME SerialInv PROVE ChainLinked
    OBVIOUS
  <2>1. Len(chain) \in Nat \ {0} /\ DOMAIN chain = 1 .. Len(chain)
    BY LenProperties DEF SerialInv, ChainInv, TypeInv, TypeOK
  <2>2. \A i \in 2 .. Len(chain) : i \in 1 .. Len(chain) /\ i > 1
    BY <2>1
  <2> QED
    BY <2>1, <2>2
    DEF SerialInv, ChainInv, Linked, BlocksWellFormed, ChainLinked, IsValidChain
<1> QED
  BY <1>1, SerialInvariant, PTL

\* Between two calls of such a node the database holds exactly its chain.
THEOREM SerialChainStored ==
    ASSUME Serial
    PROVE  Spec => []ChainStored
<1>1. SerialInv => ChainStored
  BY DEF SerialInv, Saved, SavedUpTo, ChainStored, Idle
<1> QED
  BY <1>1, SerialInvariant, PTL

\* Mining on such a node loses no pending transaction.
THEOREM SerialMiningKeepsPending ==
    ASSUME Serial
    PROVE  Spec => MiningKeepsPending
<1> DEFINE Kept ==
      \/ \A tx \in Elems(mempool) : tx \in Elems(mempool') \/ tx \in Confirmed'
      \/ \E t \in Threads : job[t] = "receive" /\ pc[t] # "idle" /\ pc'[t] = "idle"
<1>1. SerialInv /\ [Next]_vars => [Kept]_vars
  <2> SUFFICES ASSUME SerialInv, [Next]_vars PROVE Kept \/ UNCHANGED vars
    OBVIOUS
  <2>a. TypeOK /\ AppliedInChain
    BY DEF SerialInv, ChainInv, TypeInv
  <2>1. CASE mempool' = mempool
    BY <2>1
  <2>2. ASSUME NEW tx \in Tx, AddTransaction(tx) PROVE Kept
    <3>1. mempool' = mempool \/ mempool' = Append(mempool, tx)
      BY <2>2 DEF AddTransaction
    <3>2. Elems(mempool) \subseteq Elems(Append(mempool, tx))
      BY <2>a, AppendElems DEF TypeOK
    <3> QED
      BY <3>1, <3>2
  <2>3. ASSUME NEW t \in Threads, FinishBlock(t) PROVE Kept
    <3>1. /\ chain' = chain /\ pc[t] = "apply" /\ pc'[t] = "idle"
          /\ newBlock[t] \in Elems(chain)
      BY <2>3, <2>a DEF FinishBlock, Return, TypeOK, AppliedInChain
    <3>2. CASE job[t] = "receive"
      BY <3>1, <3>2
    <3>3. CASE Elems(mempool) \subseteq Elems(newBlock[t].txs)
      <4>1. Elems(newBlock[t].txs) \subseteq Confirmed'
        BY <3>1 DEF Confirmed
      <4> QED
        BY <3>3, <4>1
    <3> QED
      BY <3>1, <3>2, <3>3 DEF SerialInv, PendingInDraft
  <2>4. \A t \in Threads : SubmitTransaction(t) => AddTransaction(newTx[t]) /\ newTx[t] \in Tx
    BY <2>a DEF SubmitTransaction, TypeOK
  <2>5. \A t \in Threads, tx \in gossipTxs :
          ReceiveTransaction(t, tx) => AddTransaction(tx) /\ tx \in Tx
    BY <2>a DEF ReceiveTransaction, TypeOK
  <2>6. \/ mempool' = mempool
        \/ \E t \in Threads : FinishBlock(t) \/ SubmitTransaction(t)
        \/ \E t \in Net, tx \in gossipTxs : ReceiveTransaction(t, tx)
    BY DEF Next, UserStep, NetStep, Continue, PeerStep, MineBlock, SendMoney, SendMoneyFails,
           ViewWallet, ReceiveBlock, PushMined, RefuseMined, ReadBalances, SkipTransaction,
           WriteBalances, DebitWallet, PeerMines, PeerSends, vars, nodeVars
  <2> QED
    BY <2>1, <2>2, <2>3, <2>4, <2>5, <2>6 DEF Threads
<1>2. MiningKeepsPending <=> [][Kept]_vars
  BY DEF MiningKeepsPending
<1> QED
  BY <1>1, <1>2, SerialInvariant, PTL DEF Spec

-----------------------------------------------------------------------------
(* Balances are a replay of the chain *)

Busy(t) == pc[t] \in {"apply", "write"}

\* The balances of the chain c when k transactions of the block b after it have
\* been processed.
ReplayOf(c, b, k) == UpdateBalances(Rebuild(c), SubSeq(b.txs, 1, k))

\* What a thread is about to write is what processTransaction computes from the
\* balances as they are.
ReadIsFresh(t) ==
    /\ VerifyTransactionBalance(balances, CurrentTx(t))
    /\ readBal[t] = [from |-> GetBalance(balances, CurrentTx(t).sender),
                     to   |-> GetBalance(balances, CurrentTx(t).receiver)]

\* The block in work is the last one, applied up to the transaction in work.
AppliedSoFar(t) ==
    /\ txIndex[t] \in 1 .. Len(newBlock[t].txs) + 1
    /\ \E c \in Seq(Block) :
         chain = Append(c, newBlock[t]) /\ balances = ReplayOf(c, newBlock[t], txIndex[t] - 1)

Replayed ==
    /\ (\A t \in Threads : ~Busy(t)) => balances = Rebuild(chain)
    /\ \A t \in Threads : Busy(t) => AppliedSoFar(t)
    /\ \A t \in Threads : pc[t] = "write" => ReadIsFresh(t)

ReplayInv == SerialInv /\ BalanceInv /\ Replayed

LEMMA ReplayInit == Init => ReplayInv
<1> SUFFICES ASSUME Init PROVE ReplayInv
  OBVIOUS
<1>1. PICK now \in Times : FreshNode(now)
  BY DEF Init
<1>2. balances = Rebuild(chain)
  BY <1>1, RebuildGenesis DEF FreshNode, Zero
<1>3. Replayed
  BY <1>1, <1>2 DEF Replayed, Busy, FreshNode
<1> QED
  BY <1>3, SerialInit, BalanceInit DEF ReplayInv

\* A step that leaves the chain and the balances alone, and neither starts nor
\* ends a block.
LEMMA ReplayedKept ==
    ASSUME Replayed, Serial, NEW t \in Threads,
           chain' = chain, balances' = balances,
           \/ ~Busy(t) /\ ~Busy(t)'
           \/ pc[t] = "apply" /\ pc'[t] = "apply" /\ newBlock'[t] = newBlock[t] /\ txIndex'[t] = txIndex[t]
    PROVE  Replayed'
<1>1. \A u \in Threads : u = t
  BY DEF Serial
<1>2. CASE ~Busy(t) /\ ~Busy(t)'
  <2>1. pc'[t] # "write"
    BY <1>2 DEF Busy
  <2> QED BY <1>1, <1>2, <2>1 DEF Replayed
<1>3. CASE pc[t] = "apply" /\ pc'[t] = "apply" /\ newBlock'[t] = newBlock[t] /\ txIndex'[t] = txIndex[t]
  <2>1. AppliedSoFar(t)
    BY <1>3 DEF Replayed, Busy
  <2>2. AppliedSoFar(t)'
    BY <1>3, <2>1 DEF AppliedSoFar
  <2> QED BY <1>1, <1>3, <2>2 DEF Replayed, Busy
<1> QED BY <1>2, <1>3

\* A block has just been put on the chain.
LEMMA ReplayedPushed ==
    ASSUME TypeOK, BalanceInv, Replayed, Serial, NEW t \in Threads, ~Busy(t), NEW b \in Block,
           chain' = Append(chain, b), balances' = balances,
           newBlock'[t] = b, txIndex'[t] = 1, pc'[t] = "apply"
    PROVE  Replayed'
<1>1. \A u \in Threads : u = t
  BY DEF Serial
<1>2. balances = Rebuild(chain) /\ chain \in Seq(Block) /\ balances \in Balances
  <2>1. balances = Rebuild(chain)
    BY <1>1 DEF Replayed
  <2> QED BY <2>1, RebuildType DEF TypeOK
<1>3. SubSeq(b.txs, 1, 0) = <<>>
  <2>1. 1 \in Int /\ 0 \in Int /\ 0 < 1
    OBVIOUS
  <2> QED BY <2>1, SubSeqEmpty
<1>4. balances = ReplayOf(chain, b, 0)
  BY <1>2, <1>3, UpdateBalancesEmpty DEF ReplayOf
<1>5. Len(b.txs) \in Nat
  BY LenProperties DEF Block
<1>6. AppliedSoFar(t)'
  <2>1. txIndex'[t] \in 1 .. Len(newBlock'[t].txs) + 1 /\ txIndex'[t] - 1 = 0
    BY <1>5
  <2> QED BY <1>2, <1>4, <2>1 DEF AppliedSoFar
<1> QED BY <1>1, <1>6 DEF Replayed, Busy

\* The transaction in work has been processed.
LEMMA ReplayedNext ==
    ASSUME TypeOK, Replayed, Serial, NEW t \in Threads, Busy(t),
           txIndex[t] <= Len(newBlock[t].txs),
           chain' = chain, balances' = ProcessTransaction(balances, CurrentTx(t)),
           newBlock'[t] = newBlock[t], txIndex'[t] = txIndex[t] + 1, pc'[t] = "apply"
    PROVE  Replayed'
<1>1. \A u \in Threads : u = t
  BY DEF Serial
<1> DEFINE i == txIndex[t]
           txs == newBlock[t].txs
<1>2. PICK c \in Seq(Block) : chain = Append(c, newBlock[t]) /\ balances = ReplayOf(c, newBlock[t], i - 1)
  BY DEF Replayed, AppliedSoFar
<1>3. txs \in Seq(Tx) /\ Len(txs) \in Nat /\ i \in 1 .. Len(txs) /\ CurrentTx(t) = txs[i]
  BY LenProperties DEF TypeOK, Block, CurrentTx
<1>4. balances' = ReplayOf(c, newBlock[t], i)
  <2>1. Rebuild(c) \in Balances
    BY RebuildType
  <2> HIDE DEF i, txs
  <2>2. UpdateBalances(Rebuild(c), SubSeq(txs, 1, i))
          = ProcessTransaction(UpdateBalances(Rebuild(c), SubSeq(txs, 1, i - 1)), txs[i])
    BY <1>3, <2>1, UpdateBalancesNext
  <2> QED BY <1>2, <1>3, <2>2 DEF ReplayOf, i, txs
<1>5. AppliedSoFar(t)'
  <2>1. txIndex'[t] \in 1 .. Len(newBlock'[t].txs) + 1 /\ txIndex'[t] - 1 = i
    BY <1>3
  <2> QED BY <1>2, <1>4, <2>1 DEF AppliedSoFar
<1> QED BY <1>1, <1>5 DEF Replayed, Busy

LEMMA ReplayStep ==
    ASSUME Serial
    PROVE  ReplayInv /\ [Next]_vars => ReplayInv'
<1> SUFFICES ASSUME ReplayInv, [Next]_vars PROVE Replayed'
  BY SerialStep, BalanceStep DEF ReplayInv
<1>a. TypeOK /\ BalanceInv /\ Replayed /\ InBlock /\ SerialInv /\ ChainInv
  BY DEF ReplayInv, SerialInv, ChainInv, TypeInv
<1>1. ASSUME NEW t \in Users, MineBlock(t) PROVE Replayed'
  BY <1>1, <1>a, ReplayedKept DEF MineBlock, Threads, TypeOK, nodeVars, Busy
<1>2. ASSUME NEW t \in Users, NEW to \in Receivers, NEW amount \in Amounts, SendMoney(t, to, amount)
      PROVE  Replayed'
  BY <1>2, <1>a, ReplayedKept DEF SendMoney, TypeOK, Threads, nodeVars, Busy
<1>3. ASSUME NEW t \in Users, NEW amount \in Amounts, SendMoneyFails(t, amount) PROVE Replayed'
  BY <1>3, <1>a, ReplayedKept DEF SendMoneyFails, TypeOK, Threads, nodeVars, Busy
<1>4. ASSUME NEW t \in Users, ViewWallet(t) PROVE Replayed'
  BY <1>4, <1>a, ReplayedKept DEF ViewWallet, Threads, threadVars, Busy
<1>5. ASSUME NEW t \in Net, NEW b \in gossipBlocks, ReceiveBlock(t, b) PROVE Replayed'
  BY <1>5, <1>a, ReplayedPushed DEF ReceiveBlock, Threads, TypeOK, Busy
<1>6. ASSUME NEW t \in Net, NEW tx \in gossipTxs, ReceiveTransaction(t, tx) PROVE Replayed'
  BY <1>6, <1>a, ReplayedKept DEF ReceiveTransaction, Threads, threadVars, Busy
<1>7. ASSUME NEW t \in Threads, PushMined(t) PROVE Replayed'
  <2>1. PICK h \in FreshHash :
          /\ newBlock' = [newBlock EXCEPT ![t] = [newBlock[t] EXCEPT !.hash = h]]
          /\ chain' = Append(chain, [newBlock[t] EXCEPT !.hash = h])
    BY <1>7 DEF PushMined
  <2> DEFINE b == [newBlock[t] EXCEPT !.hash = h]
  <2>2. b \in Block
    BY <1>a DEF Block, FreshHash, TypeOK
  <2>3. /\ pc[t] = "mining" /\ pc'[t] = "apply" /\ newBlock'[t] = b /\ txIndex'[t] = 1
        /\ balances' = balances /\ chain' = Append(chain, b)
    BY <1>7, <1>a, <2>1 DEF PushMined, TypeOK
  <2> HIDE DEF b
  <2> QED BY <1>a, <2>2, <2>3, ReplayedPushed DEF Busy
<1>8. ASSUME NEW t \in Threads, RefuseMined(t) PROVE Replayed'
  BY <1>8, <1>a, ReplayedKept DEF RefuseMined, Return, TypeOK, nodeVars, Busy
<1>9. ASSUME NEW t \in Threads, ReadBalances(t) PROVE Replayed'
  <2>1. /\ pc[t] = "apply" /\ pc'[t] = "write" /\ chain' = chain /\ balances' = balances
        /\ newBlock' = newBlock /\ txIndex' = txIndex
        /\ VerifyTransactionBalance(balances, CurrentTx(t))
        /\ readBal'[t] = [from |-> GetBalance(balances, CurrentTx(t).sender),
                          to   |-> GetBalance(balances, CurrentTx(t).receiver)]
    BY <1>9, <1>a DEF ReadBalances, Applying, TypeOK, nodeVars
  <2>2. AppliedSoFar(t)'
    <3>1. AppliedSoFar(t)
      BY <1>a, <2>1 DEF Replayed, Busy
    <3> QED BY <2>1, <3>1 DEF AppliedSoFar
  <2>3. ReadIsFresh(t)'
    BY <2>1 DEF ReadIsFresh, CurrentTx
  <2>4. \A u \in Threads : u = t
    BY DEF Serial
  <2> QED BY <2>1, <2>2, <2>3, <2>4 DEF Replayed, Busy
<1>10. ASSUME NEW t \in Threads, SkipTransaction(t) PROVE Replayed'
  <2>1. /\ pc[t] = "apply" /\ pc'[t] = "apply" /\ chain' = chain /\ balances' = balances
        /\ newBlock'[t] = newBlock[t] /\ txIndex'[t] = txIndex[t] + 1
        /\ txIndex[t] <= Len(newBlock[t].txs)
        /\ ~VerifyTransactionBalance(balances, CurrentTx(t))
    BY <1>10, <1>a DEF SkipTransaction, Applying, TypeOK, nodeVars
  <2>2. balances' = ProcessTransaction(balances, CurrentTx(t))
    BY <2>1 DEF ProcessTransaction
  <2> QED BY <1>a, <2>1, <2>2, ReplayedNext DEF Busy
<1>11. ASSUME NEW t \in Threads, WriteBalances(t) PROVE Replayed'
  <2>1. /\ pc[t] = "write" /\ pc'[t] = "apply" /\ chain' = chain
        /\ newBlock'[t] = newBlock[t] /\ txIndex'[t] = txIndex[t] + 1
        /\ balances' = WriteBalance(balances, CurrentTx(t), readBal[t].from, readBal[t].to)
    BY <1>11, <1>a DEF WriteBalances, TypeOK
  <2>2. ReadIsFresh(t) /\ txIndex[t] <= Len(newBlock[t].txs)
    BY <1>a, <2>1 DEF Replayed, InBlock
  <2>3. balances' = ProcessTransaction(balances, CurrentTx(t))
    BY <2>1, <2>2 DEF ProcessTransaction, ReadIsFresh
  <2> QED BY <1>a, <2>1, <2>2, <2>3, ReplayedNext DEF Busy
<1>12. ASSUME NEW t \in Threads, FinishBlock(t) PROVE Replayed'
  <2>1. /\ chain' = chain /\ balances' = balances
        /\ txIndex[t] > Len(newBlock[t].txs)
        /\ pc[t] = "apply" /\ pc'[t] = "idle"
    BY <1>12, <1>a DEF FinishBlock, Return, TypeOK
  <2>2. AppliedSoFar(t)
    BY <1>a, <2>1 DEF Replayed, Busy
  <2>3. PICK c \in Seq(Block) :
          chain = Append(c, newBlock[t]) /\ balances = ReplayOf(c, newBlock[t], txIndex[t] - 1)
    BY <2>2 DEF AppliedSoFar
  <2>4. newBlock[t] \in Block /\ newBlock[t].txs \in Seq(Tx)
    BY <1>a DEF TypeOK, Block
  <2>5. txIndex[t] - 1 = Len(newBlock[t].txs)
    <3> DEFINE n == Len(newBlock[t].txs)
               i == txIndex[t]
    <3>1. n \in Nat /\ i \in 1 .. n + 1 /\ i > n
      BY <2>1, <2>2, <2>4, LenProperties DEF AppliedSoFar
    <3> HIDE DEF n, i
    <3>2. i - 1 = n
      BY <3>1
    <3> QED BY <3>2 DEF n, i
  <2>6. SubSeq(newBlock[t].txs, 1, Len(newBlock[t].txs)) = newBlock[t].txs
    BY <2>4, SubSeqFull
  <2>7. Rebuild(Append(c, newBlock[t])) = UpdateBalances(Rebuild(c), newBlock[t].txs)
    BY <2>4, RebuildAppend
  <2>8. balances' = Rebuild(chain')
    BY <2>1, <2>3, <2>5, <2>6, <2>7 DEF ReplayOf
  <2>9. \A u \in Threads : u = t
    BY DEF Serial
  <2> QED BY <2>1, <2>8, <2>9 DEF Replayed, Busy
<1>13. ASSUME NEW t \in Threads, SubmitTransaction(t) PROVE Replayed'
  BY <1>13, <1>a, ReplayedKept DEF SubmitTransaction, Return, TypeOK, Busy
<1>14. ASSUME UNCHANGED <<nodeVars, threadVars>> PROVE Replayed'
  <2>1. \A t \in Threads : Busy(t)' = Busy(t) /\ AppliedSoFar(t)' = AppliedSoFar(t)
                           /\ ReadIsFresh(t)' = ReadIsFresh(t)
    BY <1>14 DEF Busy, AppliedSoFar, ReadIsFresh, CurrentTx, nodeVars, threadVars
  <2> QED BY <1>14, <1>a, <2>1 DEF Replayed, nodeVars, threadVars
<1>15. PeerStep => UNCHANGED <<nodeVars, threadVars>>
  BY DEF PeerStep, PeerMines, PeerSends
<1>16. ASSUME NEW t \in Threads, DebitWallet(t) PROVE Replayed'
  BY <1>16, <1>a, ReplayedKept DEF DebitWallet, TypeOK, Busy
<1> QED
  BY <1>1, <1>2, <1>3, <1>4, <1>5, <1>6, <1>7, <1>8, <1>9, <1>10, <1>11, <1>12, <1>13,
     <1>14, <1>15, <1>16
  DEF Next, UserStep, NetStep, Continue, vars

LEMMA ReplayInvariant ==
    ASSUME Serial
    PROVE  Spec => []ReplayInv
<1>1. ReplayInv /\ [Next]_vars => ReplayInv'
  BY ReplayStep
<1> QED
  BY <1>1, ReplayInit, PTL DEF Spec

\* Between two calls the balances of a node whose calls do not overlap are
\* those rebuildBalancesFromTransactions computes from its chain.
THEOREM SerialBalancesAreReplay ==
    ASSUME Serial
    PROVE  Spec => []BalancesAreReplay
<1>1. ReplayInv => BalancesAreReplay
  BY DEF ReplayInv, Replayed, Busy, BalancesAreReplay, Idle
<1> QED
  BY <1>1, ReplayInvariant, PTL

-----------------------------------------------------------------------------
(* Sums over finite sets *)

LEMMA EverySubset ==
    ASSUME NEW D, IsFiniteSet(D), NEW T, {} \in T,
           \A S \in SUBSET D : S # {} /\ (\A p \in S : S \ {p} \in T) => S \in T
    PROVE  SUBSET D \subseteq T
<1> DEFINE N == {n \in Nat : \A S \in SUBSET D : Cardinality(S) = n => S \in T}
<1>1. \A S \in SUBSET D : IsFiniteSet(S) /\ Cardinality(S) \in Nat
  BY FS_Subset, FS_CardinalityType
<1>2. 0 \in N
  BY <1>1, FS_EmptySet
<1>3. ASSUME NEW n \in Nat, n \in N PROVE n + 1 \in N
  <2> SUFFICES ASSUME NEW S \in SUBSET D, Cardinality(S) = n + 1 PROVE S \in T
    OBVIOUS
  <2>0. Cardinality({}) = 0
    BY FS_EmptySet
  <2>1. S # {}
    BY <2>0
  <2>2. ASSUME NEW p \in S PROVE S \ {p} \in T
    <3>1. Cardinality(S \ {p}) = Cardinality(S) - 1
      BY <1>1, FS_RemoveElement
    <3>2. Cardinality(S \ {p}) = n /\ S \ {p} \in SUBSET D
      BY <3>1
    <3> QED BY <1>3, <3>2
  <2> QED BY <2>1, <2>2
<1>4. Nat \subseteq N
  <2> HIDE DEF N
  <2> QED BY <1>2, <1>3, EveryNumber
<1> QED BY <1>1, <1>4

\* The element that SumOf takes first.
First(S) == CHOOSE x \in S : TRUE

LEMMA FirstIn == \A S : S # {} => First(S) \in S
BY DEF First

SumStep(bal, f, S) == IF S = {} THEN 0 ELSE bal[First(S)] + f[S \ {First(S)}]

IsSum(f, bal, D) == f = [S \in SUBSET D |-> SumStep(bal, f, S)]

\* The same for the subsets of at most n elements.
Part(D, n) == {S \in SUBSET D : Cardinality(S) <= n}
IsPartSum(f, bal, D, n) == f = [S \in Part(D, n) |-> SumStep(bal, f, S)]

LEMMA SumExists ==
    ASSUME NEW bal, NEW D, IsFiniteSet(D)
    PROVE  \E f : IsSum(f, bal, D)
<1> DEFINE N == {n \in Nat : \E f : IsPartSum(f, bal, D, n)}
<1>1. \A S \in SUBSET D : IsFiniteSet(S) /\ Cardinality(S) \in Nat
  BY FS_Subset, FS_CardinalityType
<1>2. 0 \in N
  <2> DEFINE f == [S \in Part(D, 0) |-> 0]
  <2>1. \A S \in Part(D, 0) : S = {}
    BY <1>1, FS_EmptySet DEF Part
  <2>2. \A S \in Part(D, 0) : SumStep(bal, f, S) = 0
    BY <2>1 DEF SumStep
  <2>3. IsPartSum(f, bal, D, 0)
    BY <2>2 DEF IsPartSum
  <2> QED BY <2>3
<1>3. ASSUME NEW n \in Nat, n \in N PROVE n + 1 \in N
  <2> SUFFICES \E f : IsPartSum(f, bal, D, n + 1)
    OBVIOUS
  <2>1. PICK f : IsPartSum(f, bal, D, n)
    BY <1>3
  <2> DEFINE g == [S \in Part(D, n + 1) |-> SumStep(bal, f, S)]
  <2>2. \A S \in Part(D, n) : g[S] = f[S]
    <3>1. \A S \in Part(D, n) : S \in Part(D, n + 1)
      BY <1>1 DEF Part
    <3>2. \A S \in Part(D, n) : f[S] = SumStep(bal, f, S)
      BY <2>1 DEF IsPartSum
    <3> QED BY <3>1, <3>2
  <2>3. ASSUME NEW S \in Part(D, n + 1), S # {} PROVE S \ {First(S)} \in Part(D, n)
    <3>1. First(S) \in S
      BY <2>3, FirstIn
    <3>0. S \in SUBSET D /\ Cardinality(S) <= n + 1
      BY DEF Part
    <3>2. Cardinality(S \ {First(S)}) = Cardinality(S) - 1
      BY <1>1, <3>0, <3>1, FS_RemoveElement
    <3> QED BY <1>1, <3>0, <3>2 DEF Part
  <2>4. \A S \in Part(D, n + 1) : SumStep(bal, g, S) = SumStep(bal, f, S)
    <3> HIDE DEF g
    <3> QED BY <2>2, <2>3 DEF SumStep
  <2>5. IsPartSum(g, bal, D, n + 1)
    BY <2>4 DEF IsPartSum
  <2> QED BY <2>5
<1>4. Nat \subseteq N
  <2> HIDE DEF N
  <2> QED BY <1>2, <1>3, EveryNumber
<1>5. Cardinality(D) \in Nat
  BY FS_CardinalityType
<1>6. Part(D, Cardinality(D)) = SUBSET D
  BY FS_Subset DEF Part
<1>7. PICK f : IsPartSum(f, bal, D, Cardinality(D))
  BY <1>4, <1>5
<1> QED BY <1>6, <1>7 DEF IsSum, IsPartSum

LEMMA SumFollows ==
    ASSUME NEW bal, IsFiniteSet(DOMAIN bal)
    PROVE  \E f : IsSum(f, bal, DOMAIN bal) /\ SumOf(bal) = f[DOMAIN bal]
<1> DEFINE Eq(f) == f = [S \in SUBSET DOMAIN bal |->
                           IF S = {} THEN 0 ELSE LET a == CHOOSE x \in S : TRUE IN bal[a] + f[S \ {a}]]
<1>1. SumOf(bal) = (CHOOSE f : Eq(f))[DOMAIN bal]
  BY DEF SumOf
<1>2. \A f : Eq(f) <=> IsSum(f, bal, DOMAIN bal)
  BY DEF IsSum, SumStep, First
<1> HIDE DEF Eq
<1>3. \E f : Eq(f)
  <2>1. \E f : IsSum(f, bal, DOMAIN bal)
    BY SumExists
  <2> QED BY <1>2, <2>1
<1>4. Eq(CHOOSE f : Eq(f))
  BY <1>3
<1> QED BY <1>1, <1>2, <1>4

NumbersOf(D) == [D -> Nat]

LEMMA SumNat ==
    ASSUME NEW D, IsFiniteSet(D), NEW bal \in NumbersOf(D), NEW f, IsSum(f, bal, D),
           NEW S \in SUBSET D
    PROVE  f[S] \in Nat
<1> DEFINE T == {R \in SUBSET D : f[R] \in Nat}
<1>1. \A R \in SUBSET D : f[R] = SumStep(bal, f, R)
  BY DEF IsSum
<1>2. {} \in T
  <2>1. {} \in SUBSET D /\ f[{}] = SumStep(bal, f, {})
    BY <1>1
  <2>2. SumStep(bal, f, {}) = 0
    BY DEF SumStep
  <2> QED BY <2>1, <2>2
<1>3. ASSUME NEW R \in SUBSET D, R # {}, \A p \in R : R \ {p} \in T PROVE R \in T
  <2>1. First(R) \in R /\ bal[First(R)] \in Nat /\ f[R \ {First(R)}] \in Nat
    BY <1>3, FirstIn DEF NumbersOf
  <2> QED BY <1>1, <1>3, <2>1 DEF SumStep
<1>4. SUBSET D \subseteq T
  <2> HIDE DEF T
  <2> QED BY <1>2, <1>3, EverySubset
<1> QED BY <1>4

\* It does not matter which element is taken first.
LEMMA SumAny ==
    ASSUME NEW D, IsFiniteSet(D), NEW bal \in NumbersOf(D), NEW f, IsSum(f, bal, D),
           NEW S \in SUBSET D, NEW p \in S
    PROVE  f[S] = bal[p] + f[S \ {p}]
<1> DEFINE T == {R \in SUBSET D : \A q \in R : f[R] = bal[q] + f[R \ {q}]}
<1>1. \A R \in SUBSET D : f[R] = SumStep(bal, f, R) /\ f[R] \in Nat
  <2>1. \A R \in SUBSET D : f[R] = SumStep(bal, f, R)
    BY DEF IsSum
  <2> QED BY <2>1, SumNat
<1>2. {} \in T
  OBVIOUS
<1>3. ASSUME NEW R \in SUBSET D, R # {}, \A q \in R : R \ {q} \in T PROVE R \in T
  <2> SUFFICES ASSUME NEW q \in R PROVE f[R] = bal[q] + f[R \ {q}]
    OBVIOUS
  <2> DEFINE x == First(R)
  <2>1. x \in R /\ f[R] = bal[x] + f[R \ {x}]
    BY <1>1, <1>3, FirstIn DEF SumStep
  <2>2. CASE q = x
    BY <2>1, <2>2
  <2>3. CASE q # x
    <3> HIDE DEF x
    <3>1. q \in R \ {x} /\ x \in R \ {q} /\ R \ {x} \in T /\ R \ {q} \in T
      BY <1>3, <2>1, <2>3
    <3>2. f[R \ {x}] = bal[q] + f[(R \ {x}) \ {q}]
      BY <3>1
    <3>3. f[R \ {q}] = bal[x] + f[(R \ {q}) \ {x}]
      BY <3>1
    <3>4. (R \ {x}) \ {q} = (R \ {q}) \ {x}
      OBVIOUS
    <3>5. bal[x] \in Nat /\ bal[q] \in Nat /\ f[(R \ {q}) \ {x}] \in Nat
      BY <1>1, <2>1 DEF NumbersOf
    <3>6. f[R] = bal[x] + (bal[q] + f[(R \ {q}) \ {x}])
      BY <2>1, <3>2, <3>4
    <3> DEFINE u == bal[x]
               v == bal[q]
               w == f[(R \ {q}) \ {x}]
    <3>7. f[R] = u + (v + w) /\ f[R \ {q}] = u + w /\ u \in Nat /\ v \in Nat /\ w \in Nat
      BY <3>3, <3>5, <3>6
    <3> HIDE DEF u, v, w
    <3>8. f[R] = v + f[R \ {q}]
      BY <3>7
    <3> QED BY <3>8 DEF v
  <2> QED BY <2>2, <2>3
<1>4. SUBSET D \subseteq T
  <2> HIDE DEF T
  <2> QED BY <1>2, <1>3, EverySubset
<1> QED BY <1>4

\* Two sums of the same numbers.
LEMMA SumSame ==
    ASSUME NEW D, NEW E, NEW C, IsFiniteSet(C), C \subseteq D, C \subseteq E,
           NEW bal, NEW other, Same(bal, other, C),
           NEW f, IsSum(f, bal, D), NEW g, IsSum(g, other, E)
    PROVE  f[C] = g[C]
<1> DEFINE T == {R \in SUBSET C : f[R] = g[R]}
<1>1. \A R \in SUBSET C : f[R] = SumStep(bal, f, R) /\ g[R] = SumStep(other, g, R)
  BY DEF IsSum
<1>2. {} \in T
  BY <1>1 DEF SumStep
<1>3. ASSUME NEW R \in SUBSET C, R # {}, \A q \in R : R \ {q} \in T PROVE R \in T
  <2>1. First(R) \in R /\ First(R) \in C /\ f[R \ {First(R)}] = g[R \ {First(R)}]
    BY <1>3, FirstIn
  <2> QED BY <1>1, <1>3, <2>1 DEF SumStep, Same
<1>4. SUBSET C \subseteq T
  <2> HIDE DEF T
  <2> QED BY <1>2, <1>3, EverySubset
<1> QED BY <1>4

LEMMA SumOfNat ==
    ASSUME NEW D, IsFiniteSet(D), NEW bal \in NumbersOf(D)
    PROVE  SumOf(bal) \in Nat
<1>1. DOMAIN bal = D
  BY DEF NumbersOf
<1> QED BY <1>1, SumFollows, SumNat

\* One number and the sum of the others.
LEMMA SumOne ==
    ASSUME NEW D, IsFiniteSet(D), NEW bal \in NumbersOf(D), NEW p \in D,
           NEW rest \in NumbersOf(D \ {p}), \A x \in D \ {p} : rest[x] = bal[x]
    PROVE  SumOf(bal) = bal[p] + SumOf(rest)
<1>1. DOMAIN bal = D /\ DOMAIN rest = D \ {p} /\ IsFiniteSet(D \ {p})
  BY FS_RemoveElement DEF NumbersOf
<1>2. PICK f : IsSum(f, bal, D) /\ SumOf(bal) = f[D]
  BY <1>1, SumFollows
<1>3. PICK g : IsSum(g, rest, D \ {p}) /\ SumOf(rest) = g[D \ {p}]
  BY <1>1, SumFollows
<1>4. f[D] = bal[p] + f[D \ {p}]
  BY <1>2, SumAny
<1>5. f[D \ {p}] = g[D \ {p}]
  <2>1. D \ {p} \subseteq D /\ \A x \in D \ {p} : bal[x] = rest[x]
    OBVIOUS
  <2> DEFINE C == D \ {p}
  <2>2. C \subseteq D /\ C \subseteq C /\ IsFiniteSet(C) /\ Same(bal, rest, C)
    BY <1>1, <2>1 DEF Same
  <2> HIDE DEF C
  <2>3. IsSum(g, rest, C)
    BY <1>3 DEF C
  <2>4. f[C] = g[C]
    BY <1>2, <2>2, <2>3, SumSame
  <2> QED BY <2>4 DEF C
<1> QED BY <1>2, <1>3, <1>4, <1>5

\* The sum after one number has been replaced.
LEMMA SumPut ==
    ASSUME NEW D, IsFiniteSet(D), NEW bal \in NumbersOf(D), NEW p \in D, NEW n \in Nat
    PROVE  /\ [bal EXCEPT ![p] = n] \in NumbersOf(D)
           /\ SumOf([bal EXCEPT ![p] = n]) = SumOf(bal) - bal[p] + n
<1> DEFINE put == [bal EXCEPT ![p] = n]
           rest == [x \in D \ {p} |-> bal[x]]
<1>1. put \in NumbersOf(D) /\ put[p] = n /\ rest \in NumbersOf(D \ {p})
  BY DEF NumbersOf
<1>2. \A x \in D \ {p} : rest[x] = bal[x] /\ rest[x] = put[x]
  BY DEF NumbersOf
<1> HIDE DEF put, rest
<1>3. SumOf(bal) = bal[p] + SumOf(rest) /\ SumOf(put) = put[p] + SumOf(rest)
  BY <1>1, <1>2, SumOne
<1>4. SumOf(rest) \in Nat /\ bal[p] \in Nat
  <2>1. IsFiniteSet(D \ {p})
    BY FS_RemoveElement
  <2> QED BY <1>1, <2>1, SumOfNat DEF NumbersOf
<1> QED BY <1>1, <1>3, <1>4 DEF put

\* Nobody has anything.
LEMMA SumZero ==
    ASSUME IsFiniteSet(Addr)
    PROVE  SumOf(Zero) = 0
<1>1. DOMAIN Zero = Addr /\ \A a \in Addr : Zero[a] = 0
  BY DEF Zero
<1>2. PICK f : IsSum(f, Zero, Addr) /\ SumOf(Zero) = f[Addr]
  BY <1>1, SumFollows
<1> DEFINE T == {R \in SUBSET Addr : f[R] = 0}
<1>3. \A R \in SUBSET Addr : f[R] = SumStep(Zero, f, R)
  BY <1>2 DEF IsSum
<1>4. {} \in T
  <2>1. {} \in SUBSET Addr /\ SumStep(Zero, f, {}) = 0
    BY DEF SumStep
  <2> QED BY <1>3, <2>1
<1>5. ASSUME NEW R \in SUBSET Addr, R # {}, \A p \in R : R \ {p} \in T PROVE R \in T
  <2>1. First(R) \in R /\ f[R \ {First(R)}] = 0 /\ Zero[First(R)] = 0
    BY <1>1, <1>5, FirstIn
  <2> QED BY <1>3, <1>5, <2>1 DEF SumStep
<1>6. SUBSET Addr \subseteq T
  <2> HIDE DEF T
  <2> QED BY <1>4, <1>5, EverySubset
<1> QED BY <1>2, <1>6

-----------------------------------------------------------------------------
(* Where coins come from *)

\* The genesis transaction, a reward as the code pays it, or a payment to an
\* address or to nobody.
FairTx(tx) ==
    IF tx.sender = Genesis THEN tx.receiver = Genesis \/ (tx.receiver \in Addr /\ tx.amount = Reward)
    ELSE tx.receiver # Genesis

FairTxs(txs) == \A i \in 1 .. Len(txs) : FairTx(txs[i])

\* What processing one transaction does to the sum of all balances.
LEMMA ProcessSum ==
    ASSUME IsFiniteSet(Addr), NEW bal \in Balances, NEW tx \in Tx, FairTx(tx), IsValid(tx)
    PROVE  /\ IsCoinbase(tx) => SumOf(ProcessTransaction(bal, tx)) = SumOf(bal) + Reward
           /\ ~IsCoinbase(tx) /\ tx.sender = tx.receiver =>
                /\ SumOf(bal) <= SumOf(ProcessTransaction(bal, tx))
                /\ SumOf(ProcessTransaction(bal, tx)) <= SumOf(bal) + tx.amount
           /\ ~IsCoinbase(tx) /\ tx.sender # tx.receiver =>
                SumOf(ProcessTransaction(bal, tx)) = SumOf(bal)
<1> DEFINE from == tx.sender
           to == tx.receiver
           amount == tx.amount
<1>1. amount \in Nat /\ from \in Party /\ to \in Party
  BY DEF Tx
<1>2. bal \in NumbersOf(Addr) /\ DOMAIN bal = Addr /\ \A a \in Addr : bal[a] \in Nat
  BY DEF Balances, NumbersOf
<1>3. SumOf(bal) \in Nat
  BY <1>2, SumOfNat
<1>4. CASE ~VerifyTransactionBalance(bal, tx)
  <2>1. ProcessTransaction(bal, tx) = bal /\ from # Genesis
    BY <1>4 DEF ProcessTransaction, VerifyTransactionBalance
  <2> QED BY <1>1, <1>3, <2>1 DEF IsCoinbase
<1>5. CASE from = Genesis /\ to = Genesis
  <2>1. ProcessTransaction(bal, tx) = bal
    BY <1>5 DEF ProcessTransaction, WriteBalance
  <2> QED BY <1>1, <1>3, <1>5, <2>1 DEF IsCoinbase
<1>6. CASE from = Genesis /\ to # Genesis
  <2>1. to \in Addr /\ amount = Reward /\ GetBalance(bal, to) = bal[to]
    BY <1>2, <1>6 DEF FairTx, GetBalance
  <2>2. bal[to] + amount \in Nat
    BY <1>1, <1>2, <2>1
  <2>3. ProcessTransaction(bal, tx) = [bal EXCEPT ![to] = bal[to] + amount]
    BY <1>6, <2>1 DEF ProcessTransaction, VerifyTransactionBalance, WriteBalance
  <2> DEFINE n == bal[to] + amount
  <2>4. SumOf([bal EXCEPT ![to] = n]) = SumOf(bal) - bal[to] + n
    <3>1. n \in Nat
      BY <2>2
    <3> HIDE DEF n, to
    <3> QED BY <1>2, <2>1, <3>1, SumPut
  <2>5. SumOf(ProcessTransaction(bal, tx)) = SumOf(bal) + amount
    <3>1. bal[to] \in Nat /\ n = bal[to] + amount
      BY <1>2, <2>1
    <3>2. SumOf(ProcessTransaction(bal, tx)) = SumOf(bal) - bal[to] + n
      BY <2>3, <2>4
    <3> HIDE DEF n, to, amount
    <3> QED BY <1>1, <1>3, <3>1, <3>2
  <2> QED BY <1>6, <2>1, <2>5 DEF IsCoinbase
<1>7. CASE from # Genesis /\ VerifyTransactionBalance(bal, tx)
  <2>1. from \in Addr /\ to \in Addr
    BY <1>1, <1>7 DEF IsValid, FairTx, Party
  <2>2. GetBalance(bal, from) = bal[from] /\ GetBalance(bal, to) = bal[to] /\ ~IsCoinbase(tx)
    BY <1>2, <1>7, <2>1 DEF GetBalance, IsCoinbase
  <2> DEFINE less == bal[from] - amount
             more == bal[to] + amount
             mid == [bal EXCEPT ![from] = less]
  <2>3. less \in Nat /\ more \in Nat /\ bal[from] \in Nat /\ bal[to] \in Nat
    BY <1>1, <1>2, <1>7, <2>1, <2>2 DEF VerifyTransactionBalance
  <2>4. ProcessTransaction(bal, tx) = [mid EXCEPT ![to] = more]
    BY <1>7, <2>2 DEF ProcessTransaction, WriteBalance
  <2>5. mid \in NumbersOf(Addr) /\ SumOf(mid) = SumOf(bal) - bal[from] + less
    <3> HIDE DEF less, from
    <3> QED BY <1>2, <2>1, <2>3, SumPut
  <2>6. SumOf([mid EXCEPT ![to] = more]) = SumOf(mid) - mid[to] + more
    <3> HIDE DEF mid, more, to
    <3> QED BY <2>1, <2>3, <2>5, SumPut
  <2>7. mid[to] = IF from = to THEN less ELSE bal[to]
    BY <1>2, <2>1
  <2>8. SumOf(ProcessTransaction(bal, tx)) = ((SumOf(bal) - bal[from] + less) - mid[to]) + more
    <3> HIDE DEF mid, less, more
    <3>1. SumOf(ProcessTransaction(bal, tx)) = SumOf([mid EXCEPT ![to] = more])
      BY <2>4
    <3> QED BY <2>5, <2>6, <3>1
  <2>9. less = bal[from] - amount /\ more = bal[to] + amount
    OBVIOUS
  <2> HIDE DEF mid, less, more
  <2>10. SumOf(ProcessTransaction(bal, tx)) = IF from = to THEN SumOf(bal) + amount ELSE SumOf(bal)
    <3> HIDE DEF from, to, amount
    <3>1. CASE from = to
      BY <1>1, <1>3, <2>3, <2>7, <2>8, <2>9, <3>1
    <3>2. CASE from # to
      BY <1>1, <1>3, <2>3, <2>7, <2>8, <2>9, <3>2
    <3> QED BY <3>1, <3>2
  <2> QED BY <1>1, <1>3, <2>2, <2>10
<1> QED BY <1>4, <1>5, <1>6, <1>7

\* SelfPayments of any chain, and those in the last block up to a transaction.
Places(c) ==
    {p \in UNION {{<<i, j>> : j \in DOMAIN c[i].txs} : i \in DOMAIN c} :
       c[p[1]].txs[p[2]].sender = c[p[1]].txs[p[2]].receiver}

PlacesUpTo(c, k) == {p \in Places(c) : p[1] = Len(c) => p[2] <= k}

PaidAt(c, P) == [p \in P |-> c[p[1]].txs[p[2]].amount]

LEMMA PlaceOf ==
    ASSUME NEW c \in Seq(Block)
    PROVE  \A i, j : <<i, j>> \in Places(c) <=>
             /\ i \in 1 .. Len(c) /\ j \in 1 .. Len(c[i].txs)
             /\ c[i].txs[j].sender = c[i].txs[j].receiver
<1>1. DOMAIN c = 1 .. Len(c) /\ \A i \in 1 .. Len(c) : c[i] \in Block
  BY LenProperties, ElementOfSeq
<1>2. \A i \in 1 .. Len(c) : DOMAIN c[i].txs = 1 .. Len(c[i].txs)
  BY <1>1, LenProperties DEF Block
<1> QED BY <1>1, <1>2 DEF Places

LEMMA PlacePairs ==
    ASSUME NEW c, NEW p \in Places(c)
    PROVE  p = <<p[1], p[2]>>
BY DEF Places

LEMMA PaidNat ==
    ASSUME NEW c \in Seq(Block), NEW P, P \subseteq Places(c)
    PROVE  PaidAt(c, P) \in NumbersOf(P)
<1> SUFFICES ASSUME NEW p \in P PROVE c[p[1]].txs[p[2]].amount \in Nat
  BY DEF PaidAt, NumbersOf
<1>1. p[1] \in 1 .. Len(c) /\ p[2] \in 1 .. Len(c[p[1]].txs)
  BY PlaceOf, PlacePairs
<1>2. c[p[1]].txs \in Seq(Tx)
  <2>1. c[p[1]] \in Block
    BY <1>1, ElementOfSeq
  <2> QED BY <2>1 DEF Block
<1>3. c[p[1]].txs[p[2]] \in Tx
  BY <1>1, <1>2, ElementOfSeq
<1> QED BY <1>3 DEF Tx

\* The places of a longer chain before its last block is looked at, and one
\* transaction later.
LEMMA PlacesBefore ==
    ASSUME NEW c \in Seq(Block), NEW b \in Block, NEW d, d = Append(c, b)
    PROVE  PlacesUpTo(d, 0) = Places(c) /\ PaidAt(d, Places(c)) = PaidAt(c, Places(c))
<1>1. /\ d \in Seq(Block) /\ Len(d) = Len(c) + 1 /\ Len(c) \in Nat /\ d[Len(c) + 1] = b
      /\ \A i \in 1 .. Len(c) : d[i] = c[i]
  BY AppendProperties, LenProperties
<1>2. d \in Seq(Block)
  BY <1>1
<1>3. \A i, j : <<i, j>> \in Places(d) <=>
        /\ i \in 1 .. Len(d) /\ j \in 1 .. Len(d[i].txs)
        /\ d[i].txs[j].sender = d[i].txs[j].receiver
  BY ONLY <1>2, PlaceOf
<1>4. \A i, j : <<i, j>> \in Places(c) <=> <<i, j>> \in PlacesUpTo(d, 0)
  <2> TAKE i, j
  <2>1. <<i, j>> \in PlacesUpTo(d, 0) <=> <<i, j>> \in Places(d) /\ (i = Len(d) => j <= 0)
    BY DEF PlacesUpTo
  <2>2. <<i, j>> \in Places(d) <=> i \in 1 .. Len(d) /\ j \in 1 .. Len(d[i].txs)
                                   /\ d[i].txs[j].sender = d[i].txs[j].receiver
    BY <1>3
  <2>3. <<i, j>> \in Places(c) <=> i \in 1 .. Len(c) /\ j \in 1 .. Len(c[i].txs)
                                   /\ c[i].txs[j].sender = c[i].txs[j].receiver
    BY PlaceOf
  <2>4. CASE i \in 1 .. Len(c)
    <3>1. d[i] = c[i] /\ i # Len(d) /\ i \in 1 .. Len(d)
      BY <1>1, <2>4
    <3> QED BY <2>1, <2>2, <2>3, <2>4, <3>1
  <2>5. CASE i \notin 1 .. Len(c)
    <3>1. i \in 1 .. Len(d) => i = Len(d)
      BY <1>1, <2>5
    <3>2. ~(j \in 1 .. Len(d[i].txs) /\ j <= 0)
      OBVIOUS
    <3> QED BY <2>1, <2>2, <2>3, <2>5, <3>1, <3>2
  <2> QED BY <2>4, <2>5
<1>5. PlacesUpTo(d, 0) = Places(c)
  <2>1. \A p \in PlacesUpTo(d, 0) : p \in Places(d)
    BY DEF PlacesUpTo
  <2>2. \A p \in PlacesUpTo(d, 0) : p \in Places(c)
    BY <1>4, <2>1, PlacePairs
  <2>3. \A p \in Places(c) : p \in PlacesUpTo(d, 0)
    BY <1>4, PlacePairs
  <2> QED BY <2>2, <2>3
<1>6. \A p \in Places(c) : d[p[1]] = c[p[1]]
  <2>1. \A p \in Places(c) : p[1] \in 1 .. Len(c)
    BY PlaceOf, PlacePairs
  <2> QED BY <1>1, <2>1
<1> QED BY <1>5, <1>6 DEF PaidAt

LEMMA PlacesNext ==
    ASSUME NEW d \in Seq(Block), Len(d) > 0, NEW txs, txs = d[Len(d)].txs,
           NEW k \in 0 .. Len(txs) - 1
    PROVE  PlacesUpTo(d, k + 1) = IF txs[k + 1].sender = txs[k + 1].receiver
                                  THEN PlacesUpTo(d, k) \cup {<<Len(d), k + 1>>}
                                  ELSE PlacesUpTo(d, k)
<1> DEFINE n == Len(d)
           q == <<n, k + 1>>
<1>1. n \in Nat /\ n \in 1 .. n /\ d[n] \in Block
  BY LenProperties, ElementOfSeq
<1>2. txs \in Seq(Tx) /\ Len(txs) \in Nat /\ k \in Nat /\ k + 1 \in 1 .. Len(txs)
  BY <1>1, LenProperties DEF Block
<1>3. q \in Places(d) <=> txs[k + 1].sender = txs[k + 1].receiver
  BY <1>1, <1>2, PlaceOf
<1>4. ASSUME NEW p \in Places(d)
      PROVE  (p[1] = n => p[2] <= k + 1) <=> (p[1] = n => p[2] <= k) \/ p = q
  <2>1. p = <<p[1], p[2]>> /\ p[2] \in Nat
    <3>1. p = <<p[1], p[2]>>
      BY PlacePairs
    <3>2. p[2] \in 1 .. Len(d[p[1]].txs) /\ p[1] \in 1 .. Len(d)
      BY <3>1, PlaceOf
    <3>3. d[p[1]] \in Block
      BY <3>2, ElementOfSeq
    <3>4. Len(d[p[1]].txs) \in Nat
      BY <3>3, LenProperties DEF Block
    <3> QED BY <3>1, <3>2, <3>4
  <2>2. p = q <=> p[1] = n /\ p[2] = k + 1
    BY <2>1
  <2> HIDE DEF q, n
  <2>3. p[2] <= k + 1 <=> p[2] <= k \/ p[2] = k + 1
    BY <1>2, <2>1
  <2> QED BY <2>2, <2>3
<1> HIDE DEF q
<1>5. PlacesUpTo(d, k + 1) = {p \in Places(d) : (p[1] = n => p[2] <= k) \/ p = q}
  BY <1>4 DEF PlacesUpTo
<1>6. PlacesUpTo(d, k) = {p \in Places(d) : p[1] = n => p[2] <= k}
  BY DEF PlacesUpTo
<1> HIDE DEF n
<1>7. CASE q \in Places(d)
  BY <1>3, <1>5, <1>6, <1>7 DEF q, n
<1>8. CASE q \notin Places(d)
  BY <1>3, <1>5, <1>6, <1>8
<1> QED BY <1>7, <1>8

LEMMA PlacesAll ==
    ASSUME NEW d \in Seq(Block), Len(d) > 0
    PROVE  PlacesUpTo(d, Len(d[Len(d)].txs)) = Places(d)
<1>1. \A p \in Places(d) : p[1] = Len(d) => p[2] \in 1 .. Len(d[Len(d)].txs)
  BY PlaceOf, PlacePairs
<1>2. d[Len(d)].txs \in Seq(Tx)
  <2>1. Len(d) \in 1 .. Len(d)
    BY LenProperties
  <2>2. d[Len(d)] \in Block
    BY <2>1, ElementOfSeq
  <2> QED BY <2>2 DEF Block
<1>3. Len(d[Len(d)].txs) \in Nat
  BY <1>2, LenProperties
<1>4. \A p \in Places(d) : p[1] = Len(d) => p[2] <= Len(d[Len(d)].txs)
  BY <1>1, <1>3
<1> QED BY <1>4 DEF PlacesUpTo

\* The sum of the self-payments up to a transaction, which is one of them or not.
Paid(d, k) == SumOf(PaidAt(d, PlacesUpTo(d, k)))

LEMMA PaidNext ==
    ASSUME NEW d \in Seq(Block), Len(d) > 0, NEW txs, txs = d[Len(d)].txs,
           NEW k \in 0 .. Len(txs) - 1, IsFiniteSet(PlacesUpTo(d, k))
    PROVE  /\ IsFiniteSet(PlacesUpTo(d, k + 1))
           /\ Paid(d, k) \in Nat
           /\ Paid(d, k + 1) = Paid(d, k) +
                IF txs[k + 1].sender = txs[k + 1].receiver THEN txs[k + 1].amount ELSE 0
<1> DEFINE P == PlacesUpTo(d, k)
           R == PlacesUpTo(d, k + 1)
           q == <<Len(d), k + 1>>
           tx == txs[k + 1]
<1>1. Len(txs) \in Nat /\ tx \in Tx /\ k \in Nat /\ Len(d) \in Nat
  <2>1. Len(d) \in 1 .. Len(d) /\ Len(d) \in Nat
    BY LenProperties
  <2>2. txs \in Seq(Tx)
    <3>1. d[Len(d)] \in Block
      BY <2>1, ElementOfSeq
    <3> QED BY <3>1 DEF Block
  <2> QED BY <2>1, <2>2, LenProperties, ElementOfSeq
<1>2. P \subseteq Places(d) /\ R \subseteq Places(d)
  BY DEF PlacesUpTo
<1>3. PaidAt(d, P) \in NumbersOf(P) /\ PaidAt(d, R) \in NumbersOf(R)
  BY <1>2, PaidNat
<1>4. SumOf(PaidAt(d, P)) \in Nat
  BY <1>3, SumOfNat
<1>5. R = IF tx.sender = tx.receiver THEN P \cup {q} ELSE P
  BY PlacesNext
<1>6. q \notin P
  BY <1>1 DEF PlacesUpTo
<1>7. CASE tx.sender = tx.receiver
  <2>1. R = P \cup {q} /\ R \ {q} = P /\ q \in R /\ IsFiniteSet(R)
    BY <1>5, <1>6, <1>7, FS_AddElement
  <2>2. \A p \in R : PaidAt(d, R)[p] = d[p[1]].txs[p[2]].amount
    BY DEF PaidAt
  <2>3. \A p \in P : PaidAt(d, P)[p] = d[p[1]].txs[p[2]].amount
    BY DEF PaidAt
  <2>4. PaidAt(d, R)[q] = tx.amount
    BY <2>1, <2>2
  <2>5. \A p \in R \ {q} : PaidAt(d, P)[p] = PaidAt(d, R)[p]
    BY <2>1, <2>2, <2>3
  <2> HIDE DEF P, R, q, tx
  <2>6. PaidAt(d, P) \in NumbersOf(R \ {q})
    BY <1>3, <2>1
  <2>7. SumOf(PaidAt(d, R)) = PaidAt(d, R)[q] + SumOf(PaidAt(d, P))
    <3> DEFINE bal == PaidAt(d, R)
               rest == PaidAt(d, P)
    <3>1. bal \in NumbersOf(R) /\ rest \in NumbersOf(R \ {q}) /\ \A p \in R \ {q} : rest[p] = bal[p]
      BY <1>3, <2>5, <2>6
    <3> HIDE DEF bal, rest
    <3>2. SumOf(bal) = bal[q] + SumOf(rest)
      BY <2>1, <3>1, SumOne
    <3> QED BY <3>2 DEF bal, rest
  <2>8. tx.amount \in Nat
    BY <1>1 DEF Tx
  <2>9. SumOf(PaidAt(d, R)) = SumOf(PaidAt(d, P)) + tx.amount
    BY <1>4, <2>4, <2>7, <2>8
  <2> QED BY <1>4, <1>7, <2>1, <2>9 DEF Paid, P, R, tx
<1>8. CASE tx.sender # tx.receiver
  <2>1. R = P
    BY <1>5, <1>8
  <2>2. Paid(d, k + 1) = Paid(d, k) /\ Paid(d, k) \in Nat
    BY <1>4, <2>1 DEF Paid
  <2> QED BY <1>8, <2>1, <2>2
<1> QED BY <1>7, <1>8

\* One reward for each block but the genesis block, and at most the payments to
\* oneself.
Accounted(c) ==
    LET mined == Reward * (Len(c) - 1)
    IN  /\ IsFiniteSet(Places(c))
        /\ mined <= SumOf(Rebuild(c))
        /\ SumOf(Rebuild(c)) <= mined + SumOf(PaidAt(c, Places(c)))

\* The reward of a block once its coinbase has been processed.
RewardUpTo(txs, k) == IF \E i \in 1 .. k : IsCoinbase(txs[i]) THEN Reward ELSE 0

\* The same in the middle of the block b.
AccountedUpTo(c, b, k) ==
    LET mined == Reward * (Len(c) - 1) + RewardUpTo(b.txs, k)
        d == Append(c, b)
    IN  /\ IsFiniteSet(PlacesUpTo(d, k))
        /\ mined <= SumOf(ReplayOf(c, b, k))
        /\ SumOf(ReplayOf(c, b, k)) <= mined + Paid(d, k)

LEMMA ReplayOfType ==
    ASSUME NEW c \in Seq(Block), NEW b \in Block, NEW k \in 0 .. Len(b.txs)
    PROVE  ReplayOf(c, b, k) \in Balances
<1>1. b.txs \in Seq(Tx) /\ Len(b.txs) \in Nat
  BY LenProperties DEF Block
<1>2. \A j \in 1 .. k : b.txs[j] \in Tx
  <2>1. \A j \in 1 .. k : j \in 1 .. Len(b.txs)
    BY <1>1
  <2> QED BY <1>1, <2>1, ElementOfSeq
<1>3. SubSeq(b.txs, 1, k) \in Seq(Tx)
  <2>1. 1 \in Int /\ k \in Int
    BY <1>1
  <2> QED BY <1>2, <2>1, SubSeqProperties
<1> QED BY <1>3, RebuildType, UpdateBalancesType DEF ReplayOf

LEMMA CoinsOfTransaction ==
    ASSUME IsFiniteSet(Addr), NEW c \in Seq(Block), NEW b \in Block,
           FairTxs(b.txs), ValidateTransactions(b.txs),
           NEW k \in 0 .. Len(b.txs) - 1, AccountedUpTo(c, b, k)
    PROVE  AccountedUpTo(c, b, k + 1)
<1> DEFINE txs == b.txs
           tx == txs[k + 1]
           d == Append(c, b)
           bal == ReplayOf(c, b, k)
           more == ReplayOf(c, b, k + 1)
           base == Reward * (Len(c) - 1)
<1>1. txs \in Seq(Tx) /\ Len(txs) \in Nat /\ k \in Nat /\ k + 1 \in 1 .. Len(txs)
      /\ k \in 0 .. Len(txs) /\ k + 1 \in 0 .. Len(txs) /\ Len(c) \in Nat
  BY LenProperties DEF Block
<1>2. tx \in Tx /\ FairTx(tx) /\ IsValid(tx)
  <2>1. DOMAIN txs = 1 .. Len(txs)
    BY <1>1, LenProperties
  <2> QED BY <1>1, <2>1, ElementOfSeq DEF FairTxs, ValidateTransactions
<1>3. bal \in Balances /\ more \in Balances
  BY <1>1, ReplayOfType
<1>4. more = ProcessTransaction(bal, tx)
  <2>1. Rebuild(c) \in Balances /\ (k + 1) - 1 = k
    BY <1>1, RebuildType
  <2> DEFINE i == k + 1
  <2> HIDE DEF i, txs
  <2>2. i \in 1 .. Len(txs)
    BY <1>1 DEF i
  <2>3. UpdateBalances(Rebuild(c), SubSeq(txs, 1, i))
          = ProcessTransaction(UpdateBalances(Rebuild(c), SubSeq(txs, 1, i - 1)), txs[i])
    BY <1>1, <2>1, <2>2, UpdateBalancesNext
  <2> QED BY <2>1, <2>3 DEF ReplayOf, i, txs
<1>5. /\ d \in Seq(Block) /\ Len(d) > 0 /\ txs = d[Len(d)].txs
  <2>1. d \in Seq(Block) /\ Len(d) = Len(c) + 1 /\ d[Len(c) + 1] = b
    BY AppendProperties
  <2> QED BY <1>1, <2>1
<1>6. IsFiniteSet(PlacesUpTo(d, k)) /\ base + RewardUpTo(txs, k) <= SumOf(bal)
      /\ SumOf(bal) <= base + RewardUpTo(txs, k) + Paid(d, k)
  BY DEF AccountedUpTo
<1>7. /\ IsFiniteSet(PlacesUpTo(d, k + 1)) /\ Paid(d, k) \in Nat
      /\ Paid(d, k + 1) = Paid(d, k) + IF tx.sender = tx.receiver THEN tx.amount ELSE 0
  <2> HIDE DEF d, txs
  <2> QED BY <1>1, <1>5, <1>6, PaidNext DEF tx
<1>8. SumOf(bal) \in Nat /\ SumOf(more) \in Nat
  BY <1>3, SumOfNat DEF Balances, NumbersOf
<1>9. base \in Int /\ Reward \in Nat /\ tx.amount \in Nat
  BY <1>1, <1>2, LedgerAssumption DEF Tx
<1>10. /\ RewardUpTo(txs, k) \in {0, Reward} /\ RewardUpTo(txs, k) \in Nat
       /\ IsCoinbase(tx) => RewardUpTo(txs, k) = 0 /\ RewardUpTo(txs, k + 1) = Reward
       /\ ~IsCoinbase(tx) => RewardUpTo(txs, k + 1) = RewardUpTo(txs, k)
  <2>1. \A i \in 1 .. k : i \in DOMAIN txs /\ i # k + 1 /\ i \in 1 .. k + 1
    <3>1. DOMAIN txs = 1 .. Len(txs)
      BY <1>1, LenProperties
    <3> QED BY <1>1, <3>1
  <2>2. k + 1 \in DOMAIN txs /\ k + 1 \in 1 .. k + 1
    BY <1>1, LenProperties
  <2>3. \A i \in 1 .. k + 1 : i \in 1 .. k \/ i = k + 1
    BY <1>1
  <2>4. \A i, j \in DOMAIN txs : IsCoinbase(txs[i]) /\ IsCoinbase(txs[j]) => i = j
    BY DEF ValidateTransactions
  <2> HIDE DEF txs
  <2>5. IsCoinbase(tx) => ~ \E i \in 1 .. k : IsCoinbase(txs[i])
    BY <2>1, <2>2, <2>4 DEF tx
  <2>6. IsCoinbase(tx) => \E i \in 1 .. k + 1 : IsCoinbase(txs[i])
    BY <2>2 DEF tx
  <2>7. ~IsCoinbase(tx) => ((\E i \in 1 .. k + 1 : IsCoinbase(txs[i])) <=> (\E i \in 1 .. k : IsCoinbase(txs[i])))
    BY <2>1, <2>3 DEF tx
  <2> QED BY <1>9, <2>5, <2>6, <2>7 DEF RewardUpTo
<1>11. base + RewardUpTo(txs, k + 1) <= SumOf(more)
       /\ SumOf(more) <= base + RewardUpTo(txs, k + 1) + Paid(d, k + 1)
  <2>1. IsCoinbase(tx) => tx.sender # tx.receiver
    BY DEF IsCoinbase
  <2> HIDE DEF txs, tx, d, bal, more, base
  <2> DEFINE r == RewardUpTo(txs, k)
             s == SumOf(bal)
             u == SumOf(more)
             p == Paid(d, k)
             a == tx.amount
  <2>2. r \in Nat /\ s \in Nat /\ u \in Nat /\ p \in Nat /\ a \in Nat /\ base + r <= s /\ s <= base + r + p
    BY <1>6, <1>7, <1>8, <1>9, <1>10
  <2>3. CASE IsCoinbase(tx)
    <3>1. u = s + Reward /\ r = 0 /\ RewardUpTo(txs, k + 1) = Reward
      BY <1>2, <1>3, <1>4, <1>10, <2>3, ProcessSum
    <3>2. Paid(d, k + 1) = p
      BY <1>7, <2>1, <2>2, <2>3
    <3> HIDE DEF r, s, u, p, a
    <3>3. base + Reward <= u /\ u <= base + Reward + p
      BY <1>9, <2>2, <3>1
    <3> QED BY <3>1, <3>2, <3>3 DEF u
  <2>4. CASE ~IsCoinbase(tx) /\ tx.sender = tx.receiver
    <3>1. s <= u /\ u <= s + a /\ RewardUpTo(txs, k + 1) = r
      BY <1>2, <1>3, <1>4, <1>10, <2>4, ProcessSum
    <3>2. Paid(d, k + 1) = p + a
      BY <1>7, <2>4
    <3> HIDE DEF r, s, u, p, a
    <3>3. base + r <= u /\ u <= base + r + (p + a)
      BY <1>9, <2>2, <3>1
    <3> QED BY <3>1, <3>2, <3>3 DEF u
  <2>5. CASE ~IsCoinbase(tx) /\ tx.sender # tx.receiver
    <3>1. u = s /\ RewardUpTo(txs, k + 1) = r
      BY <1>2, <1>3, <1>4, <1>10, <2>5, ProcessSum
    <3>2. Paid(d, k + 1) = p
      BY <1>7, <2>2, <2>5
    <3> QED BY <2>2, <3>1, <3>2
  <2> QED BY <2>3, <2>4, <2>5
<1> QED BY <1>7, <1>11 DEF AccountedUpTo

LEMMA CoinsOfBlock ==
    ASSUME IsFiniteSet(Addr), NEW c \in Seq(Block), NEW b \in Block,
           FairTxs(b.txs), ValidateTransactions(b.txs), Accounted(c)
    PROVE  Accounted(Append(c, b))
<1> DEFINE txs == b.txs
           n == Len(txs)
           d == Append(c, b)
           T == {k \in Nat : k <= n => AccountedUpTo(c, b, k)}
<1>1. txs \in Seq(Tx) /\ n \in Nat /\ Len(c) \in Nat
  BY LenProperties DEF Block
<1>2. d \in Seq(Block) /\ Len(d) = Len(c) + 1 /\ d[Len(d)] = b /\ Len(d) > 0
  <2>1. d \in Seq(Block) /\ Len(d) = Len(c) + 1 /\ d[Len(c) + 1] = b
    BY AppendProperties
  <2> QED BY <1>1, <2>1
<1>3. 0 \in T
  <2>1. SubSeq(txs, 1, 0) = <<>>
    <3>1. 1 \in Int /\ 0 \in Int /\ 0 < 1
      OBVIOUS
    <3> QED BY <3>1, SubSeqEmpty
  <2>2. ReplayOf(c, b, 0) = Rebuild(c)
    BY <2>1, RebuildType, UpdateBalancesEmpty DEF ReplayOf
  <2>3. PlacesUpTo(d, 0) = Places(c) /\ PaidAt(d, Places(c)) = PaidAt(c, Places(c))
    BY PlacesBefore
  <2>4. RewardUpTo(txs, 0) = 0
    BY DEF RewardUpTo
  <2>5. Reward * (Len(c) - 1) + 0 = Reward * (Len(c) - 1)
    <3>1. Reward * (Len(c) - 1) \in Int
      BY <1>1, LedgerAssumption
    <3> QED BY <3>1
  <2>6. AccountedUpTo(c, b, 0)
    BY <2>2, <2>3, <2>4, <2>5 DEF AccountedUpTo, Accounted, Paid
  <2> QED BY <2>6
<1>4. ASSUME NEW k \in Nat, k \in T PROVE k + 1 \in T
  <2> SUFFICES ASSUME k + 1 <= n PROVE AccountedUpTo(c, b, k + 1)
    OBVIOUS
  <2>1. k \in 0 .. n - 1 /\ AccountedUpTo(c, b, k)
    BY <1>1, <1>4
  <2> QED BY <2>1, CoinsOfTransaction
<1>5. n \in T
  <2> HIDE DEF T, n
  <2> QED BY <1>1, <1>3, <1>4, EveryNumber
<1>6. AccountedUpTo(c, b, n)
  BY <1>1, <1>5
<1>7. RewardUpTo(txs, n) = Reward
  <2>1. \E i \in DOMAIN txs : IsCoinbase(txs[i])
    BY DEF ValidateTransactions
  <2>2. DOMAIN txs = 1 .. n
    BY <1>1, LenProperties
  <2> QED BY <2>1, <2>2 DEF RewardUpTo
<1>8. ReplayOf(c, b, n) = Rebuild(d)
  BY <1>1, SubSeqFull, RebuildAppend DEF ReplayOf
<1>9. PlacesUpTo(d, n) = Places(d)
  BY <1>2, PlacesAll
<1>10. Reward * (Len(c) - 1) + Reward = Reward * (Len(d) - 1)
  <2> DEFINE m == Len(c) - 1
  <2>1. m \in Int /\ Reward \in Int /\ Len(d) - 1 = m + 1
    BY <1>1, <1>2, LedgerAssumption
  <2> HIDE DEF m
  <2>2. Reward * m + Reward = Reward * (m + 1)
    BY <2>1
  <2> QED BY <2>1, <2>2 DEF m
<1> HIDE DEF d, n
<1> QED BY <1>6, <1>7, <1>8, <1>9, <1>10 DEF AccountedUpTo, Accounted, Paid, d

-----------------------------------------------------------------------------
(* Every coin of the serial node *)

\* Nobody makes up a reward, and nobody pays the pseudo-sender of rewards.
Fair ==
    /\ FairTxs(mempool)
    /\ \A t \in Threads : FairTx(newTx[t]) /\ FairTxs(newBlock[t].txs)
    /\ \A tx \in gossipTxs : FairTx(tx)
    /\ \A b \in gossipBlocks \cup Elems(chain) : FairTxs(b.txs)

CoinInv == ReplayInv /\ Fair /\ Accounted(chain)

LEMMA FairRecords ==
    /\ \A miner \in Addr, now \in Times : FairTx(Coinbase(miner, now))
    /\ \A from, to \in Addr : \A amount, now : FairTx(Transfer(from, to, amount, now))
    /\ \A now : FairTx(EmptyTx(now))
    /\ \A now : FairTxs(GenesisBlock(now).txs)
    /\ FairTx(NoTx) /\ FairTxs(NoBlock.txs) /\ FairTxs(<<>>)
<1>1. \A miner \in Addr, now \in Times : FairTx(Coinbase(miner, now))
  BY DEF FairTx, Coinbase
<1>2. \A from, to \in Addr : \A amount, now : FairTx(Transfer(from, to, amount, now))
  BY LedgerAssumption DEF FairTx, Transfer
<1>3. \A now : FairTx(EmptyTx(now))
  BY LedgerAssumption DEF FairTx, EmptyTx
<1>4. \A now : FairTxs(GenesisBlock(now).txs)
  <2> TAKE now
  <2>1. FairTx(Transfer(Genesis, Genesis, 0, now))
    BY DEF FairTx, Transfer
  <2> DEFINE tx == Transfer(Genesis, Genesis, 0, now)
  <2>2. GenesisBlock(now).txs = <<tx>>
    BY DEF GenesisBlock
  <2> HIDE DEF tx
  <2>3. Len(<<tx>>) = 1 /\ <<tx>>[1] = tx
    OBVIOUS
  <2> QED BY <2>1, <2>2, <2>3 DEF FairTxs, tx
<1>5. FairTx(NoTx) /\ FairTxs(NoBlock.txs) /\ FairTxs(<<>>)
  BY <1>3, EmptySeq DEF NoTx, NoBlock, FairTxs
<1> QED BY <1>1, <1>2, <1>3, <1>4, <1>5

LEMMA AppendFair ==
    ASSUME NEW S, NEW txs \in Seq(S), FairTxs(txs), NEW tx \in S, FairTx(tx)
    PROVE  FairTxs(Append(txs, tx))
<1>1. /\ Len(txs) \in Nat /\ Len(Append(txs, tx)) = Len(txs) + 1 /\ Append(txs, tx)[Len(txs) + 1] = tx
      /\ \A i \in 1 .. Len(txs) : Append(txs, tx)[i] = txs[i]
  BY AppendProperties, LenProperties
<1>2. \A i \in 1 .. Len(txs) + 1 : i \in 1 .. Len(txs) \/ i = Len(txs) + 1
  BY <1>1
<1> QED BY <1>1, <1>2 DEF FairTxs

\* The first node of a network has its genesis block, which creates no coin.
LEMMA CoinInit ==
    ASSUME IsFiniteSet(Addr)
    PROVE  Init => CoinInv
<1> SUFFICES ASSUME Init PROVE CoinInv
  OBVIOUS
<1>1. PICK now \in Times : FreshNode(now)
  BY DEF Init
<1> DEFINE g == GenesisBlock(now)
<1>2. chain = <<g>> /\ gossipBlocks = {g} /\ g \in Block
  BY <1>1, RecordTypes DEF FreshNode
<1>3. Elems(chain) = {g} /\ chain \in Seq(Block) /\ Len(chain) = 1 /\ chain[1] = g
  <2> HIDE DEF g
  <2>1. chain \in Seq(Block) /\ Len(chain) = 1 /\ chain[1] = g
    BY <1>2
  <2>2. DOMAIN chain = 1 .. 1
    BY <2>1, LenProperties
  <2> QED BY <2>1, <2>2 DEF Elems
<1>4. Fair
  BY <1>1, <1>2, <1>3, FairRecords DEF Fair, FreshNode
<1>5. Accounted(chain)
  <2>1. SumOf(Rebuild(chain)) = 0
    BY <1>2, RebuildGenesis, SumZero
  <2>2. Len(g.txs) = 1
    BY DEF GenesisBlock
  <2>3. \A p \in Places(chain) : p = <<1, 1>>
    <3> TAKE p \in Places(chain)
    <3> HIDE DEF g
    <3>1. p = <<p[1], p[2]>>
      BY PlacePairs
    <3>2. p[1] \in 1 .. Len(chain) /\ p[2] \in 1 .. Len(chain[p[1]].txs)
      BY <1>3, <3>1, PlaceOf
    <3>3. p[1] = 1
      BY <1>3, <3>2
    <3>4. chain[p[1]] = g
      BY <1>3, <3>3
    <3>5. p[2] \in 1 .. 1
      BY <2>2, <3>2, <3>4
    <3>6. p[2] = 1
      BY <3>5
    <3> QED BY <3>1, <3>3, <3>6
  <2>4. IsFiniteSet(Places(chain))
    <3>1. IsFiniteSet({<<1, 1>>})
      BY FS_Singleton
    <3>2. Places(chain) \in SUBSET {<<1, 1>>}
      BY <2>3
    <3> QED BY <3>1, <3>2, FS_Subset
  <2>5. SumOf(PaidAt(chain, Places(chain))) \in Nat
    <3>1. PaidAt(chain, Places(chain)) \in NumbersOf(Places(chain))
      BY <1>3, PaidNat
    <3> QED BY <2>4, <3>1, SumOfNat
  <2>6. Reward * (Len(chain) - 1) = 0
    BY <1>3, LedgerAssumption
  <2> QED BY <2>1, <2>4, <2>5, <2>6 DEF Accounted
<1> QED BY <1>4, <1>5, ReplayInit DEF CoinInv

\* What a step may do to the transactions of a fair node.
LEMMA FairKept ==
    ASSUME TypeOK, Fair, NEW t \in Threads,
           FairTxs(mempool'), gossipTxs' \subseteq gossipTxs \cup {newTx[t]},
           \A u \in Threads \ {t} : newTx'[u] = newTx[u] /\ newBlock'[u] = newBlock[u],
           FairTx(newTx'[t]), FairTxs(newBlock'[t].txs),
           \A b \in gossipBlocks' \cup Elems(chain)' :
             b \in gossipBlocks \cup Elems(chain) \/ FairTxs(b.txs)
    PROVE  Fair'
BY DEF Fair

LEMMA CoinStep ==
    ASSUME Serial, IsFiniteSet(Addr)
    PROVE  CoinInv /\ [Next]_vars => CoinInv'
<1> SUFFICES ASSUME CoinInv, [Next]_vars PROVE Fair' /\ Accounted(chain')
  BY ReplayStep DEF CoinInv
<1>a. TypeOK /\ Fair /\ Accounted(chain) /\ ChainInv /\ chain \in Seq(Block)
  BY DEF CoinInv, ReplayInv, SerialInv, ChainInv, TypeInv, TypeOK
<1>b. FairTxs(mempool) /\ \A t \in Threads : FairTx(newTx[t]) /\ FairTxs(newBlock[t].txs)
  BY <1>a DEF Fair
<1>c. ASSUME NEW tx \in Tx, FairTx(tx), AddTransaction(tx) PROVE FairTxs(mempool')
  <2>1. mempool' = mempool \/ mempool' = Append(mempool, tx)
    BY <1>c DEF AddTransaction
  <2>2. mempool \in Seq(Tx)
    BY <1>a DEF TypeOK
  <2>3. FairTxs(Append(mempool, tx))
    BY <1>b, <1>c, <2>2, AppendFair
  <2> QED BY <1>b, <2>1, <2>3
<1>1. ASSUME NEW t \in Users, MineBlock(t) PROVE Fair' /\ Accounted(chain')
  <2>0. t \in Threads
    BY DEF Threads
  <2>1. PICK now \in Times :
          newBlock' = [newBlock EXCEPT ![t] =
            [number |-> Len(chain), prev |-> Last(chain).hash, hash |-> NoHash,
             txs |-> Append(mempool, Coinbase(Me, now))]]
    BY <1>1 DEF MineBlock
  <2>2. newBlock'[t].txs = Append(mempool, Coinbase(Me, now))
    BY <1>a, <2>0, <2>1 DEF TypeOK
  <2>3. FairTxs(newBlock'[t].txs)
    BY <1>a, <1>b, <2>2, AppendFair, FairRecords, RecordTypes, BlockchainAssumption DEF TypeOK
  <2>4. /\ chain' = chain /\ mempool' = mempool /\ newTx' = newTx /\ gossipTxs' = gossipTxs
        /\ gossipBlocks' = gossipBlocks
        /\ \A u \in Threads \ {t} : newBlock'[u] = newBlock[u]
    BY <1>1, <1>a, <2>1 DEF MineBlock, nodeVars, TypeOK
  <2> QED BY <1>a, <1>b, <2>0, <2>3, <2>4, FairKept
<1>2. ASSUME NEW t \in Threads,
             \/ \E to \in Receivers, amount \in Amounts : SendMoney(t, to, amount)
             \/ \E amount \in Amounts : SendMoneyFails(t, amount)
      PROVE  Fair' /\ Accounted(chain')
  <2>1. /\ chain' = chain /\ mempool' = mempool /\ newBlock' = newBlock
        /\ gossipTxs' = gossipTxs /\ gossipBlocks' = gossipBlocks
        /\ \A u \in Threads \ {t} : newTx'[u] = newTx[u]
    BY <1>2, <1>a DEF SendMoney, SendMoneyFails, nodeVars, TypeOK
  <2>2. FairTx(newTx'[t])
    BY <1>2, <1>a, FairRecords, BlockchainAssumption DEF SendMoney, SendMoneyFails, TypeOK
  <2> QED BY <1>a, <1>b, <2>1, <2>2, FairKept
<1>3. ASSUME NEW t \in Net, NEW b \in gossipBlocks, ReceiveBlock(t, b) PROVE Fair' /\ Accounted(chain')
  <2>0. t \in Threads /\ b \in Block /\ FairTxs(b.txs)
    BY <1>a DEF Threads, TypeOK, Fair
  <2>1. ValidateTransactions(b.txs)
    BY <1>3, <1>a, ReceivedBlock
  <2>2. /\ chain' = Append(chain, b) /\ mempool' = mempool /\ newTx' = newTx /\ gossipTxs' = gossipTxs
        /\ gossipBlocks' = gossipBlocks /\ newBlock'[t] = b
        /\ \A u \in Threads \ {t} : newBlock'[u] = newBlock[u]
    BY <1>3, <1>a, <2>0 DEF ReceiveBlock, TypeOK
  <2>3. Elems(chain)' = Elems(chain) \cup {b}
    BY <1>a, <2>0, <2>2, AppendElems
  <2>4. Accounted(chain')
    BY <1>a, <2>0, <2>1, <2>2, CoinsOfBlock
  <2>5. Fair'
    BY <1>a, <1>b, <2>0, <2>2, <2>3, FairKept
  <2> QED BY <2>4, <2>5
<1>4. ASSUME NEW t \in Net, NEW tx \in gossipTxs, ReceiveTransaction(t, tx) PROVE Fair' /\ Accounted(chain')
  <2>1. tx \in Tx /\ FairTx(tx) /\ t \in Threads
    BY <1>a DEF TypeOK, Fair, Threads
  <2>2. FairTxs(mempool')
    BY <1>4, <1>c, <2>1 DEF ReceiveTransaction
  <2> QED BY <1>4, <1>a, <1>b, <2>1, <2>2, FairKept DEF ReceiveTransaction, threadVars
<1>5. ASSUME NEW t \in Threads, PushMined(t) PROVE Fair' /\ Accounted(chain')
  <2>1. PICK h \in FreshHash :
          /\ newBlock' = [newBlock EXCEPT ![t] = [newBlock[t] EXCEPT !.hash = h]]
          /\ chain' = Append(chain, [newBlock[t] EXCEPT !.hash = h])
    BY <1>5 DEF PushMined
  <2> DEFINE b == [newBlock[t] EXCEPT !.hash = h]
  <2>2. b \in Block /\ b.txs = newBlock[t].txs
    <3>1. newBlock[t] \in Block
      BY <1>a DEF TypeOK
    <3> QED BY <3>1 DEF Block, FreshHash
  <2>3. ValidateTransactions(b.txs) /\ FairTxs(b.txs)
    BY <1>5, <1>b, <2>2 DEF PushMined
  <2>4. /\ chain' = Append(chain, b) /\ mempool' = mempool /\ newTx' = newTx /\ gossipTxs' = gossipTxs
        /\ gossipBlocks' = gossipBlocks /\ newBlock'[t] = b
        /\ \A u \in Threads \ {t} : newBlock'[u] = newBlock[u]
    BY <1>5, <1>a, <2>1 DEF PushMined, TypeOK
  <2> HIDE DEF b
  <2>5. Elems(chain)' = Elems(chain) \cup {b}
    BY <1>a, <2>2, <2>4, AppendElems
  <2>6. Accounted(chain')
    BY <1>a, <2>2, <2>3, <2>4, CoinsOfBlock
  <2>7. Fair'
    BY <1>a, <1>b, <2>3, <2>4, <2>5, FairKept
  <2> QED BY <2>6, <2>7
<1>6. ASSUME NEW t \in Threads, RefuseMined(t) PROVE Fair' /\ Accounted(chain')
  <2>1. /\ chain' = chain /\ mempool' = mempool /\ gossipTxs' = gossipTxs /\ gossipBlocks' = gossipBlocks
        /\ newTx'[t] = NoTx /\ newBlock'[t] = NoBlock
        /\ \A u \in Threads \ {t} : newTx'[u] = newTx[u] /\ newBlock'[u] = newBlock[u]
    BY <1>6, <1>a DEF RefuseMined, Return, TypeOK, nodeVars
  <2> QED BY <1>a, <1>b, <2>1, FairKept, FairRecords
<1>7. ASSUME NEW t \in Threads, ReadBalances(t) \/ SkipTransaction(t) \/ WriteBalances(t) \/ ViewWallet(t)
      PROVE  Fair' /\ Accounted(chain')
  <2>1. /\ chain' = chain /\ mempool' = mempool /\ newBlock' = newBlock /\ newTx' = newTx
        /\ gossipTxs' = gossipTxs /\ gossipBlocks' = gossipBlocks
    BY <1>7 DEF ReadBalances, SkipTransaction, WriteBalances, ViewWallet, nodeVars, threadVars
  <2> QED BY <1>a, <1>b, <2>1, FairKept
<1>8. ASSUME NEW t \in Threads, FinishBlock(t) PROVE Fair' /\ Accounted(chain')
  <2>1. /\ chain' = chain /\ mempool' = <<>> /\ gossipTxs' = gossipTxs
        /\ gossipBlocks' = gossipBlocks \cup {Announced(t)}
        /\ newTx'[t] = NoTx /\ newBlock'[t] = NoBlock
        /\ \A u \in Threads \ {t} : newTx'[u] = newTx[u] /\ newBlock'[u] = newBlock[u]
    BY <1>8, <1>a DEF FinishBlock, Return, TypeOK
  <2>2. Announced(t) \in Elems(chain) \/ FairTxs(Announced(t).txs)
    <3>1. Last(chain) \in Elems(chain)
      BY <1>a, LenProperties DEF TypeOK, Last, Elems
    <3> QED BY <1>b, <3>1 DEF Announced
  <2> QED BY <1>a, <1>b, <2>1, <2>2, FairKept, FairRecords
<1>9. ASSUME NEW t \in Threads, SubmitTransaction(t) PROVE Fair' /\ Accounted(chain')
  <2>1. /\ chain' = chain /\ gossipTxs' = gossipTxs \cup {newTx[t]} /\ gossipBlocks' = gossipBlocks
        /\ newTx'[t] = NoTx /\ newBlock'[t] = NoBlock
        /\ \A u \in Threads \ {t} : newTx'[u] = newTx[u] /\ newBlock'[u] = newBlock[u]
    BY <1>9, <1>a DEF SubmitTransaction, Return, TypeOK
  <2>2. newTx[t] \in Tx
    BY <1>a DEF TypeOK
  <2>3. FairTxs(mempool')
    BY <1>9, <1>b, <1>c, <2>2 DEF SubmitTransaction
  <2> QED BY <1>a, <1>b, <2>1, <2>3, FairKept, FairRecords
<1>10. ASSUME NEW miner \in Addr, NEW parent \in gossipBlocks, NEW n \in 0 .. MaxPeerTxs,
              PeerMines(miner, parent, n)
       PROVE  Fair' /\ Accounted(chain')
  <2>1. PICK now \in Times, h \in FreshHash, s \in [1 .. n -> gossipTxs] :
          gossipBlocks' = gossipBlocks \cup
            {[number |-> parent.number + 1, prev |-> parent.hash, hash |-> h,
              txs |-> Append(s, Coinbase(miner, now))]}
    BY <1>10 DEF PeerMines
  <2>2. n \in Nat
    BY BlockchainAssumption
  <2>3. s \in Seq(Tx) /\ Len(s) = n /\ FairTxs(s)
    <3>1. \A i \in 1 .. n : s[i] \in Tx /\ FairTx(s[i])
      BY <1>a DEF TypeOK, Fair
    <3>2. s = [i \in 1 .. n |-> s[i]]
      OBVIOUS
    <3>3. s \in Seq(Tx) /\ Len(s) = n
      BY <2>2, <3>1, <3>2, IsASeq, LenProperties
    <3> QED BY <3>1, <3>3 DEF FairTxs
  <2>4. FairTxs(Append(s, Coinbase(miner, now)))
    BY <2>3, AppendFair, FairRecords, RecordTypes
  <2>5. UNCHANGED <<nodeVars, threadVars, gossipTxs>>
    BY <1>10 DEF PeerMines
  <2> DEFINE b == [number |-> parent.number + 1, prev |-> parent.hash, hash |-> h,
                   txs |-> Append(s, Coinbase(miner, now))]
  <2>6. FairTxs(b.txs) /\ gossipBlocks' = gossipBlocks \cup {b}
    BY <2>1, <2>4
  <2> HIDE DEF b
  <2>7. Fair'
    BY <1>a, <2>5, <2>6 DEF Fair, nodeVars, threadVars
  <2> QED BY <1>a, <2>5, <2>7 DEF nodeVars
<1>11. ASSUME NEW from \in Addr, NEW to \in Receivers, NEW amount \in Amounts, PeerSends(from, to, amount)
       PROVE  Fair' /\ Accounted(chain')
  <2>1. \A tx \in gossipTxs' : tx \in gossipTxs \/ FairTx(tx)
    BY <1>11, FairRecords, BlockchainAssumption DEF PeerSends
  <2> QED BY <1>11, <1>a, <2>1 DEF PeerSends, Fair, nodeVars, threadVars
<1>12. CASE UNCHANGED vars
  BY <1>12, <1>a DEF vars, nodeVars, threadVars, Fair
<1>13. \A t \in Users : t \in Threads
  BY DEF Threads
<1>14. ASSUME NEW t \in Threads, DebitWallet(t) PROVE Fair' /\ Accounted(chain')
  BY <1>14, <1>a DEF DebitWallet, Fair
<1> QED
  BY <1>1, <1>2, <1>3, <1>4, <1>5, <1>6, <1>7, <1>8, <1>9, <1>10, <1>11, <1>12, <1>13, <1>14
  DEF Next, UserStep, NetStep, Continue, PeerStep

\* Whatever a node whose calls do not overlap confirms, its coins are one reward
\* for each block and what payments to oneself have added.  Addresses are of one
\* length, so there are finitely many.
THEOREM SerialCoinsAccounted ==
    ASSUME Serial, IsFiniteSet(Addr)
    PROVE  Spec => []CoinsAccounted
<1>1. CoinInv /\ [Next]_vars => CoinInv'
  BY CoinStep
<1>2. CoinInv => CoinsAccounted
  <2> SUFFICES ASSUME CoinInv, Idle PROVE CoinsAccounted
    BY DEF CoinsAccounted
  <2> DEFINE mined == Reward * (Len(chain) - 1)
             paid == SumOf([p \in SelfPayments |-> chain[p[1]].txs[p[2]].amount])
  <2>1. balances = Rebuild(chain) /\ chain \in Seq(Block) /\ Accounted(chain)
    BY DEF CoinInv, ReplayInv, SerialInv, ChainInv, TypeInv, TypeOK, Replayed, Busy, Idle
  <2>2. SelfPayments = Places(chain)
    BY DEF SelfPayments, Places
  <2>3. paid = SumOf(PaidAt(chain, Places(chain)))
    BY <2>2 DEF PaidAt
  <2>4. mined <= TotalSupply /\ TotalSupply <= mined + paid
    BY <2>1, <2>3 DEF Accounted, TotalSupply
  <2>5. mined \in Int /\ TotalSupply \in Nat /\ paid \in Nat
    <3>1. Len(chain) \in Nat
      BY <2>1, LenProperties
    <3>2. balances \in NumbersOf(Addr)
      BY <2>1, RebuildType DEF Balances, NumbersOf
    <3>3. PaidAt(chain, Places(chain)) \in NumbersOf(Places(chain)) /\ IsFiniteSet(Places(chain))
      BY <2>1, PaidNat DEF Accounted
    <3> QED BY <2>3, <3>1, <3>2, <3>3, SumOfNat, LedgerAssumption DEF TotalSupply
  <2> HIDE DEF mined, paid
  <2>6. TotalSupply \in mined .. mined + paid
    BY <2>4, <2>5
  <2> QED BY <2>6 DEF CoinsAccounted, mined, paid
<1>3. Init => CoinInv
  BY CoinInit
<1> QED
  BY <1>1, <1>2, <1>3, PTL DEF Spec

-----------------------------------------------------------------------------
(* Sequences put one after the other *)

\* f[i] is the first i sequences of ss put together.
IsFlat(f, ss, n) == f = [i \in 1 .. n |-> IF i = 1 THEN ss[i] ELSE f[i - 1] \o ss[i]]

LEMMA FlatExists ==
    ASSUME NEW ss, NEW n \in Nat
    PROVE  \E f : IsFlat(f, ss, n)
<1> DEFINE T == {m \in Nat : \E f : IsFlat(f, ss, m)}
<1>1. 0 \in T
  <2>1. IsFlat([i \in 1 .. 0 |-> 0], ss, 0)
    BY DEF IsFlat
  <2> QED BY <2>1
<1>2. ASSUME NEW m \in Nat, m \in T PROVE m + 1 \in T
  <2>1. PICK f : IsFlat(f, ss, m)
    BY <1>2
  <2> DEFINE g == [i \in 1 .. m + 1 |->
                     IF i = 1 THEN ss[1] ELSE IF i = m + 1 THEN f[m] \o ss[m + 1] ELSE f[i]]
  <2>2. ASSUME NEW i \in 1 .. m + 1 PROVE g[i] = IF i = 1 THEN ss[i] ELSE g[i - 1] \o ss[i]
    <3>1. ASSUME NEW k \in 1 .. m PROVE g[k] = f[k]
      <4>1. k # m + 1 /\ k \in 1 .. m + 1
        OBVIOUS
      <4>2. k = 1 => f[k] = ss[1]
        BY <2>1 DEF IsFlat
      <4> QED BY <4>1, <4>2
    <3>2. CASE i = 1
      BY <3>2
    <3>3. CASE i # 1 /\ i = m + 1
      <4>0. i - 1 = m /\ m \in 1 .. m
        BY <3>3
      <4>1. g[i] = f[m] \o ss[m + 1] /\ i - 1 = m /\ m \in 1 .. m
        BY <3>3, <4>0
      <4>2. g[m] = f[m]
        BY <4>1, <3>1
      <4> HIDE DEF g
      <4> QED BY <3>3, <4>1, <4>2
    <3>4. CASE i # 1 /\ i # m + 1
      <4>1. i \in 1 .. m /\ i - 1 \in 1 .. m
        BY <3>4
      <4>2. f[i] = f[i - 1] \o ss[i]
        BY <2>1, <3>4, <4>1 DEF IsFlat
      <4>3. g[i] = f[i] /\ g[i - 1] = f[i - 1]
        BY <4>1, <3>1
      <4> HIDE DEF g
      <4> QED BY <3>4, <4>2, <4>3
    <3> QED BY <3>2, <3>3, <3>4
  <2>3. IsFlat(g, ss, m + 1)
    BY <2>2 DEF IsFlat
  <2> QED BY <2>3
<1>3. Nat \subseteq T
  <2> HIDE DEF T
  <2> QED BY <1>1, <1>2, EveryNumber
<1> QED BY <1>3

\* Where the entries of a list come from: place[k] is the number of the sequence
\* that the k-th entry was in.
FromPlaces(list, ss, n, place) ==
    /\ place \in [1 .. Len(list) -> 1 .. n]
    /\ \A k \in 1 .. Len(list) : \E j \in 1 .. Len(ss[place[k]]) : list[k] = ss[place[k]][j]
    /\ \A k, l \in 1 .. Len(list) : k <= l => place[k] <= place[l]

LEMMA OneMorePlace ==
    ASSUME NEW S, NEW ss, NEW n \in Nat, NEW list \in Seq(S), ss[n + 1] \in Seq(S),
           NEW place, FromPlaces(list, ss, n, place)
    PROVE  \E p : FromPlaces(list \o ss[n + 1], ss, n + 1, p)
<1> DEFINE more == list \o ss[n + 1]
           p == [k \in 1 .. Len(more) |-> IF k <= Len(list) THEN place[k] ELSE n + 1]
<1>1. /\ Len(list) \in Nat /\ Len(ss[n + 1]) \in Nat /\ Len(more) = Len(list) + Len(ss[n + 1])
      /\ \A k \in 1 .. Len(list) : more[k] = list[k]
      /\ \A k \in 1 .. Len(more) : k > Len(list) => more[k] = ss[n + 1][k - Len(list)]
  BY ConcatProperties, LenProperties
<1> HIDE DEF more
<1>2. p \in [1 .. Len(more) -> 1 .. n + 1]
  BY <1>1 DEF FromPlaces
<1>3. ASSUME NEW k \in 1 .. Len(more)
      PROVE  \E j \in 1 .. Len(ss[p[k]]) : more[k] = ss[p[k]][j]
  <2>1. CASE k <= Len(list)
    <3>1. k \in 1 .. Len(list) /\ p[k] = place[k] /\ more[k] = list[k]
      BY <1>1, <2>1
    <3> HIDE DEF p
    <3> QED BY <3>1 DEF FromPlaces
  <2>2. CASE ~(k <= Len(list))
    <3>1. p[k] = n + 1 /\ more[k] = ss[n + 1][k - Len(list)] /\ k - Len(list) \in 1 .. Len(ss[n + 1])
      BY <1>1, <2>2
    <3> HIDE DEF p
    <3> QED BY <3>1
  <2> QED BY <2>1, <2>2
<1>4. ASSUME NEW k \in 1 .. Len(more), NEW l \in 1 .. Len(more), k <= l PROVE p[k] <= p[l]
  <2>1. CASE l <= Len(list)
    <3>1. k \in 1 .. Len(list) /\ l \in 1 .. Len(list) /\ p[k] = place[k] /\ p[l] = place[l]
      BY <1>1, <1>4, <2>1
    <3> QED BY <1>4, <3>1 DEF FromPlaces
  <2>2. CASE ~(l <= Len(list))
    <3>1. p[l] = n + 1
      BY <2>2
    <3>2. p[k] \in 1 .. n + 1
      BY <1>2
    <3> QED BY <3>1, <3>2
  <2> QED BY <2>1, <2>2
<1>5. FromPlaces(more, ss, n + 1, p)
  <2> HIDE DEF p
  <2> QED BY <1>2, <1>3, <1>4 DEF FromPlaces
<1> QED BY <1>5 DEF more

\* FlattenSeq keeps the order: each entry of the result is one of a sequence of
\* ss, and a later entry is not of an earlier sequence.
LEMMA FlattenInOrder ==
    ASSUME NEW S, NEW n \in Nat, NEW ss, ss = [i \in 1 .. n |-> ss[i]],
           \A i \in 1 .. n : ss[i] \in Seq(S)
    PROVE  /\ SeqExt!FlattenSeq(ss) \in Seq(S)
           /\ \E place : FromPlaces(SeqExt!FlattenSeq(ss), ss, n, place)
<1>1. ss \in Seq(Seq(S)) /\ Len(ss) = n
  OBVIOUS
<1>2. CASE n = 0
  <2>1. SeqExt!FlattenSeq(ss) = ss
    BY <1>1, <1>2 DEF SeqExt!FlattenSeq
  <2>2. ss = <<>>
    BY <1>1, <1>2
  <2>3. FromPlaces(<<>>, ss, n, [k \in 1 .. 0 |-> 0])
    BY DEF FromPlaces
  <2>4. <<>> \in Seq(S)
    OBVIOUS
  <2>5. SeqExt!FlattenSeq(ss) = <<>>
    BY <2>1, <2>2
  <2> QED BY <2>3, <2>4, <2>5
<1>3. CASE n # 0
  <2> DEFINE Eq(f) == f = [i \in 1 .. Len(ss) |-> IF i = 1 THEN ss[i] ELSE f[i - 1] \o ss[i]]
  <2>1. SeqExt!FlattenSeq(ss) = (CHOOSE f : Eq(f))[Len(ss)]
    BY <1>1, <1>3 DEF SeqExt!FlattenSeq
  <2>2. \A f : Eq(f) <=> IsFlat(f, ss, n)
    BY <1>1 DEF IsFlat
  <2> HIDE DEF Eq
  <2>3. PICK f : IsFlat(f, ss, n) /\ SeqExt!FlattenSeq(ss) = f[n]
    <3>1. \E f : Eq(f)
      BY <2>2, FlatExists
    <3>2. Eq(CHOOSE f : Eq(f))
      BY <3>1
    <3> QED BY <1>1, <2>1, <2>2, <3>2
  <2> DEFINE Good(m) == f[m] \in Seq(S) /\ \E place : FromPlaces(f[m], ss, m, place)
             T == {m \in Nat : m + 1 <= n => Good(m + 1)}
  <2>4. 0 \in T
    <3>1. 1 \in 1 .. n
      BY <1>3
    <3>2. f[1] = ss[1] /\ ss[1] \in Seq(S)
      BY <2>3, <3>1 DEF IsFlat
    <3>3. Len(ss[1]) \in Nat
      BY <3>2, LenProperties
    <3>4. FromPlaces(ss[1], ss, 1, [k \in 1 .. Len(ss[1]) |-> 1])
      <4> DEFINE p == [k \in 1 .. Len(ss[1]) |-> 1]
      <4>1. p \in [1 .. Len(ss[1]) -> 1 .. 1] /\ \A k \in 1 .. Len(ss[1]) : p[k] = 1
        OBVIOUS
      <4> HIDE DEF p
      <4>2. \A k \in 1 .. Len(ss[1]) : \E j \in 1 .. Len(ss[p[k]]) : ss[1][k] = ss[p[k]][j]
        BY <4>1
      <4>3. ASSUME NEW k \in 1 .. Len(ss[1]), NEW l \in 1 .. Len(ss[1]) PROVE p[k] <= p[l]
        <5>1. p[k] = 1 /\ p[l] = 1
          BY <4>1
        <5> QED BY <5>1
      <4>4. FromPlaces(ss[1], ss, 1, p)
        BY <4>1, <4>2, <4>3 DEF FromPlaces
      <4> QED BY <4>4 DEF p
    <3>5. Good(1)
      BY <3>2, <3>4
    <3> HIDE DEF Good
    <3> QED BY <3>5
  <2>5. ASSUME NEW m \in Nat, m \in T PROVE m + 1 \in T
    <3>1. SUFFICES ASSUME m + 2 <= n PROVE Good(m + 2)
      <4>1. (m + 1) + 1 = m + 2
        OBVIOUS
      <4> HIDE DEF Good
      <4> QED BY <4>1
    <3>2. Good(m + 1)
      <4>1. m + 1 <= n
        BY <3>1
      <4> HIDE DEF Good
      <4> QED BY <2>5, <4>1
    <3>3. f[m + 2] = f[m + 1] \o ss[m + 2] /\ ss[m + 2] \in Seq(S)
      <4>1. m + 2 \in 1 .. n /\ m + 2 # 1 /\ (m + 2) - 1 = m + 1
        BY <3>1
      <4> QED BY <2>3, <4>1 DEF IsFlat
    <3>4. (m + 1) + 1 = m + 2 /\ m + 1 \in Nat
      OBVIOUS
    <3>5. f[m + 2] \in Seq(S)
      BY <3>2, <3>3, ConcatProperties
    <3>6. PICK place : FromPlaces(f[m + 1], ss, m + 1, place)
      BY <3>2
    <3>7. \E p : FromPlaces(f[m + 1] \o ss[(m + 1) + 1], ss, (m + 1) + 1, p)
      BY <3>2, <3>3, <3>4, <3>6, OneMorePlace
    <3> QED BY <3>3, <3>4, <3>5, <3>7
  <2>6. Good(n)
    <3>1. n - 1 \in Nat /\ (n - 1) + 1 = n
      BY <1>3
    <3>2. n - 1 \in T
      <4> HIDE DEF T
      <4> QED BY <3>1, <2>4, <2>5, EveryNumber
    <3> HIDE DEF Good
    <3> QED BY <3>1, <3>2
  <2> QED BY <2>3, <2>6
<1> QED BY <1>2, <1>3

-----------------------------------------------------------------------------
(* The lists of the explorer *)

Entry == [tx : Tx, status : {"Pending", "Confirmed"}, block : Nat]

\* What is listed as pending is pending.
AllPending(list) ==
    list \in Seq(Entry)
    /\ \A k \in 1 .. Len(list) : list[k] = PendingEntry(list[k].tx) /\ InMempool(list[k].tx)

\* What is listed as confirmed is in the block listed, and older blocks come later.
NewestFirst(list) ==
    /\ list \in Seq(Entry)
    /\ \A k \in 1 .. Len(list) :
         /\ list[k].status = "Confirmed"
         /\ list[k].block < Len(chain)
         /\ list[k].tx \in Elems(chain[list[k].block + 1].txs)
    /\ \A k, l \in 1 .. Len(list) : k <= l => list[l].block <= list[k].block

LEMMA ChainTypes ==
    ASSUME TypeOK
    PROVE  /\ Len(chain) \in Nat \ {0} /\ DOMAIN chain = 1 .. Len(chain)
           /\ \A i \in 1 .. Len(chain) :
                /\ chain[i] \in Block /\ chain[i].txs \in Seq(Tx)
                /\ Len(chain[i].txs) \in Nat /\ DOMAIN chain[i].txs = 1 .. Len(chain[i].txs)
<1>1. Len(chain) \in Nat /\ DOMAIN chain = 1 .. Len(chain) /\ Len(chain) # 0
  BY LenProperties DEF TypeOK
<1>2. \A i \in 1 .. Len(chain) : chain[i] \in Block
  BY ElementOfSeq DEF TypeOK
<1>3. \A b \in Block : b.txs \in Seq(Tx)
  BY DEF Block
<1> QED BY <1>1, <1>2, <1>3, LenProperties

\* The list of all confirmed transactions has the newest first.
LEMMA ConfirmedNewestFirst ==
    ASSUME TypeOK, Linked
    PROVE  NewestFirst(ConfirmedEntries)
<1> DEFINE n == Len(chain)
           back(i) == chain[n - i + 1]
           ss == [i \in DOMAIN chain |-> EntriesOf(SeqExt!Reverse(chain)[i])]
           list == SeqExt!FlattenSeq(ss)
<1>1. n \in Nat /\ DOMAIN chain = 1 .. n
  BY ChainTypes
<1>2. ASSUME NEW i \in 1 .. n
      PROVE  /\ ss[i] = EntriesOf(back(i))
             /\ n - i + 1 \in 1 .. n /\ back(i).number = n - i
             /\ back(i).txs \in Seq(Tx) /\ Len(back(i).txs) \in Nat
             /\ DOMAIN back(i).txs = 1 .. Len(back(i).txs)
  <2>1. n - i + 1 \in 1 .. n /\ (n - i + 1) - 1 = n - i
    BY <1>1
  <2>2. SeqExt!Reverse(chain)[i] = back(i)
    BY <1>1 DEF SeqExt!Reverse
  <2>3. ss[i] = EntriesOf(back(i))
    BY <1>1, <2>2
  <2> QED BY <2>1, <2>3, ChainTypes DEF Linked
<1> HIDE DEF back
<1>3. ASSUME NEW i \in 1 .. n
      PROVE  /\ ss[i] \in Seq(Entry) /\ Len(ss[i]) = Len(back(i).txs)
             /\ \A j \in 1 .. Len(ss[i]) :
                  /\ ss[i][j] = ConfirmedEntry(back(i).txs[j], back(i))
                  /\ back(i).txs[j] \in Elems(back(i).txs) /\ back(i).txs[j] \in Tx
  <2> DEFINE txs == back(i).txs
             e(j) == ConfirmedEntry(txs[j], back(i))
             es == [j \in 1 .. Len(txs) |-> e(j)]
  <2>1. txs \in Seq(Tx) /\ Len(txs) \in Nat /\ DOMAIN txs = 1 .. Len(txs)
    BY <1>2
  <2>2. \A j \in 1 .. Len(txs) : txs[j] \in Tx /\ txs[j] \in Elems(txs)
    BY <2>1, ElementOfSeq DEF Elems
  <2>3. n - i \in Nat /\ back(i).number = n - i
    BY <1>1, <1>2
  <2>4. \A j \in 1 .. Len(txs) : e(j) \in Entry
    BY <2>2, <2>3 DEF ConfirmedEntry, Entry
  <2>5. ss[i] = es
    BY <1>2, <2>1 DEF EntriesOf
  <2>6. es \in Seq(Entry) /\ Len(es) = Len(txs) /\ \A j \in 1 .. Len(txs) : es[j] = e(j)
    <3> HIDE DEF e
    <3> QED BY <2>1, <2>4
  <2> QED BY <2>2, <2>5, <2>6
<1>4. ss = [i \in 1 .. n |-> ss[i]]
  BY <1>1
<1> HIDE DEF ss
<1>5. list \in Seq(Entry) /\ \E place : FromPlaces(list, ss, n, place)
  BY <1>1, <1>3, <1>4, FlattenInOrder
<1>6. list = ConfirmedEntries
  BY DEF ConfirmedEntries, ss
<1> HIDE DEF list
<1>7. PICK place : FromPlaces(list, ss, n, place)
  BY <1>5
<1>8. ASSUME NEW k \in 1 .. Len(list)
      PROVE  /\ place[k] \in 1 .. n
             /\ list[k].status = "Confirmed" /\ list[k].block = n - place[k]
             /\ list[k].tx \in Elems(chain[n - place[k] + 1].txs)
  <2>1. place[k] \in 1 .. n
    BY <1>7 DEF FromPlaces
  <2>2. PICK j \in 1 .. Len(ss[place[k]]) : list[k] = ss[place[k]][j]
    BY <1>7 DEF FromPlaces
  <2>3. /\ list[k] = ConfirmedEntry(back(place[k]).txs[j], back(place[k]))
        /\ back(place[k]).txs[j] \in Elems(back(place[k]).txs)
    BY <1>3, <2>1, <2>2
  <2> QED BY <1>2, <2>1, <2>3 DEF ConfirmedEntry, back
<1>9. ASSUME NEW k \in 1 .. Len(list), NEW l \in 1 .. Len(list), k <= l
      PROVE  list[l].block <= list[k].block
  <2>1. place[k] <= place[l]
    BY <1>7, <1>9 DEF FromPlaces
  <2> QED BY <1>1, <1>8, <2>1
<1>10. ASSUME NEW k \in 1 .. Len(list)
       PROVE  /\ list[k].status = "Confirmed"
              /\ list[k].block < Len(chain)
              /\ list[k].tx \in Elems(chain[list[k].block + 1].txs)
  BY <1>1, <1>8
<1> QED BY <1>5, <1>6, <1>9, <1>10 DEF NewestFirst

\* The list of all pending transactions.
LEMMA PendingListed ==
    ASSUME TypeOK
    PROVE  AllPending(PendingEntries)
<1> DEFINE n == Len(mempool)
           e(i) == PendingEntry(mempool[i])
           list == [i \in 1 .. n |-> e(i)]
<1>1. n \in Nat /\ DOMAIN mempool = 1 .. n
  BY LenProperties DEF TypeOK
<1>2. ASSUME NEW i \in 1 .. n PROVE e(i) \in Entry /\ e(i) = PendingEntry(e(i).tx) /\ InMempool(e(i).tx)
  <2>1. mempool[i] \in Tx /\ mempool[i] \in Elems(mempool)
    BY <1>1, ElementOfSeq DEF TypeOK, Elems
  <2> QED BY <2>1 DEF PendingEntry, Entry, InMempool
<1>3. list = PendingEntries
  BY <1>1 DEF PendingEntries
<1>4. list \in Seq(Entry) /\ Len(list) = n /\ \A i \in 1 .. n : list[i] = e(i)
  <2> HIDE DEF e
  <2> QED BY <1>1, <1>2
<1> HIDE DEF list
<1> QED BY <1>2, <1>3, <1>4 DEF AllPending

\* The entries of an address are entries of the list, in the same order.
LEMMA AddressInOrder ==
    ASSUME NEW list \in Seq(Entry), NEW a
    PROVE  /\ OfAddress(list, a) \in Seq(Entry)
           /\ \E place \in [1 .. Len(OfAddress(list, a)) -> 1 .. Len(list)] :
                /\ \A k \in 1 .. Len(OfAddress(list, a)) : OfAddress(list, a)[k] = list[place[k]]
                /\ \A k, l \in 1 .. Len(OfAddress(list, a)) : k <= l => place[k] <= place[l]
<1> DEFINE n == Len(list)
           ss == [i \in DOMAIN list |->
                    IF a \in {list[i].tx.sender, list[i].tx.receiver} THEN <<list[i]>> ELSE <<>>]
           some == SeqExt!FlattenSeq(ss)
<1>1. n \in Nat /\ DOMAIN list = 1 .. n
  BY LenProperties
<1>2. ASSUME NEW i \in 1 .. n
      PROVE  ss[i] \in Seq(Entry) /\ \A j \in 1 .. Len(ss[i]) : ss[i][j] = list[i]
  <2>1. list[i] \in Entry
    BY <1>1, ElementOfSeq
  <2>2. CASE ss[i] = <<list[i]>>
    <3> HIDE DEF ss
    <3> QED BY <2>1, <2>2
  <2>3. CASE ss[i] = <<>>
    <3> HIDE DEF ss
    <3> QED BY <2>3
  <2>4. ss[i] = <<list[i]>> \/ ss[i] = <<>>
    BY <1>1
  <2> QED BY <2>2, <2>3, <2>4
<1>3. ss = [i \in 1 .. n |-> ss[i]]
  BY <1>1
<1> HIDE DEF ss
<1>4. some \in Seq(Entry) /\ \E place : FromPlaces(some, ss, n, place)
  BY <1>1, <1>2, <1>3, FlattenInOrder
<1>5. some = OfAddress(list, a)
  BY DEF OfAddress, ss
<1> HIDE DEF some
<1>6. PICK place : FromPlaces(some, ss, n, place)
  BY <1>4
<1>7. ASSUME NEW k \in 1 .. Len(some) PROVE some[k] = list[place[k]]
  <2>1. place[k] \in 1 .. n
    BY <1>6 DEF FromPlaces
  <2> QED BY <1>2, <1>6, <2>1 DEF FromPlaces
<1>8. /\ place \in [1 .. Len(some) -> 1 .. n]
      /\ \A k, l \in 1 .. Len(some) : k <= l => place[k] <= place[l]
  BY <1>6 DEF FromPlaces
<1> QED BY <1>4, <1>5, <1>7, <1>8

LEMMA AddressPending ==
    ASSUME NEW list, AllPending(list), NEW a
    PROVE  AllPending(OfAddress(list, a))
<1> DEFINE some == OfAddress(list, a)
<1>1. list \in Seq(Entry)
  BY DEF AllPending
<1>2. some \in Seq(Entry)
  BY <1>1, AddressInOrder
<1>3. PICK place \in [1 .. Len(some) -> 1 .. Len(list)] :
        \A k \in 1 .. Len(some) : some[k] = list[place[k]]
  BY <1>1, AddressInOrder
<1> HIDE DEF some
<1>4. \A k \in 1 .. Len(some) : place[k] \in 1 .. Len(list) /\ some[k] = list[place[k]]
  BY <1>3
<1> QED BY <1>2, <1>4 DEF AllPending, some

LEMMA AddressNewestFirst ==
    ASSUME NEW list, NewestFirst(list), NEW a
    PROVE  NewestFirst(OfAddress(list, a))
<1> DEFINE some == OfAddress(list, a)
<1>1. list \in Seq(Entry)
  BY DEF NewestFirst
<1>2. some \in Seq(Entry)
  BY <1>1, AddressInOrder
<1>3. PICK place \in [1 .. Len(some) -> 1 .. Len(list)] :
        /\ \A k \in 1 .. Len(some) : some[k] = list[place[k]]
        /\ \A k, l \in 1 .. Len(some) : k <= l => place[k] <= place[l]
  BY <1>1, AddressInOrder
<1> HIDE DEF some
<1>4. \A k \in 1 .. Len(some) : place[k] \in 1 .. Len(list) /\ some[k] = list[place[k]]
  BY <1>3
<1>5. \A k, l \in 1 .. Len(some) : k <= l => some[l].block <= some[k].block
  BY <1>3, <1>4 DEF NewestFirst
<1>6. \A k \in 1 .. Len(some) :
        /\ some[k].status = "Confirmed" /\ some[k].block < Len(chain)
        /\ some[k].tx \in Elems(chain[some[k].block + 1].txs)
  BY <1>4 DEF NewestFirst
<1> QED BY <1>2, <1>5, <1>6 DEF NewestFirst, some

\* The first entries of a list.
LEMMA TopEntries ==
    ASSUME NEW S, NEW list \in Seq(S), NEW limit \in Nat
    PROVE  /\ Top(list, limit) \in Seq(S)
           /\ Len(Top(list, limit)) \in 0 .. Len(list)
           /\ \A k \in 1 .. Len(Top(list, limit)) : Top(list, limit)[k] = list[k]
<1> DEFINE m == Shorter(limit, Len(list))
<1>1. Len(list) \in Nat /\ m \in 0 .. Len(list)
  BY LenProperties DEF Shorter
<1>2. \A k \in 1 .. m : list[k] \in S
  BY <1>1, ElementOfSeq
<1> HIDE DEF m
<1>3. /\ SubSeq(list, 1, m) \in Seq(S)
      /\ Len(SubSeq(list, 1, m)) = IF 1 <= m THEN m - 1 + 1 ELSE 0
      /\ \A k \in 1 .. m - 1 + 1 : SubSeq(list, 1, m)[k] = list[1 + k - 1]
  BY <1>1, <1>2, SubSeqProperties
<1>4. m \in Nat /\ m - 1 + 1 = m
  BY <1>1
<1>5. Len(SubSeq(list, 1, m)) = m
  BY <1>3, <1>4
<1>6. \A k \in 1 .. m : SubSeq(list, 1, m)[k] = list[k]
  BY <1>3, <1>4
<1> QED BY <1>1, <1>3, <1>5, <1>6 DEF Top, m

LEMMA TopNewestFirst ==
    ASSUME NEW list, NewestFirst(list), NEW limit \in Nat
    PROVE  NewestFirst(Top(list, limit))
<1> DEFINE top == Top(list, limit)
<1>1. list \in Seq(Entry) /\ Len(list) \in Nat
  BY LenProperties DEF NewestFirst
<1>2. /\ top \in Seq(Entry) /\ Len(top) \in 0 .. Len(list)
      /\ \A k \in 1 .. Len(top) : top[k] = list[k]
  BY <1>1, TopEntries
<1> HIDE DEF top
<1>3. \A k \in 1 .. Len(top) : k \in 1 .. Len(list) /\ top[k] = list[k]
  BY <1>1, <1>2
<1> QED BY <1>2, <1>3 DEF NewestFirst, top

-----------------------------------------------------------------------------
(* Details *)

\* The first block with a confirmed transaction is one that holds it, and none
\* before it does.
LEMMA FirstIsFirst ==
    ASSUME TypeOK, NEW tx \in Confirmed
    PROVE  \E i \in 1 .. Len(chain) :
             /\ FirstBlockWith(tx) = chain[i] /\ tx \in Elems(chain[i].txs)
             /\ \A j \in 1 .. Len(chain) : tx \in Elems(chain[j].txs) => i <= j
<1> DEFINE places == {i \in DOMAIN chain : tx \in Elems(chain[i].txs)}
           least(i) == i \in places /\ \A j \in places : i <= j
<1>1. DOMAIN chain = 1 .. Len(chain) /\ Len(chain) \in Nat
  BY ChainTypes
<1>2. places # {} /\ places \subseteq Nat
  BY <1>1 DEF Confirmed, Elems
<1>3. \E i \in places : \A j \in places : i <= j
  <2> DEFINE none == {n \in Nat : \A i \in 0 .. n : i \notin places}
  <2> SUFFICES ASSUME \A i \in places : \E j \in places : ~(i <= j)
               PROVE  FALSE
    OBVIOUS
  <2>1. 0 \in none
    <3>1. 0 \notin places
      BY <1>1
    <3> HIDE DEF places
    <3> QED BY <3>1
  <2>2. ASSUME NEW n \in Nat, n \in none PROVE n + 1 \in none
    <3> HIDE DEF places
    <3>1. n + 1 \notin places
      BY <1>2, <2>2
    <3> QED BY <2>2, <3>1
  <2>3. Nat \subseteq none
    <3> HIDE DEF none
    <3> QED BY <2>1, <2>2, EveryNumber
  <2> HIDE DEF places
  <2>4. PICK i \in places : i \in Nat
    BY <1>2
  <2>5. i \in none /\ i \in 0 .. i
    BY <2>3, <2>4
  <2> QED BY <2>4, <2>5
<1>4. \E i : least(i)
  <2> HIDE DEF places
  <2> QED BY <1>3
<1>5. least(CHOOSE i : least(i))
  BY <1>4
<1>6. FirstBlockWith(tx) = chain[CHOOSE i : least(i)]
  BY DEF FirstBlockWith
<1> HIDE DEF least
<1>7. PICK i : least(i) /\ FirstBlockWith(tx) = chain[i]
  BY <1>5, <1>6
<1> QED BY <1>1, <1>7 DEF least

\* What one entry promises about its details, and about the entries after it.
Agrees(list) ==
    \A i \in DOMAIN list :
      LET entry == list[i]
          details == TransactionDetails(entry.tx)
      IN  /\ entry.status = "Pending" => details = entry
          /\ entry.status = "Confirmed" =>
               /\ entry.block < BlockCount /\ entry.tx \in Elems(BlockByNumber(entry.block).txs)
               /\ details.status = "Pending" \/ details.block <= entry.block
               /\ \A j \in i .. Len(list) : list[j].block <= entry.block

LEMMA DetailsOfConfirmed ==
    ASSUME TypeOK, Linked, NEW e \in Entry, e.block < Len(chain),
           e.tx \in Elems(chain[e.block + 1].txs)
    PROVE  \/ TransactionDetails(e.tx).status = "Pending"
           \/ TransactionDetails(e.tx).block <= e.block
<1>1. e.block + 1 \in 1 .. Len(chain) /\ e.block \in Nat
  BY ChainTypes DEF Entry
<1>2. e.tx \in Confirmed
  <2>1. chain[e.block + 1] \in Elems(chain)
    BY <1>1, ChainTypes DEF Elems
  <2> QED BY <2>1 DEF Confirmed
<1>3. CASE InMempool(e.tx)
  BY <1>3 DEF TransactionDetails, PendingEntry
<1>4. CASE ~InMempool(e.tx)
  <2>1. PICK i \in 1 .. Len(chain) :
          /\ FirstBlockWith(e.tx) = chain[i]
          /\ \A j \in 1 .. Len(chain) : e.tx \in Elems(chain[j].txs) => i <= j
    BY <1>2, FirstIsFirst
  <2>2. TransactionDetails(e.tx).block = i - 1
    BY <1>2, <1>4, <2>1 DEF TransactionDetails, ConfirmedEntry, Linked
  <2>3. i <= e.block + 1
    BY <1>1, <2>1
  <2> QED BY <1>1, <2>2, <2>3
<1> QED BY <1>3, <1>4

\* A list of pending entries with the newest confirmed ones after them.
LEMMA PendingThenConfirmed ==
    ASSUME TypeOK, Linked, NEW p, AllPending(p), NEW c, NewestFirst(c)
    PROVE  Agrees(p \o c) /\ p \o c \in Seq(Entry)
<1> DEFINE list == p \o c
<1>1. p \in Seq(Entry) /\ c \in Seq(Entry) /\ Len(p) \in Nat /\ Len(c) \in Nat
  BY LenProperties DEF AllPending, NewestFirst
<1>2. /\ list \in Seq(Entry) /\ Len(list) = Len(p) + Len(c) /\ DOMAIN list = 1 .. Len(list)
      /\ \A i \in 1 .. Len(p) : list[i] = p[i]
      /\ \A i \in 1 .. Len(list) : i > Len(p) => list[i] = c[i - Len(p)]
  BY <1>1, ConcatProperties, LenProperties
<1> HIDE DEF list
<1>3. ASSUME NEW i \in 1 .. Len(list)
      PROVE  /\ list[i].status = "Pending" => TransactionDetails(list[i].tx) = list[i]
             /\ list[i].status = "Confirmed" =>
                  /\ list[i].block < BlockCount
                  /\ list[i].tx \in Elems(BlockByNumber(list[i].block).txs)
                  /\ \/ TransactionDetails(list[i].tx).status = "Pending"
                     \/ TransactionDetails(list[i].tx).block <= list[i].block
                  /\ \A j \in i .. Len(list) : list[j].block <= list[i].block
  <2>1. CASE i <= Len(p)
    <3>1. i \in 1 .. Len(p) /\ list[i] = p[i]
      BY <1>1, <1>2, <2>1
    <3>2. list[i] = PendingEntry(list[i].tx) /\ InMempool(list[i].tx)
      BY <3>1 DEF AllPending
    <3>3. list[i].status = "Pending"
      BY <3>2 DEF PendingEntry
    <3> QED BY <3>2, <3>3 DEF TransactionDetails
  <2>2. CASE ~(i <= Len(p))
    <3> DEFINE k == i - Len(p)
    <3>1. k \in 1 .. Len(c) /\ list[i] = c[k]
      BY <1>1, <1>2, <2>2
    <3>2. /\ c[k] \in Entry /\ c[k].status = "Confirmed" /\ c[k].block < Len(chain)
          /\ c[k].tx \in Elems(chain[c[k].block + 1].txs)
      BY <1>1, <3>1, ElementOfSeq DEF NewestFirst
    <3>3. ASSUME NEW j \in i .. Len(list) PROVE list[j].block <= c[k].block
      <4>1. j - Len(p) \in 1 .. Len(c) /\ k <= j - Len(p) /\ list[j] = c[j - Len(p)]
        BY <1>1, <1>2, <2>2
      <4> HIDE DEF k
      <4> QED BY <3>1, <4>1 DEF NewestFirst
    <3> HIDE DEF k
    <3> QED BY <3>1, <3>2, <3>3, DetailsOfConfirmed DEF BlockCount, BlockByNumber
  <2> QED BY <2>1, <2>2
<1>4. Agrees(list)
  BY <1>2, <1>3 DEF Agrees
<1> QED BY <1>2, <1>4 DEF list

LEMMA TopAgrees ==
    ASSUME NEW list \in Seq(Entry), Agrees(list), NEW limit \in Nat
    PROVE  Agrees(Top(list, limit))
<1> DEFINE top == Top(list, limit)
<1>1. /\ top \in Seq(Entry) /\ Len(top) \in 0 .. Len(list)
      /\ \A k \in 1 .. Len(top) : top[k] = list[k]
  BY TopEntries
<1>2. Len(list) \in Nat /\ DOMAIN list = 1 .. Len(list)
  BY LenProperties
<1>3. Len(top) \in Nat /\ DOMAIN top = 1 .. Len(top)
  BY <1>1, LenProperties
<1> HIDE DEF top
<1>4. ASSUME NEW i \in 1 .. Len(top) PROVE i \in DOMAIN list /\ top[i] = list[i]
  BY <1>1, <1>2, <1>3
<1>5. ASSUME NEW i \in 1 .. Len(top), NEW j \in i .. Len(top)
      PROVE  j \in i .. Len(list) /\ top[j] = list[j]
  BY <1>1, <1>2, <1>3
<1>6. Agrees(top)
  BY <1>3, <1>4, <1>5 DEF Agrees
<1> QED BY <1>6 DEF top

-----------------------------------------------------------------------------
(* What the explorer answers *)

\* Whatever lists and details are asked for, in any state of the serial node
\* they agree.
THEOREM SerialListsAgree ==
    ASSUME Serial
    PROVE  Spec => []ListsAgreeWithDetails
<1>1. SerialInv => ListsAgreeWithDetails
  <2> SUFFICES ASSUME SerialInv PROVE ListsAgreeWithDetails
    OBVIOUS
  <2>1. TypeOK /\ Linked
    BY DEF SerialInv, ChainInv, TypeInv
  <2>2. AllPending(PendingEntries) /\ NewestFirst(ConfirmedEntries)
    BY <2>1, PendingListed, ConfirmedNewestFirst
  <2>3. ASSUME NEW limit \in Limits PROVE Agrees(LatestTransactions(limit))
    <3>1. limit \in Nat
      BY ExplorerAssumption
    <3>2. NewestFirst(Top(ConfirmedEntries, limit))
      BY <2>2, <3>1, TopNewestFirst
    <3>3. /\ Agrees(PendingEntries \o Top(ConfirmedEntries, limit))
          /\ PendingEntries \o Top(ConfirmedEntries, limit) \in Seq(Entry)
      BY <2>1, <2>2, <3>2, PendingThenConfirmed
    <3> QED BY <3>1, <3>3, TopAgrees DEF LatestTransactions
  <2>4. ASSUME NEW a \in Addr PROVE Agrees(AddressActivity(a))
    <3>1. AllPending(OfAddress(PendingEntries, a))
      BY <2>2, AddressPending
    <3>2. NewestFirst(OfAddress(ConfirmedEntries, a))
      BY <2>2, AddressNewestFirst
    <3>3. NewestFirst(Top(OfAddress(ConfirmedEntries, a), 10))
      BY <3>2, TopNewestFirst
    <3> QED BY <2>1, <3>1, <3>3, PendingThenConfirmed DEF AddressActivity
  <2> QED BY <2>3, <2>4 DEF ListsAgreeWithDetails, Agrees
<1> QED
  BY <1>1, SerialInvariant, PTL

\* The number of a block shown is its place, and the details of a confirmed
\* transaction lead to a block that holds it.
THEOREM SerialNumbersLeadBack ==
    ASSUME Serial
    PROVE  Spec => []NumbersLeadBack
<1>1. SerialInv => NumbersLeadBack
  <2> SUFFICES ASSUME SerialInv PROVE NumbersLeadBack
    OBVIOUS
  <2>1. TypeOK /\ Linked
    BY DEF SerialInv, ChainInv, TypeInv
  <2>2. /\ Len(chain) \in Nat /\ DOMAIN chain = 1 .. Len(chain) /\ chain \in Seq(Block)
        /\ \A i \in 1 .. Len(chain) : chain[i].number = i - 1
    BY <2>1, ChainTypes DEF Linked, TypeOK
  <2>3. ASSUME NEW limit \in Limits, NEW i \in DOMAIN LatestBlocks(limit)
        PROVE  /\ LatestBlocks(limit)[i].number = BlockCount - i
               /\ BlockByNumber(LatestBlocks(limit)[i].number) = LatestBlocks(limit)[i]
    <3> DEFINE back == SeqExt!Reverse(chain)
               n == Len(chain)
    <3>1. back = [k \in 1 .. n |-> chain[n - k + 1]]
      BY DEF SeqExt!Reverse
    <3>2. \A k \in 1 .. n : n - k + 1 \in 1 .. n /\ chain[n - k + 1] \in Block
      BY <2>2, ElementOfSeq
    <3> HIDE DEF back
    <3>3. back \in Seq(Block) /\ Len(back) = n
      <4> HIDE DEF n
      <4> QED BY <3>1, <3>2, <2>2 DEF n
    <3>4. limit \in Nat
      BY ExplorerAssumption
    <3>5. /\ LatestBlocks(limit) \in Seq(Block) /\ Len(LatestBlocks(limit)) \in 0 .. n
          /\ \A k \in 1 .. Len(LatestBlocks(limit)) : LatestBlocks(limit)[k] = back[k]
      BY <3>3, <3>4, TopEntries DEF LatestBlocks, back
    <3>6. i \in 1 .. Len(LatestBlocks(limit))
      BY <3>5, LenProperties
    <3>7. i \in 1 .. n /\ LatestBlocks(limit)[i] = chain[n - i + 1]
      <4>1. i \in 1 .. n /\ LatestBlocks(limit)[i] = back[i]
        BY <2>2, <3>5, <3>6
      <4> QED BY <4>1, <3>1
    <3>8. chain[n - i + 1].number = n - i
      BY <2>2, <3>2, <3>7
    <3> QED BY <2>2, <3>7, <3>8 DEF BlockCount, BlockByNumber
  <2>4. ASSUME NEW tx \in Confirmed \ Elems(mempool)
        PROVE  /\ TransactionDetails(tx).block < BlockCount
               /\ tx \in Elems(BlockByNumber(TransactionDetails(tx).block).txs)
    <3>1. PICK i \in 1 .. Len(chain) : FirstBlockWith(tx) = chain[i] /\ tx \in Elems(chain[i].txs)
      BY <2>1, FirstIsFirst
    <3>2. TransactionDetails(tx).block = i - 1
      BY <2>2, <3>1 DEF TransactionDetails, InMempool, ConfirmedEntry
    <3>3. (i - 1) + 1 = i /\ i - 1 < Len(chain)
      BY <2>2
    <3> QED BY <3>1, <3>2, <3>3 DEF BlockCount, BlockByNumber
  <2> QED BY <2>3, <2>4 DEF NumbersLeadBack
<1> QED
  BY <1>1, SerialInvariant, PTL
=============================================================================
