-------------------------- MODULE BlockchainProofs --------------------------
(***************************************************************************)
(* Theorems about Blockchain.tla, for every set of addresses, hashes and   *)
(* threads and every bound.                                                *)
(***************************************************************************)
EXTENDS BlockchainProperties, FiniteSetTheorems, SequenceTheorems, TLAPS

-----------------------------------------------------------------------------
(* The records the actions build *)

\* The transactions and the blocks the code constructs have their types.
LEMMA RecordTypes ==
    /\ \A miner \in Addr, now \in Times : Coinbase(miner, now) \in Tx
    /\ \A from, to \in Addr, amount \in Nat, now \in Times :
         Transfer(from, to, amount, now) \in Tx
    /\ \A now \in Times : EmptyTx(now) \in Tx
    /\ \A now \in Times : GenesisBlock(now) \in Block
    /\ NoBlock \in Block
    /\ NoTx \in Tx
    /\ NoneRead \in [from : Int, to : Int]
<1>1. \A miner \in Addr, now \in Times : Coinbase(miner, now) \in Tx
  BY LedgerAssumption DEF Coinbase, Tx, Party
<1>2. \A from, to \in Addr \cup {Genesis}, amount \in Nat, now \in Times :
        Transfer(from, to, amount, now) \in Tx
  BY DEF Transfer, Tx, Party
<1>3. \A now \in Times : EmptyTx(now) \in Tx
  BY DEF EmptyTx, Tx, Party
<1>4. \A now \in Times : GenesisBlock(now) \in Block
  <2> TAKE now \in Times
  <2>1. Transfer(Genesis, Genesis, 0, now) \in Tx
    BY <1>2
  <2>2. <<Transfer(Genesis, Genesis, 0, now)>> \in Seq(Tx)
    BY <2>1
  <2> QED
    BY <2>2, LedgerAssumption DEF GenesisBlock, Block
<1>5. NoBlock \in Block
  <2>1. <<>> \in Seq(Tx)
    BY EmptySeq
  <2> QED
    BY <2>1 DEF NoBlock, Block
<1>6. NoTx \in Tx
  BY <1>3, LedgerAssumption DEF NoTx
<1>7. NoneRead \in [from : Int, to : Int]
  BY DEF NoneRead
<1> QED
  BY <1>1, <1>2, <1>3, <1>4, <1>5, <1>6, <1>7

\* The last element of a sequence that is not empty.
LEMMA LastType ==
    ASSUME NEW S, NEW s \in Seq(S), Len(s) > 0
    PROVE  Last(s) \in S
BY ElementOfSeq, LenProperties DEF Last

\* The elements of a sequence over a set are in the set.
LEMMA ElemsType ==
    ASSUME NEW S, NEW s \in Seq(S)
    PROVE  Elems(s) \subseteq S
BY ElementOfSeq, LenProperties DEF Elems

\* Balances stay numbers whatever transaction is written.
LEMMA WriteBalanceType ==
    ASSUME NEW bal \in [Addr -> Int], NEW tx \in Tx, NEW from \in Int, NEW to \in Int
    PROVE  WriteBalance(bal, tx, from, to) \in [Addr -> Int]
<1>1. tx.amount \in Int
  BY DEF Tx
<1>2. from - tx.amount \in Int /\ to + tx.amount \in Int
  BY <1>1
<1>3. [bal EXCEPT ![tx.receiver] = to + tx.amount] \in [Addr -> Int]
  BY <1>2
<1>4. [bal EXCEPT ![tx.sender] = from - tx.amount] \in [Addr -> Int]
  BY <1>2
<1>5. [bal EXCEPT ![tx.sender] = from - tx.amount, ![tx.receiver] = to + tx.amount]
         \in [Addr -> Int]
  BY <1>2, <1>4
<1> QED
  BY <1>3, <1>5 DEF WriteBalance

\* A balance that is read is a number, whatever the address.
LEMMA GetBalanceType ==
    ASSUME NEW bal \in [Addr -> Int], NEW a
    PROVE  GetBalance(bal, a) \in Int
BY DEF GetBalance

\* Saving a block keeps the keys numbers and the values blocks.
LEMMA PutType ==
    ASSUME NEW store, DOMAIN store \subseteq Nat,
           \A n \in DOMAIN store : store[n] \in Block, NEW b \in Block
    PROVE  /\ DOMAIN Put(store, b) \subseteq Nat
           /\ \A n \in DOMAIN Put(store, b) : Put(store, b)[n] \in Block
BY DEF Put, Block

\* The transaction a thread is applying.
LEMMA CurrentTxType ==
    ASSUME TypeOK, NEW t \in Threads, txIndex[t] <= Len(newBlock[t].txs)
    PROVE  CurrentTx(t) \in Tx
<1>1. newBlock[t].txs \in Seq(Tx)
  BY DEF TypeOK, Block
<1>2. txIndex[t] \in 1 .. Len(newBlock[t].txs)
  BY <1>1, LenProperties DEF TypeOK
<1> QED
  BY <1>1, <1>2, ElementOfSeq DEF CurrentTx

-----------------------------------------------------------------------------
(* Types *)

\* A thread between the read and the write of a transaction is inside its block.
InBlock == \A t \in Threads : pc[t] = "write" => txIndex[t] <= Len(newBlock[t].txs)

TypeInv == TypeOK /\ InBlock

\* A node that has just started has the types.
LEMMA TypeInit == Init => TypeInv
<1> SUFFICES ASSUME Init PROVE TypeInv
  OBVIOUS
<1> USE DEF FreshNode
<1>1. PICK now \in Times : Init!(now)
  BY DEF Init
<1>2. GenesisBlock(now) \in Block
  BY RecordTypes
<1>3. chain \in Seq(Block) /\ Len(chain) > 0
  BY <1>1, <1>2
<1>4. mempool \in Seq(Tx)
  BY <1>1, EmptySeq
<1>5. DOMAIN stored \subseteq Nat /\ \A n \in DOMAIN stored : stored[n] \in Block
  BY <1>1, <1>2
<1>6. /\ pc \in [Threads -> Labels]
      /\ job \in [Threads -> {"none", "mine", "receive"}]
      /\ newBlock \in [Threads -> Block]
      /\ txIndex \in [Threads -> Nat \ {0}]
      /\ readBal \in [Threads -> [from : Int, to : Int]]
      /\ newTx \in [Threads -> Tx]
  BY <1>1, RecordTypes DEF Labels
<1>7. balances \in [Addr -> Int] /\ walletBalance \in Int
  BY <1>1
<1>8. gossipTxs \subseteq Tx /\ gossipBlocks \subseteq Block
  BY <1>1, <1>2
<1>9. InBlock
  BY <1>1 DEF InBlock
<1> QED
  BY <1>3, <1>4, <1>5, <1>6, <1>7, <1>8, <1>9 DEF TypeInv, TypeOK

\* A thread that returns has the locals of a thread in no call.
LEMMA ReturnType ==
    ASSUME TypeInv, NEW t \in Threads, Return(t)
    PROVE  /\ pc' \in [Threads -> Labels]
           /\ job' \in [Threads -> {"none", "mine", "receive"}]
           /\ newBlock' \in [Threads -> Block]
           /\ txIndex' \in [Threads -> Nat \ {0}]
           /\ readBal' \in [Threads -> [from : Int, to : Int]]
           /\ newTx' \in [Threads -> Tx]
           /\ InBlock'
BY RecordTypes DEF TypeInv, TypeOK, InBlock, Return, Labels

\* Every step keeps the types.
LEMMA TypeStep == TypeInv /\ [Next]_vars => TypeInv'
<1> SUFFICES ASSUME TypeInv, [Next]_vars PROVE TypeInv'
  OBVIOUS
<1> USE DEF TypeInv
<1>1. ASSUME NEW t \in Users, MineBlock(t) PROVE TypeInv'
  <2>0. t \in Threads
    BY DEF Threads
  <2>1. PICK now \in Times :
          newBlock' = [newBlock EXCEPT ![t] =
            [number |-> Len(chain), prev |-> Last(chain).hash, hash |-> NoHash,
             txs |-> Append(mempool, Coinbase(Me, now))]]
    BY <1>1 DEF MineBlock
  <2>2. Append(mempool, Coinbase(Me, now)) \in Seq(Tx)
    BY RecordTypes, BlockchainAssumption, AppendProperties DEF TypeOK
  <2>3. Last(chain) \in Block
    BY LastType DEF TypeOK
  <2>4. Len(chain) \in Nat
    BY LenProperties DEF TypeOK
  <2>5. newBlock' \in [Threads -> Block]
    BY <2>0, <2>1, <2>2, <2>3, <2>4 DEF TypeOK, Block
  <2> QED
    BY <1>1, <2>0, <2>5 DEF MineBlock, TypeOK, InBlock, Labels, nodeVars
<1>2. ASSUME NEW t \in Users, NEW to \in Receivers, NEW amount \in Amounts,
             SendMoney(t, to, amount)
      PROVE  TypeInv'
  <2>0. t \in Threads
    BY DEF Threads
  <2>1. newTx' \in [Threads -> Tx]
    BY <1>2, <2>0, RecordTypes, BlockchainAssumption DEF SendMoney, TypeOK
  <2> QED
    BY <1>2, <2>0, <2>1 DEF SendMoney, TypeOK, InBlock, Labels, nodeVars
<1>3. ASSUME NEW t \in Users, NEW amount \in Amounts, SendMoneyFails(t, amount)
      PROVE  TypeInv'
  <2>0. t \in Threads
    BY DEF Threads
  <2>1. newTx' \in [Threads -> Tx]
    BY <1>3, <2>0, RecordTypes DEF SendMoneyFails, TypeOK
  <2> QED
    BY <1>3, <2>0, <2>1 DEF SendMoneyFails, TypeOK, InBlock, Labels, nodeVars
<1>4. ASSUME NEW t \in Users, ViewWallet(t) PROVE TypeInv'
  <2>1. walletBalance' \in Int
    BY <1>4, BlockchainAssumption DEF ViewWallet, TypeOK
  <2> QED
    BY <1>4, <2>1 DEF ViewWallet, TypeOK, InBlock, threadVars
<1>5. ASSUME NEW t \in Net, NEW b \in gossipBlocks, ReceiveBlock(t, b) PROVE TypeInv'
  <2>0. t \in Threads /\ b \in Block
    BY DEF Threads, TypeOK
  <2>1. chain' \in Seq(Block) /\ Len(chain') > 0
    BY <1>5, <2>0, AppendProperties, LenProperties DEF ReceiveBlock, TypeOK
  <2> QED
    BY <1>5, <2>0, <2>1 DEF ReceiveBlock, TypeOK, InBlock, Labels
<1>6. ASSUME NEW t \in Net, NEW tx \in gossipTxs, ReceiveTransaction(t, tx) PROVE TypeInv'
  <2>1. tx \in Tx
    BY DEF TypeOK
  <2>2. mempool' \in Seq(Tx)
    BY <1>6, <2>1, AppendProperties DEF ReceiveTransaction, AddTransaction, TypeOK
  <2> QED
    BY <1>6, <2>2 DEF ReceiveTransaction, TypeOK, InBlock, threadVars
<1>7. ASSUME NEW t \in Threads, PushMined(t) PROVE TypeInv'
  <2>1. PICK h \in FreshHash :
          /\ newBlock' = [newBlock EXCEPT ![t] = [newBlock[t] EXCEPT !.hash = h]]
          /\ chain' = Append(chain, [newBlock[t] EXCEPT !.hash = h])
    BY <1>7 DEF PushMined
  <2>2. [newBlock[t] EXCEPT !.hash = h] \in Block
    <3>1. newBlock[t] \in Block
      BY DEF TypeOK
    <3> QED
      BY <3>1 DEF Block, FreshHash
  <2>3. chain' \in Seq(Block) /\ Len(chain') > 0
    BY <2>1, <2>2, AppendProperties, LenProperties DEF TypeOK
  <2>4. newBlock' \in [Threads -> Block]
    BY <2>1, <2>2 DEF TypeOK
  <2> QED
    BY <1>7, <2>3, <2>4 DEF PushMined, TypeOK, InBlock, Labels
<1>8. ASSUME NEW t \in Threads, RefuseMined(t) PROVE TypeInv'
  BY <1>8, ReturnType DEF RefuseMined, TypeOK, nodeVars
<1>9. ASSUME NEW t \in Threads, ReadBalances(t) PROVE TypeInv'
  <2>1. GetBalance(balances, CurrentTx(t).sender) \in Int
        /\ GetBalance(balances, CurrentTx(t).receiver) \in Int
    BY GetBalanceType DEF TypeOK
  <2>2. readBal' \in [Threads -> [from : Int, to : Int]]
    BY <1>9, <2>1 DEF ReadBalances, TypeOK
  <2> QED
    BY <1>9, <2>2 DEF ReadBalances, Applying, TypeOK, InBlock, Labels, nodeVars
<1>10. ASSUME NEW t \in Threads, SkipTransaction(t) PROVE TypeInv'
  BY <1>10 DEF SkipTransaction, Applying, TypeOK, InBlock, nodeVars
<1>11. ASSUME NEW t \in Threads, WriteBalances(t) PROVE TypeInv'
  <2>1. CurrentTx(t) \in Tx
    BY <1>11, CurrentTxType DEF WriteBalances, InBlock
  <2>2. readBal[t].from \in Int /\ readBal[t].to \in Int
    BY DEF TypeOK
  <2>3. balances' \in [Addr -> Int]
    BY <1>11, <2>1, <2>2, WriteBalanceType DEF WriteBalances, TypeOK
  <2>4. readBal' \in [Threads -> [from : Int, to : Int]]
    BY <1>11, RecordTypes DEF WriteBalances, TypeOK
  <2>5. /\ pc' \in [Threads -> Labels]
        /\ txIndex' \in [Threads -> Nat \ {0}]
    BY <1>11 DEF WriteBalances, TypeOK, Labels
  <2>6. InBlock'
    BY <1>11 DEF WriteBalances, TypeOK, InBlock
  <2>7. UNCHANGED <<chain, mempool, walletBalance, stored, job, newBlock, newTx,
                    gossipTxs, gossipBlocks>>
    BY <1>11 DEF WriteBalances
  <2> QED
    BY <2>3, <2>4, <2>5, <2>6, <2>7 DEF TypeOK
<1>12. ASSUME NEW t \in Threads, FinishBlock(t) PROVE TypeInv'
  <2>1. newBlock[t] \in Block
    BY DEF TypeOK
  <2>2. DOMAIN stored' \subseteq Nat /\ \A n \in DOMAIN stored' : stored'[n] \in Block
    BY <1>12, <2>1, PutType DEF FinishBlock, TypeOK
  <2>3. walletBalance' \in Int
    BY <1>12, BlockchainAssumption DEF FinishBlock, TypeOK
  <2>4. mempool' \in Seq(Tx)
    BY <1>12, EmptySeq DEF FinishBlock
  <2>5. gossipBlocks' \subseteq Block
    <3>1. Last(chain) \in Block
      BY DEF TypeOK, Last
    <3> QED BY <1>12, <2>1, <3>1 DEF FinishBlock, Announced, TypeOK
  <2>6. Return(t)
    BY <1>12 DEF FinishBlock
  <2> QED
    BY <1>12, <2>2, <2>3, <2>4, <2>5, <2>6, ReturnType DEF FinishBlock, TypeOK
<1>13. ASSUME NEW t \in Threads, SubmitTransaction(t) PROVE TypeInv'
  <2>1. newTx[t] \in Tx
    BY DEF TypeOK
  <2>2. mempool' \in Seq(Tx)
    BY <1>13, <2>1, AppendProperties DEF SubmitTransaction, AddTransaction, TypeOK
  <2>3. Return(t)
    BY <1>13 DEF SubmitTransaction
  <2> QED
    BY <1>13, <2>1, <2>2, <2>3, ReturnType DEF SubmitTransaction, TypeOK
<1>14. ASSUME NEW miner \in Addr \ {Me}, NEW parent \in gossipBlocks, NEW n \in 0 .. MaxPeerTxs,
              PeerMines(miner, parent, n)
       PROVE  TypeInv'
  <2>1. PICK now \in Times, h \in FreshHash, s \in [1 .. n -> gossipTxs] :
          gossipBlocks' = gossipBlocks \cup
            {[number |-> parent.number + 1, prev |-> parent.hash, hash |-> h,
              txs |-> Append(s, Coinbase(miner, now))]}
    BY <1>14 DEF PeerMines
  <2>2. s \in Seq(Tx)
    <3>1. n \in Nat
      BY BlockchainAssumption
    <3>2. s \in [1 .. n -> Tx]
      BY DEF TypeOK
    <3> QED
      BY <3>1, <3>2, SeqDef
  <2>3. Append(s, Coinbase(miner, now)) \in Seq(Tx)
    BY <2>2, RecordTypes, AppendProperties
  <2>4. parent \in Block
    BY DEF TypeOK
  <2>5. [number |-> parent.number + 1, prev |-> parent.hash, hash |-> h,
         txs |-> Append(s, Coinbase(miner, now))] \in Block
    BY <2>3, <2>4 DEF Block, FreshHash
  <2>6. gossipBlocks' \subseteq Block
    BY <2>1, <2>5 DEF TypeOK
  <2> QED
    BY <1>14, <2>6 DEF PeerMines, TypeOK, InBlock, nodeVars, threadVars
<1>15. ASSUME NEW from \in Addr \ {Me}, NEW to \in Receivers, NEW amount \in Amounts,
              PeerSends(from, to, amount)
       PROVE  TypeInv'
  <2>1. gossipTxs' \subseteq Tx
    BY <1>15, RecordTypes, BlockchainAssumption DEF PeerSends, TypeOK
  <2> QED
    BY <1>15, <2>1 DEF PeerSends, TypeOK, InBlock, nodeVars, threadVars
<1>16. ASSUME NEW t \in Threads, DebitWallet(t) PROVE TypeInv'
  <2>1. newTx[t] \in Tx /\ walletBalance \in Int
    BY DEF TypeOK
  <2>2. newTx[t].amount \in Int
    BY <2>1 DEF Tx
  <2>3. walletBalance' \in Int
    BY <1>16, <2>1, <2>2 DEF DebitWallet
  <2> QED
    BY <1>16, <2>3 DEF DebitWallet, TypeOK, InBlock, Labels
<1>17. CASE UNCHANGED vars
  BY <1>17 DEF vars, nodeVars, threadVars, TypeOK, InBlock, CurrentTx
<1> QED
  BY <1>1, <1>2, <1>3, <1>4, <1>5, <1>6, <1>7, <1>8, <1>9, <1>10, <1>11, <1>12, <1>13,
     <1>14, <1>15, <1>16, <1>17
  DEF Next, UserStep, NetStep, Continue, PeerStep

\* Type correctness: every variable keeps its type in every behaviour.
THEOREM TypeCorrect == Spec => []TypeOK
<1>1. Init => TypeInv
  BY TypeInit
<1>2. TypeInv /\ [Next]_vars => TypeInv'
  BY TypeStep
<1>3. TypeInv => TypeOK
  BY DEF TypeInv
<1> QED
  BY <1>1, <1>2, <1>3, PTL DEF Spec

-----------------------------------------------------------------------------
(* Balances *)

\* The balances of the database.
NonNegative == \A a \in Addr : balances[a] >= 0

\* What processTransaction has read covers what it is about to write, whatever
\* other threads have written since.
ReadCovers ==
    \A t \in Threads : pc[t] = "write" =>
      /\ readBal[t].to >= 0
      /\ CurrentTx(t).sender # Genesis => readBal[t].from >= CurrentTx(t).amount

BalanceInv == TypeInv /\ NonNegative /\ ReadCovers

\* A write of a covered transaction leaves no negative balance.
LEMMA WriteBalanceNonNegative ==
    ASSUME NEW bal \in [Addr -> Int], \A a \in Addr : bal[a] >= 0,
           NEW tx \in Tx, NEW from \in Int, NEW to \in Int,
           to >= 0, tx.sender # Genesis => from >= tx.amount
    PROVE  \A a \in Addr : WriteBalance(bal, tx, from, to)[a] >= 0
<1>1. tx.amount \in Nat
  BY DEF Tx
<1>2. to + tx.amount \in Nat
  BY <1>1
<1>3. CASE tx.sender = Genesis
  BY <1>2, <1>3 DEF WriteBalance
<1>4. CASE tx.sender # Genesis
  <2>1. from - tx.amount \in Nat
    BY <1>1, <1>4
  <2>2. \A a \in Addr : [bal EXCEPT ![tx.sender] = from - tx.amount][a] >= 0
    BY <2>1
  <2>3. from - tx.amount \in Int
    BY <2>1
  <2>4. [bal EXCEPT ![tx.sender] = from - tx.amount] \in [Addr -> Int]
    BY <2>3
  <2> QED
    BY <1>2, <1>4, <2>2, <2>4 DEF WriteBalance
<1> QED
  BY <1>3, <1>4

\* A step that leaves a thread's locals alone, or ends its call, keeps what it
\* has read covered.
LEMMA ReadCoversKept ==
    ASSUME TypeInv, ReadCovers, NEW t \in Threads,
           \A u \in Threads \ {t} : /\ pc'[u] = pc[u]
                                    /\ newBlock'[u] = newBlock[u]
                                    /\ txIndex'[u] = txIndex[u]
                                    /\ readBal'[u] = readBal[u],
           pc'[t] # "write"
    PROVE  ReadCovers'
BY DEF ReadCovers, CurrentTx

\* A node that has just started has no balance below zero and reads nothing.
LEMMA BalanceInit == Init => BalanceInv
<1> SUFFICES ASSUME Init PROVE BalanceInv
  OBVIOUS
<1> USE DEF FreshNode
<1>1. TypeInv
  BY TypeInit
<1>2. NonNegative
  BY DEF Init, NonNegative
<1>3. ReadCovers
  BY DEF Init, ReadCovers
<1> QED
  BY <1>1, <1>2, <1>3 DEF BalanceInv

\* Every step of every thread keeps the balances and what was read covered.
LEMMA BalanceStep == BalanceInv /\ [Next]_vars => BalanceInv'
<1> SUFFICES ASSUME BalanceInv, [Next]_vars PROVE BalanceInv'
  OBVIOUS
<1>0. TypeInv'
  BY TypeStep DEF BalanceInv
<1> USE DEF BalanceInv, TypeInv
<1>1. ASSUME NEW t \in Users, MineBlock(t) PROVE NonNegative' /\ ReadCovers'
  BY <1>1, ReadCoversKept DEF MineBlock, Threads, TypeOK, NonNegative, nodeVars
<1>2. ASSUME NEW t \in Users, NEW to \in Receivers, NEW amount \in Amounts,
             SendMoney(t, to, amount)
      PROVE  NonNegative' /\ ReadCovers'
  BY <1>2, ReadCoversKept DEF SendMoney, Threads, TypeOK, NonNegative, nodeVars
<1>3. ASSUME NEW t \in Users, NEW amount \in Amounts, SendMoneyFails(t, amount)
      PROVE  NonNegative' /\ ReadCovers'
  BY <1>3, ReadCoversKept DEF SendMoneyFails, Threads, TypeOK, NonNegative, nodeVars
<1>4. ASSUME NEW t \in Users, ViewWallet(t) PROVE NonNegative' /\ ReadCovers'
  BY <1>4 DEF ViewWallet, TypeOK, NonNegative, ReadCovers, CurrentTx, threadVars
<1>5. ASSUME NEW t \in Net, NEW b \in gossipBlocks, ReceiveBlock(t, b)
      PROVE  NonNegative' /\ ReadCovers'
  BY <1>5, ReadCoversKept DEF ReceiveBlock, Threads, TypeOK, NonNegative
<1>6. ASSUME NEW t \in Net, NEW tx \in gossipTxs, ReceiveTransaction(t, tx)
      PROVE  NonNegative' /\ ReadCovers'
  BY <1>6 DEF ReceiveTransaction, NonNegative, ReadCovers, CurrentTx, threadVars
<1>7. ASSUME NEW t \in Threads, PushMined(t) PROVE NonNegative' /\ ReadCovers'
  <2>1. \A u \in Threads \ {t} : newBlock'[u] = newBlock[u]
    BY <1>7 DEF PushMined, TypeOK
  <2> QED
    BY <1>7, <2>1, ReadCoversKept DEF PushMined, TypeOK, NonNegative
<1>8. ASSUME NEW t \in Threads, RefuseMined(t) PROVE NonNegative' /\ ReadCovers'
  BY <1>8, ReadCoversKept DEF RefuseMined, Return, TypeOK, NonNegative, nodeVars
<1>9. ASSUME NEW t \in Threads, ReadBalances(t) PROVE NonNegative' /\ ReadCovers'
  <2>1. NonNegative'
    BY <1>9 DEF ReadBalances, NonNegative, nodeVars
  <2>2. CurrentTx(t) \in Tx
    BY <1>9, CurrentTxType DEF ReadBalances, Applying
  <2>3. GetBalance(balances, CurrentTx(t).receiver) >= 0
    BY DEF GetBalance, NonNegative, TypeOK
  <2>4. CurrentTx(t).sender # Genesis =>
          GetBalance(balances, CurrentTx(t).sender) >= CurrentTx(t).amount
    BY <1>9 DEF ReadBalances, VerifyTransactionBalance
  <2>5. ReadCovers'
    <3> SUFFICES ASSUME NEW u \in Threads, pc'[u] = "write"
                 PROVE  /\ readBal'[u].to >= 0
                        /\ CurrentTx(u)'.sender # Genesis =>
                             readBal'[u].from >= CurrentTx(u)'.amount
      BY DEF ReadCovers
    <3>1. CurrentTx(u)' = CurrentTx(u)
      BY <1>9 DEF ReadBalances, CurrentTx
    <3>2. CASE u = t
      BY <1>9, <2>3, <2>4, <3>1, <3>2 DEF ReadBalances, TypeOK
    <3>3. CASE u # t
      BY <1>9, <3>1, <3>3 DEF ReadBalances, TypeOK, ReadCovers
    <3> QED
      BY <3>2, <3>3
  <2> QED
    BY <2>1, <2>5
<1>10. ASSUME NEW t \in Threads, SkipTransaction(t) PROVE NonNegative' /\ ReadCovers'
  BY <1>10, ReadCoversKept DEF SkipTransaction, Applying, TypeOK, NonNegative, nodeVars
<1>11. ASSUME NEW t \in Threads, WriteBalances(t) PROVE NonNegative' /\ ReadCovers'
  <2>1. CurrentTx(t) \in Tx
    BY <1>11, CurrentTxType DEF WriteBalances, InBlock
  <2>2. readBal[t].from \in Int /\ readBal[t].to \in Int
    BY DEF TypeOK
  <2>3. \A a \in Addr : balances'[a] >= 0
    BY <1>11, <2>1, <2>2, WriteBalanceNonNegative
    DEF WriteBalances, TypeOK, NonNegative, ReadCovers
  <2>4. ReadCovers'
    BY <1>11, ReadCoversKept DEF WriteBalances, TypeOK
  <2> QED
    BY <1>11, <2>3, <2>4 DEF WriteBalances, NonNegative
<1>12. ASSUME NEW t \in Threads, FinishBlock(t) PROVE NonNegative' /\ ReadCovers'
  BY <1>12, ReadCoversKept DEF FinishBlock, Return, TypeOK, NonNegative
<1>13. ASSUME NEW t \in Threads, SubmitTransaction(t) PROVE NonNegative' /\ ReadCovers'
  BY <1>13, ReadCoversKept DEF SubmitTransaction, Return, TypeOK, NonNegative
<1>14. ASSUME NEW miner \in Addr \ {Me}, NEW parent \in gossipBlocks, NEW n \in 0 .. MaxPeerTxs,
              PeerMines(miner, parent, n)
       PROVE  NonNegative' /\ ReadCovers'
  BY <1>14 DEF PeerMines, NonNegative, ReadCovers, CurrentTx, nodeVars, threadVars
<1>15. ASSUME NEW from \in Addr \ {Me}, NEW to \in Receivers, NEW amount \in Amounts,
              PeerSends(from, to, amount)
       PROVE  NonNegative' /\ ReadCovers'
  BY <1>15 DEF PeerSends, NonNegative, ReadCovers, CurrentTx, nodeVars, threadVars
<1>16. ASSUME NEW t \in Threads, DebitWallet(t) PROVE NonNegative' /\ ReadCovers'
  BY <1>16, ReadCoversKept DEF DebitWallet, TypeOK, NonNegative
<1>17. CASE UNCHANGED vars
  BY <1>0, <1>17 DEF vars, nodeVars, threadVars, NonNegative, ReadCovers, CurrentTx
<1> QED
  BY <1>0, <1>1, <1>2, <1>3, <1>4, <1>5, <1>6, <1>7, <1>8, <1>9, <1>10, <1>11, <1>12, <1>13,
     <1>14, <1>15, <1>16, <1>17
  DEF Next, UserStep, NetStep, Continue, PeerStep

-----------------------------------------------------------------------------
(* The balance of the wallet *)

\* The threads between the check of sendMoney and its debit, and the user threads
\* that are not there.
Signing == {t \in Threads : pc[t] = "signing"}

Others == Cardinality(Users) - Cardinality(Signing)

\* Only users send and mine.
UsersPay ==
    \A t \in Threads :
      /\ pc[t] = "signing" => t \in Users /\ newTx[t].amount \in Amounts
      /\ job[t] = "mine" => t \in Users

\* After the debits to come the wallet is still within the bound of
\* OverdraftBounded: when every one of them is counted with the limit, or when
\* one of the threads that sign is counted with its own amount.
SigningCovered(limit) ==
    \/ walletBalance >= -(limit * (Others - 1))
    \/ \E m \in Signing : walletBalance >= newTx[m].amount - limit * Others

WalletInv ==
    /\ BalanceInv
    /\ UsersPay
    /\ \A limit \in Amounts :
         (\A amount \in Amounts : amount <= limit) => SigningCovered(limit)

\* The products of the bound.
LEMMA Products ==
    ASSUME NEW limit \in Nat
    PROVE  /\ \A k \in Int : limit * k \in Int
           /\ \A k \in Int : limit * (k + 1) = limit * k + limit
           /\ \A k \in Nat : limit * k >= 0
           /\ \A j, k \in Int : j <= k => limit * j <= limit * k
<1>1. \A k \in Int : limit * k \in Int
  OBVIOUS
<1>2. \A k \in Int : limit * (k + 1) = limit * k + limit
  OBVIOUS
<1>3. \A k \in Nat : limit * k >= 0
  OBVIOUS
<1>4. ASSUME NEW j \in Int, NEW k \in Int, j <= k PROVE limit * j <= limit * k
  <2>1. k - j \in Nat
    BY <1>4
  <2>2. limit * (k - j) >= 0
    BY <1>3, <2>1
  <2>3. limit * (k - j) = limit * k - limit * j
    OBVIOUS
  <2> QED
    BY <1>1, <2>2, <2>3
<1> QED
  BY <1>1, <1>2, <1>3, <1>4

\* There are finitely many users, and never fewer of them than of some of them.
LEMMA UsersCounted ==
    ASSUME NEW S \in SUBSET Users
    PROVE  /\ IsFiniteSet(S)
           /\ Cardinality(Users) \in Nat /\ Cardinality(S) \in Nat
           /\ Cardinality(Users) - Cardinality(S) \in Nat
<1>1. IsFiniteSet(S) /\ Cardinality(S) <= Cardinality(Users)
  BY FS_Subset, BlockchainAssumption
<1>2. Cardinality(Users) \in Nat /\ Cardinality(S) \in Nat
  BY <1>1, FS_CardinalityType, BlockchainAssumption
<1> QED
  BY <1>1, <1>2

\* The threads that sign are users, so there are finitely many.
LEMMA SigningCounted ==
    ASSUME UsersPay
    PROVE  /\ Signing \subseteq Users /\ IsFiniteSet(Signing)
           /\ Cardinality(Users) \in Nat /\ Cardinality(Signing) \in Nat
           /\ Others \in Nat
<1>1. Signing \subseteq Users
  BY DEF UsersPay, Signing
<1> QED
  BY <1>1, UsersCounted DEF Others

\* A user that does not sign is one of the others.
LEMMA OtherCounted ==
    ASSUME UsersPay, NEW t \in Users, t \notin Signing
    PROVE  Others - 1 \in Nat
<1>1. Signing \cup {t} \subseteq Users
  BY SigningCounted
<1>2. /\ IsFiniteSet(Signing \cup {t})
      /\ Cardinality(Signing \cup {t}) = Cardinality(Signing) + 1
  BY SigningCounted, FS_AddElement
<1>3. Cardinality(Signing \cup {t}) <= Cardinality(Users)
  BY <1>1, FS_Subset, BlockchainAssumption
<1> QED
  BY <1>2, <1>3, SigningCounted DEF Others

\* A step that moves no thread to or from the debit, does not touch the payments
\* that are signed and either leaves the wallet alone or sets it to a balance of
\* the database while a user does not sign.
LEMMA WalletKept ==
    ASSUME WalletInv, BalanceInv', UsersPay', Signing' = Signing,
           \A u \in Signing : newTx'[u] = newTx[u],
           \/ walletBalance' = walletBalance
           \/ walletBalance' >= 0 /\ \E t \in Users : t \notin Signing
    PROVE  WalletInv'
<1> SUFFICES ASSUME NEW limit \in Amounts, \A amount \in Amounts : amount <= limit
             PROVE  SigningCovered(limit)'
  BY DEF WalletInv
<1>1. Others' = Others
  BY DEF Others
<1>2. CASE walletBalance' = walletBalance
  <2>1. SigningCovered(limit)
    BY DEF WalletInv
  <2>2. CASE walletBalance >= -(limit * (Others - 1))
    BY <1>1, <1>2, <2>2 DEF SigningCovered
  <2>3. CASE \E m \in Signing : walletBalance >= newTx[m].amount - limit * Others
    BY <1>1, <1>2, <2>3 DEF SigningCovered
  <2> QED
    BY <2>1, <2>2, <2>3 DEF SigningCovered
<1>3. CASE walletBalance' >= 0 /\ \E t \in Users : t \notin Signing
  <2>1. Others - 1 \in Nat
    BY <1>3, OtherCounted DEF WalletInv
  <2>2. limit \in Nat
    BY BlockchainAssumption
  <2>3. limit * (Others - 1) >= 0 /\ limit * (Others - 1) \in Int
    <3>1. Others - 1 \in Int
      BY <2>1
    <3> QED
      BY <2>1, <2>2, <3>1, Products
  <2>4. walletBalance' \in Int
    BY DEF BalanceInv, TypeInv, TypeOK
  <2>5. walletBalance' >= -(limit * (Others - 1))
    BY <1>3, <2>3, <2>4
  <2> QED
    BY <1>1, <2>5 DEF SigningCovered
<1> QED
  BY <1>2, <1>3

\* A payment that passes the check is covered when it does.
LEMMA CheckCovers ==
    ASSUME WalletInv, BalanceInv', UsersPay', NEW t \in Users,
           NEW to \in Receivers, NEW amount \in Amounts, SendMoney(t, to, amount)
    PROVE  WalletInv'
<1> SUFFICES ASSUME NEW limit \in Amounts, \A a \in Amounts : a <= limit
             PROVE  SigningCovered(limit)'
  BY DEF WalletInv
<1>1. t \in Signing' /\ newTx'[t].amount = amount
  BY DEF SendMoney, Signing, Threads, Transfer, WalletInv, BalanceInv, TypeInv, TypeOK
<1>2. walletBalance' = walletBalance /\ walletBalance \in Int /\ walletBalance >= amount
  BY DEF SendMoney, nodeVars, WalletInv, BalanceInv, TypeInv, TypeOK
<1>3. Others' \in Nat
  <2>1. Signing' \subseteq Users
    BY DEF UsersPay, Signing
  <2> QED
    BY <2>1, UsersCounted DEF Others
<1>4. limit \in Nat /\ amount \in Nat
  BY BlockchainAssumption
<1>5. limit * Others' >= 0 /\ limit * Others' \in Int
  <2>1. Others' \in Int
    BY <1>3
  <2> QED
    BY <1>3, <1>4, <2>1, Products
<1>6. walletBalance' >= newTx'[t].amount - limit * Others'
  BY <1>1, <1>2, <1>4, <1>5
<1> QED
  BY <1>1, <1>6 DEF SigningCovered

\* A debit uses up the payment it covers, or one that need not be covered.
LEMMA DebitCovers ==
    ASSUME WalletInv, BalanceInv', UsersPay', NEW t \in Threads, DebitWallet(t)
    PROVE  WalletInv'
<1> SUFFICES ASSUME NEW limit \in Amounts, \A a \in Amounts : a <= limit
             PROVE  SigningCovered(limit)'
  BY DEF WalletInv
<1>1. TypeOK /\ UsersPay
  BY DEF WalletInv, BalanceInv, TypeInv
<1>2. t \in Signing /\ Signing' = Signing \ {t} /\ newTx' = newTx
  BY <1>1 DEF DebitWallet, Signing, TypeOK
<1>3. Cardinality(Signing') = Cardinality(Signing) - 1
  BY <1>1, <1>2, SigningCounted, FS_RemoveElement
<1>4. Others' = Others + 1 /\ Others \in Nat
  BY <1>1, <1>3, SigningCounted DEF Others
<1>5. limit \in Nat /\ newTx[t].amount \in Nat /\ newTx[t].amount <= limit
  BY <1>1, <1>2, BlockchainAssumption DEF UsersPay, Signing
<1>6. walletBalance \in Int /\ walletBalance' = walletBalance - newTx[t].amount
  BY <1>1 DEF DebitWallet, TypeOK
<1>7. /\ limit * Others \in Int /\ limit * (Others - 1) \in Int
      /\ limit * Others = limit * (Others - 1) + limit
      /\ limit * (Others + 1) = limit * Others + limit
  <2>1. Others - 1 \in Int /\ (Others - 1) + 1 = Others
    BY <1>4
  <2> QED
    BY <1>4, <1>5, <2>1, Products
<1>8. Others' - 1 = Others
  BY <1>4
<1>9. CASE walletBalance >= -(limit * (Others - 1))
  <2>1. walletBalance' >= -(limit * Others)
    BY <1>5, <1>6, <1>7, <1>9
  <2> QED
    BY <1>8, <2>1 DEF SigningCovered
<1>10. CASE walletBalance >= newTx[t].amount - limit * Others
  <2>1. walletBalance' >= -(limit * Others)
    BY <1>5, <1>6, <1>7, <1>10
  <2> QED
    BY <1>8, <2>1 DEF SigningCovered
<1>11. ASSUME NEW m \in Signing, m # t, walletBalance >= newTx[m].amount - limit * Others
       PROVE  SigningCovered(limit)'
  <2>1. newTx[m].amount \in Nat
    BY <1>1, BlockchainAssumption DEF UsersPay, Signing
  <2>2. walletBalance' >= newTx[m].amount - limit * Others'
    BY <1>4, <1>5, <1>6, <1>7, <1>11, <2>1
  <2>3. m \in Signing'
    BY <1>2, <1>11
  <2> QED
    BY <1>2, <2>2, <2>3 DEF SigningCovered
<1> QED
  BY <1>9, <1>10, <1>11 DEF WalletInv, SigningCovered

\* A node that has just started has an empty wallet and nobody pays.
LEMMA WalletInit == Init => WalletInv
<1> SUFFICES ASSUME Init PROVE WalletInv
  OBVIOUS
<1>1. BalanceInv
  BY BalanceInit
<1>2. \A t \in Threads : pc[t] = "idle" /\ job[t] = "none"
  BY DEF Init, FreshNode
<1>3. UsersPay
  BY <1>2 DEF UsersPay
<1>4. ASSUME NEW limit \in Amounts PROVE SigningCovered(limit)
  <2>1. PICK t \in Users : TRUE
    BY BlockchainAssumption
  <2>2. t \notin Signing
    BY <1>2 DEF Signing
  <2>3. Others - 1 \in Nat
    BY <1>3, <2>1, <2>2, OtherCounted
  <2>4. limit \in Nat
    BY BlockchainAssumption
  <2>5. limit * (Others - 1) >= 0 /\ limit * (Others - 1) \in Int
    BY <2>3, <2>4, Products
  <2>6. walletBalance = 0
    BY DEF Init, FreshNode
  <2> QED
    BY <2>5, <2>6 DEF SigningCovered
<1> QED
  BY <1>1, <1>3, <1>4 DEF WalletInv

\* Every step of every thread keeps the wallet within the bound.
LEMMA WalletStep == WalletInv /\ [Next]_vars => WalletInv'
<1> SUFFICES ASSUME WalletInv, [Next]_vars PROVE WalletInv'
  OBVIOUS
<1>a. TypeOK /\ UsersPay /\ NonNegative
  BY DEF WalletInv, BalanceInv, TypeInv
<1>b. BalanceInv'
  BY BalanceStep DEF WalletInv
<1>1. ASSUME NEW t \in Users, MineBlock(t) PROVE WalletInv'
  <2>1. UsersPay'
    BY <1>1, <1>a DEF MineBlock, UsersPay, TypeOK, Threads
  <2>2. Signing' = Signing /\ newTx' = newTx /\ walletBalance' = walletBalance
    BY <1>1, <1>a DEF MineBlock, Signing, TypeOK, Threads, nodeVars
  <2> QED
    BY <1>b, <2>1, <2>2, WalletKept
<1>2. ASSUME NEW t \in Users, NEW to \in Receivers, NEW amount \in Amounts,
             SendMoney(t, to, amount)
      PROVE  WalletInv'
  <2>1. PICK now \in Times : newTx' = [newTx EXCEPT ![t] = Transfer(Me, to, amount, now)]
    BY <1>2 DEF SendMoney
  <2>2. Transfer(Me, to, amount, now).amount = amount
    BY DEF Transfer
  <2>3. UsersPay'
    BY <1>2, <1>a, <2>1, <2>2 DEF SendMoney, UsersPay, TypeOK, Threads
  <2> QED
    BY <1>2, <1>b, <2>3, CheckCovers
<1>3. ASSUME NEW t \in Users, NEW amount \in Amounts, SendMoneyFails(t, amount)
      PROVE  WalletInv'
  <2>1. UsersPay'
    BY <1>3, <1>a DEF SendMoneyFails, UsersPay, TypeOK, Threads
  <2>2. Signing' = Signing /\ walletBalance' = walletBalance
    BY <1>3, <1>a DEF SendMoneyFails, Signing, TypeOK, Threads, nodeVars
  <2>3. \A u \in Signing : newTx'[u] = newTx[u]
    BY <1>3, <1>a DEF SendMoneyFails, Signing, TypeOK, Threads
  <2> QED
    BY <1>b, <2>1, <2>2, <2>3, WalletKept
<1>4. ASSUME NEW t \in Users, ViewWallet(t) PROVE WalletInv'
  <2>1. UsersPay' /\ Signing' = Signing /\ newTx' = newTx
    BY <1>4, <1>a DEF ViewWallet, UsersPay, Signing, threadVars
  <2>2. t \notin Signing
    BY <1>4 DEF ViewWallet, Signing
  <2>3. walletBalance' >= 0
    BY <1>4, <1>a, BlockchainAssumption DEF ViewWallet, NonNegative
  <2> QED
    BY <1>b, <2>1, <2>2, <2>3, WalletKept
<1>5. ASSUME NEW t \in Net, NEW b \in gossipBlocks, ReceiveBlock(t, b) PROVE WalletInv'
  <2>1. UsersPay'
    BY <1>5, <1>a DEF ReceiveBlock, UsersPay, TypeOK, Threads
  <2>2. Signing' = Signing /\ newTx' = newTx /\ walletBalance' = walletBalance
    BY <1>5, <1>a DEF ReceiveBlock, Signing, TypeOK, Threads
  <2> QED
    BY <1>b, <2>1, <2>2, WalletKept
<1>6. ASSUME NEW t \in Net, NEW tx \in gossipTxs, ReceiveTransaction(t, tx) PROVE WalletInv'
  <2>1. /\ UsersPay' /\ Signing' = Signing /\ newTx' = newTx
        /\ walletBalance' = walletBalance
    BY <1>6, <1>a DEF ReceiveTransaction, UsersPay, Signing, threadVars
  <2> QED
    BY <1>b, <2>1, WalletKept
<1>7. ASSUME NEW t \in Threads, PushMined(t) PROVE WalletInv'
  <2>1. UsersPay'
    BY <1>7, <1>a DEF PushMined, UsersPay, TypeOK
  <2>2. Signing' = Signing /\ newTx' = newTx /\ walletBalance' = walletBalance
    BY <1>7, <1>a DEF PushMined, Signing, TypeOK
  <2> QED
    BY <1>b, <2>1, <2>2, WalletKept
<1>8. ASSUME NEW t \in Threads, RefuseMined(t) PROVE WalletInv'
  <2>1. UsersPay'
    BY <1>8, <1>a DEF RefuseMined, Return, UsersPay, TypeOK
  <2>2. Signing' = Signing /\ walletBalance' = walletBalance
    BY <1>8, <1>a DEF RefuseMined, Return, Signing, TypeOK, nodeVars
  <2>3. \A u \in Signing : newTx'[u] = newTx[u]
    BY <1>8, <1>a DEF RefuseMined, Return, Signing, TypeOK
  <2> QED
    BY <1>b, <2>1, <2>2, <2>3, WalletKept
<1>9. ASSUME NEW t \in Threads, ReadBalances(t) PROVE WalletInv'
  <2>1. UsersPay'
    BY <1>9, <1>a DEF ReadBalances, UsersPay, TypeOK
  <2>2. Signing' = Signing /\ newTx' = newTx /\ walletBalance' = walletBalance
    BY <1>9, <1>a DEF ReadBalances, Applying, Signing, TypeOK, nodeVars
  <2> QED
    BY <1>b, <2>1, <2>2, WalletKept
<1>10. ASSUME NEW t \in Threads, SkipTransaction(t) PROVE WalletInv'
  <2>1. /\ UsersPay' /\ Signing' = Signing /\ newTx' = newTx
        /\ walletBalance' = walletBalance
    BY <1>10, <1>a DEF SkipTransaction, UsersPay, Signing, nodeVars
  <2> QED
    BY <1>b, <2>1, WalletKept
<1>11. ASSUME NEW t \in Threads, WriteBalances(t) PROVE WalletInv'
  <2>1. UsersPay'
    BY <1>11, <1>a DEF WriteBalances, UsersPay, TypeOK
  <2>2. Signing' = Signing /\ newTx' = newTx /\ walletBalance' = walletBalance
    BY <1>11, <1>a DEF WriteBalances, Signing, TypeOK
  <2> QED
    BY <1>b, <2>1, <2>2, WalletKept
<1>12. ASSUME NEW t \in Threads, FinishBlock(t) PROVE WalletInv'
  <2>1. UsersPay'
    BY <1>12, <1>a DEF FinishBlock, Return, UsersPay, TypeOK
  <2>2. Signing' = Signing /\ t \notin Signing
    BY <1>12, <1>a DEF FinishBlock, Return, Signing, TypeOK
  <2>3. \A u \in Signing : newTx'[u] = newTx[u]
    BY <1>12, <1>a DEF FinishBlock, Return, Signing, TypeOK
  <2>4. CASE job[t] = "mine"
    <3>1. t \in Users
      BY <1>a, <2>4 DEF UsersPay
    <3>2. walletBalance' >= 0
      BY <1>12, <1>a, <2>4, BlockchainAssumption DEF FinishBlock, NonNegative
    <3> QED
      BY <1>b, <2>1, <2>2, <2>3, <3>1, <3>2, WalletKept
  <2>5. CASE job[t] # "mine"
    <3>1. walletBalance' = walletBalance
      BY <1>12, <2>5 DEF FinishBlock
    <3> QED
      BY <1>b, <2>1, <2>2, <2>3, <3>1, WalletKept
  <2> QED
    BY <2>4, <2>5
<1>13. ASSUME NEW t \in Threads, SubmitTransaction(t) PROVE WalletInv'
  <2>1. UsersPay'
    BY <1>13, <1>a DEF SubmitTransaction, Return, UsersPay, TypeOK
  <2>2. Signing' = Signing /\ walletBalance' = walletBalance
    BY <1>13, <1>a DEF SubmitTransaction, Return, Signing, TypeOK
  <2>3. \A u \in Signing : newTx'[u] = newTx[u]
    BY <1>13, <1>a DEF SubmitTransaction, Return, Signing, TypeOK
  <2> QED
    BY <1>b, <2>1, <2>2, <2>3, WalletKept
<1>14. ASSUME NEW miner \in Addr \ {Me}, NEW parent \in gossipBlocks, NEW n \in 0 .. MaxPeerTxs,
              PeerMines(miner, parent, n)
       PROVE  WalletInv'
  <2>1. /\ UsersPay' /\ Signing' = Signing /\ newTx' = newTx
        /\ walletBalance' = walletBalance
    BY <1>14, <1>a DEF PeerMines, UsersPay, Signing, nodeVars, threadVars
  <2> QED
    BY <1>b, <2>1, WalletKept
<1>15. ASSUME NEW from \in Addr \ {Me}, NEW to \in Receivers, NEW amount \in Amounts,
              PeerSends(from, to, amount)
       PROVE  WalletInv'
  <2>1. /\ UsersPay' /\ Signing' = Signing /\ newTx' = newTx
        /\ walletBalance' = walletBalance
    BY <1>15, <1>a DEF PeerSends, UsersPay, Signing, nodeVars, threadVars
  <2> QED
    BY <1>b, <2>1, WalletKept
<1>16. ASSUME NEW t \in Threads, DebitWallet(t) PROVE WalletInv'
  <2>1. UsersPay'
    BY <1>16, <1>a DEF DebitWallet, UsersPay, TypeOK
  <2> QED
    BY <1>16, <1>b, <2>1, DebitCovers
<1>17. CASE UNCHANGED vars
  <2>1. /\ UsersPay' /\ Signing' = Signing /\ newTx' = newTx
        /\ walletBalance' = walletBalance
    BY <1>17, <1>a DEF vars, UsersPay, Signing, nodeVars, threadVars
  <2> QED
    BY <1>b, <2>1, WalletKept
<1> QED
  BY <1>1, <1>2, <1>3, <1>4, <1>5, <1>6, <1>7, <1>8, <1>9, <1>10, <1>11, <1>12, <1>13,
     <1>14, <1>15, <1>16, <1>17
  DEF Next, UserStep, NetStep, Continue, PeerStep

\* When every debit to come is within the bound, so is the wallet now.
LEMMA CoveredIsBounded ==
    ASSUME WalletInv, NEW limit \in Amounts, \A amount \in Amounts : amount <= limit
    PROVE  walletBalance >= -(limit * (Cardinality(Users) - 1))
<1> DEFINE n == Cardinality(Users)
<1>1. UsersPay /\ SigningCovered(limit) /\ walletBalance \in Int
  BY DEF WalletInv, BalanceInv, TypeInv, TypeOK
<1>2. n \in Nat /\ Cardinality(Signing) \in Nat /\ Others = n - Cardinality(Signing)
  BY <1>1, SigningCounted DEF Others
<1>3. limit \in Nat
  BY BlockchainAssumption
<1> HIDE DEF n
<1>4. CASE walletBalance >= -(limit * (Others - 1))
  <2>1. Others - 1 \in Int /\ n - 1 \in Int /\ Others - 1 <= n - 1
    BY <1>2
  <2>2. limit * (Others - 1) <= limit * (n - 1)
    BY <1>3, <2>1, Products
  <2>3. limit * (Others - 1) \in Int /\ limit * (n - 1) \in Int
    BY <1>3, <2>1, Products
  <2>4. walletBalance >= -(limit * (n - 1))
    BY <1>1, <1>4, <2>2, <2>3
  <2> QED
    BY <2>4 DEF n
<1>5. ASSUME NEW m \in Signing, walletBalance >= newTx[m].amount - limit * Others
      PROVE  walletBalance >= -(limit * (n - 1))
  <2>1. newTx[m].amount \in Nat
    BY <1>1, BlockchainAssumption DEF UsersPay, Signing
  <2>2. Cardinality(Signing) # 0
    BY <1>1, SigningCounted, FS_EmptySet
  <2>3. Others \in Int /\ n - 1 \in Int /\ Others <= n - 1
    BY <1>2, <2>2
  <2>4. limit * Others <= limit * (n - 1)
    BY <1>3, <2>3, Products
  <2>5. limit * Others \in Int /\ limit * (n - 1) \in Int
    BY <1>3, <2>3, Products
  <2> QED
    BY <1>1, <1>5, <2>1, <2>4, <2>5
<1> QED
  BY <1>1, <1>4, <1>5 DEF SigningCovered, n

\* No balance of the database is ever negative, and the wallet is overdrawn by
\* at most one payment for each user thread but one, however the threads
\* interleave and whatever the users pay, mine and view.
THEOREM OverdraftIsBounded == Spec => []OverdraftBounded
<1>1. Init => WalletInv
  BY WalletInit
<1>2. WalletInv /\ [Next]_vars => WalletInv'
  BY WalletStep
<1>3. WalletInv => OverdraftBounded
  BY CoveredIsBounded DEF WalletInv, BalanceInv, NonNegative, OverdraftBounded
<1> QED
  BY <1>1, <1>2, <1>3, PTL DEF Spec

-----------------------------------------------------------------------------
(* What appending does to a sequence *)

\* Appending adds one element.
LEMMA AppendElems ==
    ASSUME NEW S, NEW s \in Seq(S), NEW x \in S
    PROVE  Elems(Append(s, x)) = Elems(s) \cup {x}
<1>1. /\ Append(s, x) \in Seq(S)
      /\ Len(Append(s, x)) = Len(s) + 1
      /\ \A i \in 1 .. Len(s) : Append(s, x)[i] = s[i]
      /\ Append(s, x)[Len(s) + 1] = x
  BY AppendProperties
<1>2. Len(s) \in Nat /\ DOMAIN s = 1 .. Len(s)
  BY LenProperties
<1>3. DOMAIN Append(s, x) = 1 .. Len(s) + 1
  BY <1>1, LenProperties
<1> QED
  BY <1>1, <1>2, <1>3 DEF Elems

\* Appending an element that is not there repeats none.
LEMMA AppendNoRepeats ==
    ASSUME NEW S, NEW s \in Seq(S), NEW x \in S, NoRepeats(s), x \notin Elems(s)
    PROVE  NoRepeats(Append(s, x))
<1>1. /\ Append(s, x) \in Seq(S)
      /\ Len(Append(s, x)) = Len(s) + 1
      /\ \A i \in 1 .. Len(s) : Append(s, x)[i] = s[i]
      /\ Append(s, x)[Len(s) + 1] = x
  BY AppendProperties
<1>2. Len(s) \in Nat /\ DOMAIN s = 1 .. Len(s)
  BY LenProperties
<1>3. DOMAIN Append(s, x) = 1 .. Len(s) + 1
  BY <1>1, LenProperties
<1> SUFFICES ASSUME NEW i \in 1 .. Len(s) + 1, NEW j \in 1 .. Len(s) + 1,
                    Append(s, x)[i] = Append(s, x)[j]
             PROVE  i = j
  BY <1>3 DEF NoRepeats
<1>4. CASE i \in 1 .. Len(s) /\ j \in 1 .. Len(s)
  BY <1>1, <1>2, <1>4 DEF NoRepeats
<1>5. CASE i = Len(s) + 1 /\ j \in 1 .. Len(s)
  BY <1>1, <1>2, <1>5 DEF Elems
<1>6. CASE i \in 1 .. Len(s) /\ j = Len(s) + 1
  BY <1>1, <1>2, <1>6 DEF Elems
<1>7. /\ i \in 1 .. Len(s) \/ i = Len(s) + 1
      /\ j \in 1 .. Len(s) \/ j = Len(s) + 1
  BY <1>2
<1> QED
  BY <1>4, <1>5, <1>6, <1>7

\* A miner copies its mempool and appends one coinbase.
CoinbaseLast(txs) ==
    /\ txs # <<>>
    /\ IsCoinbase(txs[Len(txs)])
    /\ \A i, j \in 1 .. Len(txs) - 1 : txs[i] = txs[j] => i = j

\* mineBlock puts one coinbase behind a mempool without repetitions.
LEMMA CoinbaseAppended ==
    ASSUME NEW s \in Seq(Tx), NoRepeats(s), NEW miner \in Addr, NEW now \in Times
    PROVE  CoinbaseLast(Append(s, Coinbase(miner, now)))
<1> DEFINE txs == Append(s, Coinbase(miner, now))
<1>1. /\ txs # <<>>
      /\ Len(txs) = Len(s) + 1
      /\ \A i \in 1 .. Len(s) : txs[i] = s[i]
      /\ txs[Len(s) + 1] = Coinbase(miner, now)
  BY RecordTypes, AppendProperties
<1>2. IsCoinbase(Coinbase(miner, now))
  BY LedgerAssumption DEF IsCoinbase, Coinbase
<1>3. Len(s) \in Nat /\ DOMAIN s = 1 .. Len(s)
  BY LenProperties
<1> QED
  BY <1>1, <1>2, <1>3 DEF CoinbaseLast, NoRepeats

\* validateTransactions admits one coinbase, so the last one is not a copy.
LEMMA ValidatedNoRepeats ==
    ASSUME NEW txs \in Seq(Tx), CoinbaseLast(txs), ValidateTransactions(txs)
    PROVE  NoRepeats(txs)
<1>1. Len(txs) \in Nat /\ DOMAIN txs = 1 .. Len(txs)
  BY LenProperties
<1> SUFFICES ASSUME NEW i \in 1 .. Len(txs), NEW j \in 1 .. Len(txs), txs[i] = txs[j]
             PROVE  i = j
  BY <1>1 DEF NoRepeats
<1>2. CASE i \in 1 .. Len(txs) - 1 /\ j \in 1 .. Len(txs) - 1
  BY <1>2 DEF CoinbaseLast
<1>3. CASE i = Len(txs) \/ j = Len(txs)
  <2>1. IsCoinbase(txs[i]) /\ IsCoinbase(txs[j])
    BY <1>3 DEF CoinbaseLast
  <2> QED
    BY <1>1, <2>1 DEF ValidateTransactions
<1>4. /\ i \in 1 .. Len(txs) - 1 \/ i = Len(txs)
      /\ j \in 1 .. Len(txs) - 1 \/ j = Len(txs)
  <2> DEFINE n == Len(txs)
  <2>1. n \in Nat
    BY <1>1
  <2>2. \A k \in 1 .. n : k \in 1 .. n - 1 \/ k = n
    <3> HIDE DEF n
    <3> QED
      BY <2>1
  <2> QED
    BY <2>2
<1> QED
  BY <1>2, <1>3, <1>4

-----------------------------------------------------------------------------
(* The chain, whatever the threads do *)

AllBlocks == Elems(chain) \cup gossipBlocks

\* A block of a peer that this node has not added: where it hangs, and how its
\* miner put its transactions together.
PeerBlockOK(b) ==
    /\ CoinbaseLast(b.txs)
    /\ \E p \in AllBlocks : p.hash = b.prev /\ b.number = p.number + 1

\* A block a thread is mining: it was put on a block the chain still holds.
DraftOK(t) ==
    /\ CoinbaseLast(newBlock[t].txs)
    /\ newBlock[t].number <= Len(chain)
    /\ \E j \in 1 .. Len(chain) :
         chain[j].hash = newBlock[t].prev /\ chain[j].number < newBlock[t].number

UniqueHashes == \A b, c \in AllBlocks : b.hash = c.hash => b = c
NumbersBehind == \A i \in 1 .. Len(chain) : chain[i].number < i
PeerBlocksOK == \A b \in gossipBlocks : b \in Elems(chain) \/ PeerBlockOK(b)
DraftsOK == \A t \in Threads : pc[t] = "mining" => DraftOK(t)
AppliedInChain == \A t \in Threads : pc[t] \in {"apply", "write"} => newBlock[t] \in Elems(chain)

ChainInv ==
    /\ TypeInv
    /\ UniqueHashes
    /\ NumbersBehind
    /\ PeerBlocksOK
    /\ DraftsOK
    /\ AppliedInChain
    /\ Rooted
    /\ BlocksWellFormed

\* A chain of one genesis block satisfies the invariant.
LEMMA ChainInit == Init => ChainInv
<1> SUFFICES ASSUME Init PROVE ChainInv
  OBVIOUS
<1> USE DEF FreshNode
<1>1. TypeInv
  BY TypeInit
<1>2. PICK now \in Times : Init!(now)
  BY DEF Init
<1>3. Len(chain) = 1 /\ chain[1] = GenesisBlock(now) /\ DOMAIN chain = {1}
  BY <1>2
<1>4. Elems(chain) = {GenesisBlock(now)}
  BY <1>3 DEF Elems
<1>5. UniqueHashes /\ PeerBlocksOK
  BY <1>2, <1>4 DEF UniqueHashes, PeerBlocksOK, AllBlocks
<1>6. NumbersBehind /\ Rooted
  BY <1>3 DEF NumbersBehind, Rooted, GenesisBlock
<1>7. DraftsOK /\ AppliedInChain
  BY <1>2 DEF DraftsOK, AppliedInChain
<1>8. BlocksWellFormed
  BY <1>2, <1>3 DEF BlocksWellFormed, NoRepeats
<1> QED
  BY <1>1, <1>5, <1>6, <1>7, <1>8 DEF ChainInv

\* The guards of addExistingBlock leave one case: the block's previous hash is
\* the hash of the last block, and its miner gave it the next number of that.
LEMMA ReceivedBlock ==
    ASSUME ChainInv, NEW t, NEW b \in gossipBlocks, ReceiveBlock(t, b)
    PROVE  /\ b \notin Elems(chain)
           /\ b.prev = Last(chain).hash
           /\ b.number = Last(chain).number + 1
           /\ Last(chain) = chain[Len(chain)]
           /\ Last(chain) \in Elems(chain)
           /\ Len(chain) \in Nat \ {0}
           /\ NoRepeats(b.txs)
           /\ ValidateTransactions(b.txs)
<1> USE DEF ChainInv, TypeInv
<1>1. Len(chain) \in Nat \ {0} /\ DOMAIN chain = 1 .. Len(chain)
  BY LenProperties DEF TypeOK
<1>2. Last(chain) = chain[Len(chain)] /\ Last(chain) \in Elems(chain)
  BY <1>1 DEF Last, Elems
<1>3. b.hash \notin Hashes(Elems(chain)) /\ ~Rejects(b)
  BY DEF ReceiveBlock
<1>4. b \notin Elems(chain) /\ b.hash # Last(chain).hash
  BY <1>2, <1>3 DEF Hashes
<1>5. b.prev = Last(chain).hash /\ ValidateTransactions(b.txs)
  BY <1>3, <1>4 DEF Rejects
<1>6. PeerBlockOK(b)
  BY <1>4 DEF PeerBlocksOK
<1>7. b.number = Last(chain).number + 1
  <2>1. PICK p \in AllBlocks : p.hash = b.prev /\ b.number = p.number + 1
    BY <1>6 DEF PeerBlockOK
  <2>2. p = Last(chain)
    BY <2>1, <1>2, <1>5 DEF UniqueHashes, AllBlocks
  <2> QED
    BY <2>1, <2>2
<1>8. NoRepeats(b.txs)
  <2>1. b.txs \in Seq(Tx)
    BY DEF TypeOK, Block
  <2> QED
    BY <2>1, <1>5, <1>6, ValidatedNoRepeats DEF PeerBlockOK
<1> QED
  BY <1>1, <1>2, <1>4, <1>5, <1>7, <1>8

\* A step that appends a block which hangs on the chain keeps the parts of the
\* invariant that speak of the chain alone.
LEMMA ChainAppended ==
    ASSUME ChainInv, NEW b \in Block, chain' = Append(chain, b),
           b.number <= Len(chain),
           \E j \in 1 .. Len(chain) : chain[j].hash = b.prev /\ chain[j].number < b.number,
           NoRepeats(b.txs), ValidateTransactions(b.txs), NoRepeats(mempool')
    PROVE  /\ Elems(chain)' = Elems(chain) \cup {b}
           /\ Len(chain') = Len(chain) + 1
           /\ Len(chain) \in Nat
           /\ \A i \in 1 .. Len(chain) : chain'[i] = chain[i]
           /\ NumbersBehind'
           /\ Rooted'
           /\ BlocksWellFormed'
<1> USE DEF ChainInv, TypeInv
<1>1. Elems(chain)' = Elems(chain) \cup {b}
  <2>1. Elems(chain)' = Elems(Append(chain, b))
    OBVIOUS
  <2> QED
    BY <2>1, AppendElems DEF TypeOK
<1>2. /\ Len(chain') = Len(chain) + 1
      /\ \A i \in 1 .. Len(chain) : chain'[i] = chain[i]
      /\ chain'[Len(chain) + 1] = b
  BY AppendProperties DEF TypeOK
<1>3. Len(chain) \in Nat
  BY LenProperties DEF TypeOK
<1>4. \A i \in 1 .. Len(chain') : i \in 1 .. Len(chain) \/ i = Len(chain) + 1
  BY <1>2, <1>3
<1>5. NumbersBehind'
  <2> SUFFICES ASSUME NEW i \in 1 .. Len(chain') PROVE chain'[i].number < i
    BY DEF NumbersBehind
  <2>1. CASE i \in 1 .. Len(chain)
    BY <1>2, <2>1 DEF NumbersBehind
  <2>2. CASE i = Len(chain) + 1
    BY <1>2, <1>3, <2>2 DEF Block
  <2> QED
    BY <1>4, <2>1, <2>2
<1>6. Rooted'
  <2> SUFFICES ASSUME NEW i \in 2 .. Len(chain')
               PROVE  /\ chain'[i].number < i
                      /\ \E j \in 1 .. i - 1 :
                           chain'[j].hash = chain'[i].prev /\ chain'[j].number < chain'[i].number
    BY DEF Rooted
  <2>1. chain'[i].number < i
    BY <1>2, <1>3, <1>5 DEF NumbersBehind
  <2>2. CASE i \in 2 .. Len(chain)
    <3>1. PICK j \in 1 .. i - 1 :
            chain[j].hash = chain[i].prev /\ chain[j].number < chain[i].number
      BY <2>2 DEF Rooted
    <3>2. j \in 1 .. Len(chain) /\ i \in 1 .. Len(chain)
      BY <1>3, <2>2
    <3>3. chain'[j].hash = chain'[i].prev /\ chain'[j].number < chain'[i].number
      BY <1>2, <3>1, <3>2
    <3> QED
      BY <2>1, <3>3
  <2>3. CASE i = Len(chain) + 1
    <3>1. PICK j \in 1 .. Len(chain) : chain[j].hash = b.prev /\ chain[j].number < b.number
      OBVIOUS
    <3>2. chain'[j].hash = chain'[i].prev /\ chain'[j].number < chain'[i].number
      BY <1>2, <2>3, <3>1
    <3>3. j \in 1 .. i - 1
      BY <1>3, <2>3
    <3> QED
      BY <2>1, <3>2, <3>3
  <2>4. i \in 2 .. Len(chain) \/ i = Len(chain) + 1
    BY <1>2, <1>3
  <2> QED
    BY <2>2, <2>3, <2>4
<1>7. BlocksWellFormed'
  <2> SUFFICES ASSUME NEW i \in 2 .. Len(chain')
               PROVE  NoRepeats(chain'[i].txs) /\ ValidateTransactions(chain'[i].txs)
    BY DEF BlocksWellFormed, NoRepeats
  <2>1. CASE i \in 2 .. Len(chain)
    <3>1. i \in 1 .. Len(chain)
      BY <1>3, <2>1
    <3> QED
      BY <1>2, <2>1, <3>1 DEF BlocksWellFormed
  <2>2. CASE i = Len(chain) + 1
    BY <1>2, <2>2
  <2>3. i \in 2 .. Len(chain) \/ i = Len(chain) + 1
    BY <1>2, <1>3
  <2> QED
    BY <2>1, <2>2, <2>3
<1> QED
  BY <1>1, <1>2, <1>3, <1>5, <1>6, <1>7

\* A step that leaves the chain and the gossiped blocks alone keeps the
\* invariant when every block in work is one that was in work, or a good draft.
LEMMA ChainKept ==
    ASSUME ChainInv, TypeInv', chain' = chain, gossipBlocks' = gossipBlocks,
           NoRepeats(mempool)',
           \A u \in Threads :
             \/ pc'[u] \notin {"mining", "apply", "write"}
             \/ pc'[u] = "mining" /\ DraftOK(u)'
             \/ newBlock'[u] = newBlock[u] /\ pc'[u] = pc[u]
             \/ newBlock'[u] = newBlock[u] /\ pc[u] \in {"apply", "write"}
                  /\ pc'[u] \in {"apply", "write"}
    PROVE  ChainInv'
<1> USE DEF ChainInv
<1>1. UniqueHashes' /\ NumbersBehind' /\ Rooted'
  BY DEF UniqueHashes, NumbersBehind, Rooted, AllBlocks, Elems
<1>2. PeerBlocksOK'
  BY DEF PeerBlocksOK, PeerBlockOK, AllBlocks, Elems
<1>3. BlocksWellFormed'
  BY DEF BlocksWellFormed
<1>4. DraftsOK'
  BY DEF DraftsOK, DraftOK
<1>5. AppliedInChain'
  BY DEF AppliedInChain, Elems
<1> QED
  BY <1>1, <1>2, <1>3, <1>4, <1>5

\* An append keeps the drafts and the applied blocks of the threads whose call
\* it does not change.
LEMMA WorkKept ==
    ASSUME ChainInv, NEW u \in Threads,
           pc'[u] = pc[u], newBlock'[u] = newBlock[u],
           Len(chain) \in Nat, Len(chain') = Len(chain) + 1,
           \A i \in 1 .. Len(chain) : chain'[i] = chain[i],
           Elems(chain) \subseteq Elems(chain)'
    PROVE  /\ pc'[u] = "mining" => DraftOK(u)'
           /\ pc'[u] \in {"apply", "write"} => newBlock'[u] \in Elems(chain)'
<1>1. ASSUME pc[u] = "mining" PROVE DraftOK(u)'
  <2>1. DraftOK(u)
    BY <1>1 DEF ChainInv, DraftsOK
  <2>2. PICK j \in 1 .. Len(chain) :
          chain[j].hash = newBlock[u].prev /\ chain[j].number < newBlock[u].number
    BY <2>1 DEF DraftOK
  <2>3. chain'[j].hash = newBlock'[u].prev /\ chain'[j].number < newBlock'[u].number
    BY <2>2
  <2>4. j \in 1 .. Len(chain')
    OBVIOUS
  <2>5. newBlock[u].number \in Nat
    BY DEF ChainInv, TypeInv, TypeOK, Block
  <2>6. newBlock'[u].number <= Len(chain')
    BY <2>1, <2>5 DEF DraftOK
  <2> QED
    BY <2>1, <2>3, <2>4, <2>6 DEF DraftOK
<1>2. ASSUME pc[u] \in {"apply", "write"} PROVE newBlock'[u] \in Elems(chain)'
  BY <1>2 DEF ChainInv, AppliedInChain
<1> QED
  BY <1>1, <1>2

\* A pending transaction is added only when it is not pending.
LEMMA MempoolKept ==
    ASSUME TypeOK, NoRepeats(mempool), NEW tx \in Tx, AddTransaction(tx)
    PROVE  NoRepeats(mempool)'
<1>1. CASE mempool' = mempool
  BY <1>1 DEF NoRepeats
<1>2. CASE mempool' # mempool
  <2>1. mempool' = Append(mempool, tx) /\ tx \notin Elems(mempool)
    BY <1>2 DEF AddTransaction, InMempool
  <2>2. NoRepeats(Append(mempool, tx))
    BY <2>1, AppendNoRepeats DEF TypeOK
  <2> QED
    BY <2>1, <2>2 DEF NoRepeats
<1> QED
  BY <1>1, <1>2

\* Every step of every thread and every peer keeps the chain well formed.
LEMMA ChainStep == ChainInv /\ [Next]_vars => ChainInv'
<1> SUFFICES ASSUME ChainInv, [Next]_vars PROVE ChainInv'
  OBVIOUS
<1>a. TypeInv'
  BY TypeStep DEF ChainInv
<1>b. TypeOK /\ NoRepeats(mempool)
  BY DEF ChainInv, TypeInv, BlocksWellFormed
<1>c. Len(chain) \in Nat \ {0} /\ DOMAIN chain = 1 .. Len(chain)
  BY <1>b, LenProperties DEF TypeOK
<1>1. ASSUME NEW t \in Users, MineBlock(t) PROVE ChainInv'
  <2>0. t \in Threads
    BY DEF Threads
  <2>1. PICK now \in Times :
          newBlock' = [newBlock EXCEPT ![t] =
            [number |-> Len(chain), prev |-> Last(chain).hash, hash |-> NoHash,
             txs |-> Append(mempool, Coinbase(Me, now))]]
    BY <1>1 DEF MineBlock
  <2>2. CoinbaseLast(Append(mempool, Coinbase(Me, now)))
    BY <1>b, BlockchainAssumption, CoinbaseAppended DEF TypeOK
  <2>3. chain[Len(chain)].number < Len(chain)
    BY <1>c DEF ChainInv, NumbersBehind
  <2>4. /\ newBlock'[t].number = Len(chain)
        /\ newBlock'[t].prev = chain[Len(chain)].hash
        /\ newBlock'[t].txs = Append(mempool, Coinbase(Me, now))
    BY <1>b, <2>0, <2>1 DEF TypeOK, Last
  <2>5. chain' = chain /\ gossipBlocks' = gossipBlocks /\ mempool' = mempool
    BY <1>1 DEF MineBlock, nodeVars
  <2>6. DraftOK(t)'
    BY <1>c, <2>2, <2>3, <2>4, <2>5 DEF DraftOK
  <2>7. NoRepeats(mempool)'
    BY <1>b, <2>5 DEF NoRepeats
  <2>8. pc'[t] = "mining" /\ \A u \in Threads \ {t} : newBlock'[u] = newBlock[u] /\ pc'[u] = pc[u]
    BY <1>1, <1>b, <2>0, <2>1 DEF MineBlock, TypeOK
  <2> QED
    BY <1>a, <2>5, <2>6, <2>7, <2>8, ChainKept
<1>2. ASSUME NEW t \in Users, NEW to \in Receivers, NEW amount \in Amounts,
             SendMoney(t, to, amount)
      PROVE  ChainInv'
  <2>1. NoRepeats(mempool)'
    BY <1>2, <1>b DEF SendMoney, NoRepeats, nodeVars
  <2> QED
    BY <1>2, <1>a, <1>b, <2>1, ChainKept DEF SendMoney, TypeOK, nodeVars
<1>3. ASSUME NEW t \in Users, NEW amount \in Amounts, SendMoneyFails(t, amount)
      PROVE  ChainInv'
  <2>1. NoRepeats(mempool)'
    BY <1>3, <1>b DEF SendMoneyFails, NoRepeats, nodeVars
  <2> QED
    BY <1>3, <1>a, <1>b, <2>1, ChainKept DEF SendMoneyFails, TypeOK, nodeVars
<1>4. ASSUME NEW t \in Users, ViewWallet(t) PROVE ChainInv'
  <2>1. NoRepeats(mempool)'
    BY <1>4, <1>b DEF ViewWallet, NoRepeats
  <2> QED
    BY <1>4, <1>a, <2>1, ChainKept DEF ViewWallet, threadVars
<1>5. ASSUME NEW t \in Net, NEW b \in gossipBlocks, ReceiveBlock(t, b) PROVE ChainInv'
  <2>0. t \in Threads /\ b \in Block
    BY <1>b DEF Threads, TypeOK
  <2>1. /\ b.prev = chain[Len(chain)].hash
        /\ b.number = chain[Len(chain)].number + 1
        /\ NoRepeats(b.txs)
        /\ ValidateTransactions(b.txs)
    BY <1>5, ReceivedBlock
  <2>2. chain' = Append(chain, b) /\ mempool' = mempool /\ gossipBlocks' = gossipBlocks
    BY <1>5 DEF ReceiveBlock
  <2>3. NoRepeats(mempool')
    BY <1>b, <2>2
  <2>4. chain[Len(chain)] \in Block
    BY <1>b, <1>c, ElementOfSeq DEF TypeOK
  <2>5. b.number <= Len(chain) /\ chain[Len(chain)].number < b.number
    BY <1>c, <2>1, <2>4 DEF ChainInv, NumbersBehind, Block
  <2>6. \E j \in 1 .. Len(chain) : chain[j].hash = b.prev /\ chain[j].number < b.number
    BY <1>c, <2>1, <2>5
  <2>7. /\ Elems(chain)' = Elems(chain) \cup {b}
        /\ Len(chain') = Len(chain) + 1
        /\ \A i \in 1 .. Len(chain) : chain'[i] = chain[i]
        /\ NumbersBehind' /\ Rooted' /\ BlocksWellFormed'
    BY <2>0, <2>1, <2>2, <2>3, <2>5, <2>6, ChainAppended
  <2>8. UniqueHashes'
    BY <2>2, <2>7 DEF ChainInv, UniqueHashes, AllBlocks
  <2>9. PeerBlocksOK'
    BY <2>2, <2>7 DEF ChainInv, PeerBlocksOK, PeerBlockOK, AllBlocks
  <2>10. pc'[t] = "apply" /\ newBlock'[t] = b
    BY <1>5, <1>b, <2>0 DEF ReceiveBlock, TypeOK
  <2>11. \A u \in Threads \ {t} : newBlock'[u] = newBlock[u] /\ pc'[u] = pc[u]
    BY <1>5, <1>b, <2>0 DEF ReceiveBlock, TypeOK
  <2>12. DraftsOK' /\ AppliedInChain'
    BY <1>c, <2>7, <2>10, <2>11, WorkKept DEF DraftsOK, AppliedInChain
  <2> QED
    BY <1>a, <2>7, <2>8, <2>9, <2>12 DEF ChainInv
<1>6. ASSUME NEW t \in Net, NEW tx \in gossipTxs, ReceiveTransaction(t, tx) PROVE ChainInv'
  <2>1. NoRepeats(mempool)'
    BY <1>6, <1>b, MempoolKept DEF ReceiveTransaction, TypeOK
  <2> QED
    BY <1>6, <1>a, <2>1, ChainKept DEF ReceiveTransaction, threadVars
<1>7. ASSUME NEW t \in Threads, PushMined(t) PROVE ChainInv'
  <2>1. PICK h \in FreshHash :
          /\ newBlock' = [newBlock EXCEPT ![t] = [newBlock[t] EXCEPT !.hash = h]]
          /\ chain' = Append(chain, [newBlock[t] EXCEPT !.hash = h])
    BY <1>7 DEF PushMined
  <2> DEFINE b == [newBlock[t] EXCEPT !.hash = h]
  <2>2. /\ b \in Block
        /\ b.hash = h /\ b.number = newBlock[t].number
        /\ b.prev = newBlock[t].prev /\ b.txs = newBlock[t].txs
        /\ b.txs \in Seq(Tx)
    <3>1. newBlock[t] \in Block
      BY <1>b DEF TypeOK
    <3> QED
      BY <3>1 DEF Block, FreshHash
  <2>3. h \notin Hashes(AllBlocks)
    BY DEF FreshHash, AllBlocks
  <2>4. DraftOK(t) /\ ValidateTransactions(b.txs)
    BY <1>7, <2>2 DEF PushMined, ChainInv, DraftsOK
  <2>5. NoRepeats(b.txs)
    BY <2>2, <2>4, ValidatedNoRepeats DEF DraftOK
  <2>6. /\ b.number <= Len(chain)
        /\ \E j \in 1 .. Len(chain) : chain[j].hash = b.prev /\ chain[j].number < b.number
    BY <2>2, <2>4 DEF DraftOK
  <2>7. gossipBlocks' = gossipBlocks /\ NoRepeats(mempool')
    BY <1>7, <1>b DEF PushMined
  <2> HIDE DEF b
  <2>8. /\ Elems(chain)' = Elems(chain) \cup {b}
        /\ Len(chain') = Len(chain) + 1
        /\ \A i \in 1 .. Len(chain) : chain'[i] = chain[i]
        /\ NumbersBehind' /\ Rooted' /\ BlocksWellFormed'
    <3>1. chain' = Append(chain, b)
      BY <2>1 DEF b
    <3> QED
      BY <3>1, <2>2, <2>4, <2>5, <2>6, <2>7, ChainAppended
  <2>9. UniqueHashes'
    BY <2>2, <2>3, <2>7, <2>8 DEF ChainInv, UniqueHashes, AllBlocks, Hashes
  <2>10. PeerBlocksOK'
    BY <2>7, <2>8 DEF ChainInv, PeerBlocksOK, PeerBlockOK, AllBlocks
  <2>11. pc'[t] = "apply" /\ newBlock'[t] = b
    BY <1>7, <1>b, <2>1 DEF PushMined, TypeOK, b
  <2>12. \A u \in Threads \ {t} : newBlock'[u] = newBlock[u] /\ pc'[u] = pc[u]
    BY <1>7, <1>b, <2>1 DEF PushMined, TypeOK
  <2>13. DraftsOK' /\ AppliedInChain'
    BY <1>c, <2>8, <2>11, <2>12, WorkKept DEF DraftsOK, AppliedInChain
  <2> QED
    BY <1>a, <2>8, <2>9, <2>10, <2>13 DEF ChainInv
<1>8. ASSUME NEW t \in Threads, RefuseMined(t) PROVE ChainInv'
  <2>1. NoRepeats(mempool)'
    BY <1>8, <1>b DEF RefuseMined, NoRepeats, nodeVars
  <2> QED
    BY <1>8, <1>a, <1>b, <2>1, ChainKept DEF RefuseMined, Return, TypeOK, nodeVars
<1>9. ASSUME NEW t \in Threads, ReadBalances(t) PROVE ChainInv'
  <2>1. NoRepeats(mempool)'
    BY <1>9, <1>b DEF ReadBalances, NoRepeats, nodeVars
  <2> QED
    BY <1>9, <1>a, <1>b, <2>1, ChainKept DEF ReadBalances, Applying, TypeOK, nodeVars
<1>10. ASSUME NEW t \in Threads, SkipTransaction(t) PROVE ChainInv'
  <2>1. NoRepeats(mempool)'
    BY <1>10, <1>b DEF SkipTransaction, NoRepeats, nodeVars
  <2> QED
    BY <1>10, <1>a, <2>1, ChainKept DEF SkipTransaction, nodeVars
<1>11. ASSUME NEW t \in Threads, WriteBalances(t) PROVE ChainInv'
  <2>1. NoRepeats(mempool)'
    BY <1>11, <1>b DEF WriteBalances, NoRepeats
  <2> QED
    BY <1>11, <1>a, <1>b, <2>1, ChainKept DEF WriteBalances, TypeOK
<1>12. ASSUME NEW t \in Threads, FinishBlock(t) PROVE ChainInv'
  <2>1. chain' = chain /\ mempool' = <<>> /\ gossipBlocks' = gossipBlocks \cup {Announced(t)}
    BY <1>12 DEF FinishBlock
  <2>2. Announced(t) \in Elems(chain)
    <3>1. newBlock[t] \in Elems(chain)
      BY <1>12 DEF FinishBlock, ChainInv, AppliedInChain
    <3>2. Last(chain) \in Elems(chain)
      BY <1>b DEF Last, Elems, TypeOK
    <3> QED BY <3>1, <3>2 DEF Announced
  <2>3. AllBlocks' = AllBlocks /\ Elems(chain)' = Elems(chain)
    BY <2>1, <2>2 DEF AllBlocks, Elems
  <2>4. UniqueHashes' /\ NumbersBehind' /\ Rooted'
    BY <2>1, <2>3 DEF ChainInv, UniqueHashes, NumbersBehind, Rooted
  <2>5. PeerBlocksOK'
    BY <2>1, <2>2, <2>3 DEF ChainInv, PeerBlocksOK, PeerBlockOK
  <2>6. BlocksWellFormed'
    BY <2>1 DEF ChainInv, BlocksWellFormed, NoRepeats
  <2>7. /\ pc'[t] = "idle"
        /\ \A u \in Threads \ {t} : newBlock'[u] = newBlock[u] /\ pc'[u] = pc[u]
    BY <1>12, <1>b DEF FinishBlock, Return, TypeOK
  <2>8. DraftsOK' /\ AppliedInChain'
    BY <2>1, <2>3, <2>7 DEF ChainInv, DraftsOK, DraftOK, AppliedInChain
  <2> QED
    BY <1>a, <2>4, <2>5, <2>6, <2>8 DEF ChainInv
<1>13. ASSUME NEW t \in Threads, SubmitTransaction(t) PROVE ChainInv'
  <2>1. NoRepeats(mempool)'
    BY <1>13, <1>b, MempoolKept DEF SubmitTransaction, TypeOK
  <2> QED
    BY <1>13, <1>a, <1>b, <2>1, ChainKept DEF SubmitTransaction, Return, TypeOK
<1>14. ASSUME NEW miner \in Addr \ {Me}, NEW parent \in gossipBlocks, NEW n \in 0 .. MaxPeerTxs,
              PeerMines(miner, parent, n)
       PROVE  ChainInv'
  <2>1. PICK now \in Times, h \in FreshHash, s \in [1 .. n -> gossipTxs] :
          /\ \A i, j \in 1 .. n : s[i] = s[j] => i = j
          /\ gossipBlocks' = gossipBlocks \cup
               {[number |-> parent.number + 1, prev |-> parent.hash, hash |-> h,
                 txs |-> Append(s, Coinbase(miner, now))]}
    BY <1>14 DEF PeerMines
  <2> DEFINE b == [number |-> parent.number + 1, prev |-> parent.hash, hash |-> h,
                   txs |-> Append(s, Coinbase(miner, now))]
  <2>2. chain' = chain /\ mempool' = mempool /\ pc' = pc /\ newBlock' = newBlock
    BY <1>14 DEF PeerMines, nodeVars, threadVars
  <2>3. s \in Seq(Tx) /\ NoRepeats(s)
    <3>1. n \in Nat
      BY BlockchainAssumption
    <3>2. s \in [1 .. n -> Tx]
      BY <1>b DEF TypeOK
    <3> QED
      BY <3>1, <3>2, <2>1, SeqDef DEF NoRepeats
  <2>4. CoinbaseLast(b.txs)
    BY <2>3, CoinbaseAppended
  <2>5. h \notin Hashes(AllBlocks)
    BY DEF FreshHash, AllBlocks
  <2>6. Elems(chain)' = Elems(chain) /\ AllBlocks' = AllBlocks \cup {b}
    BY <2>1, <2>2 DEF AllBlocks, Elems
  <2>7. PeerBlockOK(b)'
    BY <2>4, <2>6 DEF PeerBlockOK, AllBlocks
  <2>8. UniqueHashes'
    BY <2>5, <2>6 DEF ChainInv, UniqueHashes, Hashes
  <2>9. PeerBlocksOK'
    BY <2>1, <2>6, <2>7 DEF ChainInv, PeerBlocksOK, PeerBlockOK
  <2>10. NumbersBehind' /\ Rooted' /\ BlocksWellFormed'
    BY <2>2 DEF ChainInv, NumbersBehind, Rooted, BlocksWellFormed
  <2>11. DraftsOK' /\ AppliedInChain'
    BY <2>2, <2>6 DEF ChainInv, DraftsOK, DraftOK, AppliedInChain
  <2> QED
    BY <1>a, <2>8, <2>9, <2>10, <2>11 DEF ChainInv
<1>15. ASSUME NEW from \in Addr \ {Me}, NEW to \in Receivers, NEW amount \in Amounts,
              PeerSends(from, to, amount)
       PROVE  ChainInv'
  <2>1. NoRepeats(mempool)'
    BY <1>15, <1>b DEF PeerSends, NoRepeats, nodeVars
  <2> QED
    BY <1>15, <1>a, <2>1, ChainKept DEF PeerSends, nodeVars, threadVars
<1>16. ASSUME NEW t \in Threads, DebitWallet(t) PROVE ChainInv'
  <2>1. NoRepeats(mempool)'
    BY <1>16, <1>b DEF DebitWallet, NoRepeats
  <2> QED
    BY <1>16, <1>a, <1>b, <2>1, ChainKept DEF DebitWallet, TypeOK
<1>17. CASE UNCHANGED vars
  <2>1. NoRepeats(mempool)'
    BY <1>17, <1>b DEF vars, NoRepeats, nodeVars
  <2> QED
    BY <1>17, <1>a, <2>1, ChainKept DEF vars, nodeVars, threadVars
<1> QED
  BY <1>1, <1>2, <1>3, <1>4, <1>5, <1>6, <1>7, <1>8, <1>9, <1>10, <1>11, <1>12, <1>13,
     <1>14, <1>15, <1>16, <1>17
  DEF Next, UserStep, NetStep, Continue, PeerStep

\* Every behaviour of the node keeps ChainInv.
LEMMA ChainInvariant == Spec => []ChainInv
<1>1. Init => ChainInv
  BY ChainInit
<1>2. ChainInv /\ [Next]_vars => ChainInv'
  BY ChainStep
<1> QED
  BY <1>1, <1>2, PTL DEF Spec

\* However the threads race, every block hangs on an earlier block with a
\* smaller number and never carries a number beyond its place.
THEOREM ChainRooted == Spec => []Rooted
<1>1. ChainInv => Rooted
  BY DEF ChainInv
<1> QED
  BY <1>1, ChainInvariant, PTL

\* However the threads race, no block repeats a transaction and every block has
\* one reward.
THEOREM ChainWellFormed == Spec => []BlocksWellFormed
<1>1. ChainInv => BlocksWellFormed
  BY DEF ChainInv
<1> QED
  BY <1>1, ChainInvariant, PTL
=============================================================================
