---------------------------- MODULE StorageProofs ---------------------------
(***************************************************************************)
(* Theorems about Storage.tla: a node that is stopped anywhere and started *)
(* again any number of times, with and without --clean.                    *)
(***************************************************************************)
EXTENDS Storage, BlockchainSerialProofs

-----------------------------------------------------------------------------
(* What is read back from the database *)

\* The scan of loadFromDatabase ends: a finite set of keys has a first gap.
LEMMA FirstGap ==
    ASSUME NEW S, IsFiniteSet(S)
    PROVE  \E n \in 0 .. Cardinality(S) : n \notin S /\ 0 .. n - 1 \subseteq S
<1> DEFINE k == Cardinality(S)
           T == {n \in Nat : n <= k + 1 => 0 .. n - 1 \subseteq S}
<1>1. k \in Nat
  BY FS_CardinalityType
<1> SUFFICES ASSUME \A n \in 0 .. k : 0 .. n - 1 \subseteq S => n \in S
             PROVE  FALSE
  OBVIOUS
<1> HIDE DEF k
<1>2. 0 \in T
  OBVIOUS
<1>3. ASSUME NEW n \in Nat, n \in T PROVE n + 1 \in T
  <2> SUFFICES ASSUME n + 1 <= k + 1 PROVE 0 .. (n + 1) - 1 \subseteq S
    OBVIOUS
  <2>1. n <= k + 1 /\ n \in 0 .. k
    BY <1>1
  <2>2. 0 .. n - 1 \subseteq S /\ n \in S
    BY <1>3, <2>1
  <2>3. \A i \in 0 .. (n + 1) - 1 : i \in 0 .. n - 1 \/ i = n
    OBVIOUS
  <2> QED BY <2>2, <2>3
<1>4. k + 1 \in Nat /\ (k + 1) - 1 = k /\ k + 1 <= k + 1
  BY <1>1
<1>5. k + 1 \in T
  <2>1. Nat \subseteq T
    <3> HIDE DEF T
    <3> QED BY <1>2, <1>3, EveryNumber
  <2> QED BY <1>4, <2>1
<1>6. 0 .. k \subseteq S
  BY <1>4, <1>5
<1>7. Cardinality(0 .. k) = k + 1
  <2>1. 0 \in Int /\ k \in Int /\ k - 0 + 1 = k + 1 /\ ~(0 > k)
    BY <1>1
  <2> QED BY <2>1, FS_Interval
<1>8. Cardinality(0 .. k) <= k
  BY <1>6, FS_Subset DEF k
<1> QED BY <1>1, <1>7, <1>8

\* A database that has been written to by saveBlock.
Keys(store) == DOMAIN store \subseteq Nat /\ IsFiniteSet(DOMAIN store)
Blocks(store) == \A n \in DOMAIN store : store[n] \in Block

\* A block that is read back has the header it was saved with, and all its
\* transactions or all but the last.
LEMMA ReadBack ==
    ASSUME NEW b \in Block
    PROVE  LET c == Deserialized(b)
           IN  /\ c \in Block
               /\ c.number = b.number /\ c.prev = b.prev /\ c.hash = b.hash
               /\ c.txs = IF b.txs # <<>> /\ Unsigned(Last(b.txs))
                          THEN SubSeq(b.txs, 1, Len(b.txs) - 1) ELSE b.txs
<1> DEFINE txs == IF b.txs # <<>> /\ Unsigned(Last(b.txs))
                  THEN SubSeq(b.txs, 1, Len(b.txs) - 1) ELSE b.txs
<1>1. Deserialized(b) = [b EXCEPT !.txs = txs]
  BY DEF Deserialized, Block
<1>2. b.txs \in Seq(Tx) /\ Len(b.txs) \in Nat
  BY LenProperties DEF Block
<1>3. txs \in Seq(Tx)
  <2>1. \A s \in Seq(Tx) : SubSeq(s, 1, Len(s) - 1) \in Seq(Tx)
    <3> TAKE s \in Seq(Tx)
    <3>1. Len(s) \in Nat
      BY LenProperties
    <3>2. \A i \in 1 .. Len(s) - 1 : i \in 1 .. Len(s)
      BY <3>1
    <3>3. \A i \in 1 .. Len(s) - 1 : s[i] \in Tx
      BY <3>2, ElementOfSeq
    <3> QED BY <3>1, <3>3, SubSeqProperties
  <2> QED BY <1>2, <2>1
<1> HIDE DEF txs
<1>4. [b EXCEPT !.txs = txs] \in Block
  BY <1>3 DEF Block
<1>5. LET c == [b EXCEPT !.txs = txs]
      IN  c.number = b.number /\ c.prev = b.prev /\ c.hash = b.hash /\ c.txs = txs
  BY DEF Block
<1> QED BY <1>1, <1>4, <1>5 DEF txs

\* What loadFromDatabase finds: the blocks up to the first key that is missing.
LEMMA FoundBlocks ==
    ASSUME NEW store, Keys(store), Blocks(store)
    PROVE  \E n \in Nat :
             /\ n \notin DOMAIN store /\ 0 .. n - 1 \subseteq DOMAIN store
             /\ Found(store) = [i \in 1 .. n |-> Deserialized(store[i - 1])]
             /\ Found(store) \in Seq(Block) /\ Len(Found(store)) = n
<1> DEFINE P(n) == n \notin DOMAIN store /\ 0 .. n - 1 \subseteq DOMAIN store
           gap == CHOOSE n \in 0 .. Cardinality(DOMAIN store) : P(n)
<1>1. \E n \in 0 .. Cardinality(DOMAIN store) : P(n)
  BY FirstGap DEF Keys
<1>2. gap \in 0 .. Cardinality(DOMAIN store) /\ P(gap)
  <2> HIDE DEF P
  <2> QED BY <1>1
<1>3. Cardinality(DOMAIN store) \in Nat
  BY FS_CardinalityType DEF Keys
<1>4. gap \in Nat
  BY <1>2, <1>3
<1>5. Found(store) = [i \in 1 .. gap |-> Deserialized(store[i - 1])]
  BY DEF Found
<1>6. P(gap)
  BY <1>2
<1> HIDE DEF gap
<1>7. \A i \in 1 .. gap : i - 1 \in 0 .. gap - 1
  BY <1>4
<1>8. \A i \in 1 .. gap : store[i - 1] \in Block
  BY <1>6, <1>7 DEF Blocks
<1>9. \A i \in 1 .. gap : Deserialized(store[i - 1]) \in Block
  BY <1>8, ReadBack
<1>10. Found(store) \in Seq(Block) /\ Len(Found(store)) = gap
  <2> DEFINE e(i) == Deserialized(store[i - 1])
  <2>1. Found(store) = [i \in 1 .. gap |-> e(i)]
    BY <1>5
  <2>2. \A i \in 1 .. gap : e(i) \in Block
    BY <1>9
  <2> HIDE DEF e
  <2>3. [i \in 1 .. gap |-> e(i)] \in Seq(Block)
    BY <1>4, <2>2, IsASeq
  <2>4. DOMAIN Found(store) = 1 .. gap
    BY <2>1
  <2> QED BY <1>4, <2>1, <2>3, <2>4, LenProperties
<1> QED BY <1>4, <1>5, <1>6, <1>10

-----------------------------------------------------------------------------
(* Types *)

StoreInv ==
    /\ StorageTypeOK
    /\ InBlock
    /\ IsFiniteSet(DOMAIN stored)

\* A node that starts on typed blocks and balances has typed variables: the rest
\* of its memory is empty.
LEMMA FreshMemoryTyped ==
    ASSUME StoreInv, FreshMemory, chain' \in Seq(Block), Len(chain') > 0,
           balances' \in [Addr -> Int], Keys(stored'), Blocks(stored')
    PROVE  TypeOK' /\ InBlock' /\ IsFiniteSet(DOMAIN stored')
<1>1. /\ pc' \in [Threads -> Labels]
      /\ job' \in [Threads -> {"none", "mine", "receive"}]
      /\ newBlock' \in [Threads -> Block]
      /\ txIndex' \in [Threads -> Nat \ {0}]
      /\ readBal' \in [Threads -> [from : Int, to : Int]]
      /\ newTx' \in [Threads -> Tx]
  BY RecordTypes DEF FreshMemory, Labels
<1>2. mempool' \in Seq(Tx)
  BY EmptySeq DEF FreshMemory
<1>3. walletBalance' \in Int
  BY BlockchainAssumption DEF FreshMemory
<1>4. InBlock'
  BY DEF FreshMemory, InBlock
<1>5. gossipTxs' \subseteq Tx /\ gossipBlocks' \subseteq Block
  BY DEF FreshMemory, StoreInv, StorageTypeOK, TypeOK
<1> QED BY <1>1, <1>2, <1>3, <1>4, <1>5 DEF TypeOK, Keys, Blocks

\* A chain of one genesis block, and a database of one.
LEMMA GenesisTyped ==
    ASSUME NEW now \in Times
    PROVE  /\ GenesisBlock(now) \in Block
           /\ <<GenesisBlock(now)>> \in Seq(Block) /\ Len(<<GenesisBlock(now)>>) = 1
<1>1. GenesisBlock(now) \in Block
  BY RecordTypes
<1> QED BY <1>1

\* Replayed balances are numbers.
LEMMA RebuildNumbers ==
    ASSUME NEW c \in Seq(Block)
    PROVE  Rebuild(c) \in [Addr -> Int]
<1>1. \A bal \in Balances : bal \in [Addr -> Int]
  BY DEF Balances
<1> QED BY <1>1, RebuildType

\* Every start keeps the types.
LEMMA StartTyped == StoreInv /\ Start => StoreInv'
<1> SUFFICES ASSUME StoreInv, Start PROVE StoreInv'
  OBVIOUS
<1>a. Keys(stored) /\ Blocks(stored) /\ balances \in [Addr -> Int]
  BY DEF StoreInv, StorageTypeOK, TypeOK, Keys, Blocks
<1>b. restarts' \in 0 .. MaxRestarts /\ cleaned' \in BOOLEAN
  <2>1. PICK clean \in BOOLEAN : Restart(clean)
    BY DEF Start, StartClean, StartEmpty, StartLoaded, StartInvalid
  <2>2. restarts' \in 0 .. MaxRestarts
    BY <2>1, StorageAssumption DEF Restart, StoreInv, StorageTypeOK
  <2>3. cleaned' \in BOOLEAN
    BY <2>1 DEF Restart
  <2> QED BY <2>2, <2>3
<1>c. FreshMemory
  BY DEF Start, StartClean, StartEmpty, StartLoaded, StartInvalid
<1> SUFFICES /\ chain' \in Seq(Block) /\ Len(chain') > 0
             /\ balances' \in [Addr -> Int] /\ Keys(stored') /\ Blocks(stored')
  BY <1>b, <1>c, FreshMemoryTyped DEF StoreInv, StorageTypeOK
<1>1. CASE StartClean
  BY <1>1, <1>a, GenesisTyped DEF StartClean
<1>2. CASE StartEmpty
  <2>1. PICK now \in Times : chain' = <<GenesisBlock(now)>> /\ stored' = Put(stored, GenesisBlock(now))
    BY <1>2 DEF StartEmpty
  <2>2. chain' \in Seq(Block) /\ Len(chain') > 0 /\ GenesisBlock(now) \in Block
    BY <2>1, GenesisTyped
  <2>3. balances' \in [Addr -> Int]
    BY <1>2, <2>2, RebuildNumbers DEF StartEmpty
  <2>4. Keys(stored') /\ Blocks(stored')
    <3> DEFINE g == GenesisBlock(now)
    <3>1. g \in Block /\ stored' = Put(stored, g)
      BY <2>1, <2>2
    <3> HIDE DEF g
    <3>2. DOMAIN stored' = DOMAIN stored \cup {g.number}
      BY <3>1 DEF Put
    <3>3. IsFiniteSet(DOMAIN stored')
      BY <1>a, <3>2, FS_AddElement DEF Keys
    <3> QED BY <1>a, <3>1, <3>3, PutType DEF Keys, Blocks
  <2> QED BY <2>2, <2>3, <2>4
<1>3. CASE StartLoaded \/ StartInvalid
  <2>1. chain' = Found(stored) /\ chain' # <<>> /\ stored' = stored
    BY <1>3 DEF StartLoaded, StartInvalid
  <2>2. chain' \in Seq(Block)
    BY <1>a, <2>1, FoundBlocks
  <2>3. Len(chain') > 0
    BY <2>1, <2>2, EmptySeq, LenProperties
  <2>4. balances' \in [Addr -> Int]
    BY <1>3, <1>a, <2>2, RebuildNumbers DEF StartLoaded, StartInvalid
  <2> QED BY <1>a, <2>1, <2>2, <2>3, <2>4
<1> QED BY <1>1, <1>2, <1>3 DEF Start

LEMMA StoreInit == StorageInit => StoreInv
<1> SUFFICES ASSUME StorageInit PROVE StoreInv
  OBVIOUS
<1>1. restarts \in 0 .. MaxRestarts /\ cleaned \in BOOLEAN
  <2>1. restarts = 0
    BY DEF StorageInit
  <2>2. cleaned \in BOOLEAN
    BY DEF StorageInit
  <2> QED BY <2>1, <2>2, StorageAssumption
<1>2. CASE Init
  <2>1. TypeInv
    BY <1>2, TypeInit
  <2>2. DOMAIN stored = {0}
    BY <1>2 DEF Init
  <2> QED BY <1>1, <2>1, <2>2, FS_Singleton DEF StoreInv, StorageTypeOK, TypeInv
<1>3. CASE (\E now \in Times : FreshNode(now)) /\ stored = [n \in {} |-> NoBlock]
  <2>1. PICK now \in Times : FreshNode(now)
    BY <1>3
  <2>2. GenesisBlock(now) \in Block /\ <<GenesisBlock(now)>> \in Seq(Block) /\ Len(<<GenesisBlock(now)>>) = 1
    BY GenesisTyped
  <2>3. /\ pc \in [Threads -> Labels]
        /\ job \in [Threads -> {"none", "mine", "receive"}]
        /\ newBlock \in [Threads -> Block]
        /\ txIndex \in [Threads -> Nat \ {0}]
        /\ readBal \in [Threads -> [from : Int, to : Int]]
        /\ newTx \in [Threads -> Tx]
    BY <2>1, RecordTypes DEF FreshNode, Labels
  <2>4. DOMAIN stored = {}
    BY <1>3
  <2>5. TypeOK
    BY <2>1, <2>2, <2>3, <2>4, EmptySeq DEF FreshNode, TypeOK
  <2>6. InBlock
    BY <2>1 DEF FreshNode, InBlock
  <2> QED BY <1>1, <2>4, <2>5, <2>6, FS_EmptySet DEF StoreInv, StorageTypeOK
<1> QED BY <1>2, <1>3 DEF StorageInit

LEMMA StoreStep == StoreInv /\ [StorageNext]_storageVars => StoreInv'
<1> SUFFICES ASSUME StoreInv, [StorageNext]_storageVars PROVE StoreInv'
  OBVIOUS
<1>1. CASE Start
  BY <1>1, StartTyped
<1>2. ASSUME [Next]_vars, UNCHANGED <<restarts, cleaned>> PROVE StoreInv'
  <2>1. TypeInv'
    BY <1>2, TypeStep DEF StoreInv, StorageTypeOK, TypeInv
  <2>2. \/ stored' = stored
        \/ \E t \in Threads : FinishBlock(t)
    BY <1>2
       DEF Next, UserStep, NetStep, Continue, PeerStep, MineBlock, SendMoney, SendMoneyFails,
           ViewWallet, ReceiveBlock, ReceiveTransaction, PushMined, RefuseMined, ReadBalances,
           SkipTransaction, WriteBalances, DebitWallet, SubmitTransaction, PeerMines, PeerSends, vars,
           nodeVars
  <2>3. \A t \in Threads : FinishBlock(t) => DOMAIN stored' = DOMAIN stored \cup {newBlock[t].number}
    BY DEF FinishBlock, Put
  <2>4. IsFiniteSet(DOMAIN stored')
    BY <2>2, <2>3, FS_AddElement DEF StoreInv
  <2> QED BY <1>2, <2>1, <2>4 DEF StoreInv, StorageTypeOK, TypeInv
<1> QED BY <1>1, <1>2 DEF StorageNext, storageVars

\* Whatever is left in the database, a start gives every variable its type: the
\* scan of loadFromDatabase ends, and the blocks it finds are blocks.
THEOREM StorageTypeCorrect == StorageSpec => []StorageTypeOK
<1>1. StoreInv => StorageTypeOK
  BY DEF StoreInv
<1> QED BY <1>1, StoreInit, StoreStep, PTL DEF StorageSpec

-----------------------------------------------------------------------------
(* What a start does to the balances *)

IsGenesisBlock(b) == \E now \in Times : b = GenesisBlock(now)

\* A block as it was mined: its last transaction is its reward.
EndsInReward(b) == b.number > 0 /\ Len(b.txs) > 0 /\ IsCoinbase(Last(b.txs))

\* Every block that was mined, broadcast or saved ends in its reward, and the
\* key block:0 holds a genesis block.  Of the chain this is not true: what a
\* start has read back has lost its rewards.
RewardInv ==
    /\ chain[1].hash = GenesisHash
    /\ \A b \in gossipBlocks : IsGenesisBlock(b) \/ EndsInReward(b)
    /\ \A n \in DOMAIN stored : IF n = 0 THEN IsGenesisBlock(stored[n]) ELSE EndsInReward(stored[n])
    /\ \A t \in Threads : pc[t] \in {"mining", "apply", "write"} => EndsInReward(newBlock[t])
    /\ \A t \in Threads : Busy(t) => EndsInReward(Last(chain))

LEMMA GenesisFields ==
    ASSUME NEW b, IsGenesisBlock(b)
    PROVE  /\ b \in Block /\ b.number = 0 /\ b.hash = GenesisHash /\ b.prev = NoHash
           /\ b.txs # <<>> /\ Unsigned(Last(b.txs)) /\ SubSeq(b.txs, 1, Len(b.txs) - 1) = <<>>
<1>1. PICK now \in Times : b = GenesisBlock(now)
  BY DEF IsGenesisBlock
<1> DEFINE tx == Transfer(Genesis, Genesis, 0, now)
<1>2. b.number = 0 /\ b.hash = GenesisHash /\ b.prev = NoHash /\ b.txs = <<tx>> /\ tx.sender = Genesis
  BY <1>1 DEF GenesisBlock, Transfer
<1>3. b \in Block
  BY <1>1, RecordTypes
<1> HIDE DEF tx
<1>4. Len(<<tx>>) = 1 /\ <<tx>>[1] = tx /\ <<tx>> # <<>>
  OBVIOUS
<1>5. SubSeq(<<tx>>, 1, 0) = <<>>
  <2>1. 1 \in Int /\ 0 \in Int /\ 0 < 1
    OBVIOUS
  <2> QED BY <2>1, SubSeqEmpty
<1>6. Len(<<tx>>) - 1 = 0
  BY <1>4
<1> QED BY <1>2, <1>3, <1>4, <1>5, <1>6 DEF Last, Unsigned

\* mineBlock puts the reward behind the pending transactions.
LEMMA RewardAppended ==
    ASSUME NEW txs \in Seq(Tx), NEW miner \in Addr, NEW now \in Times
    PROVE  LET s == Append(txs, Coinbase(miner, now))
           IN  /\ s \in Seq(Tx) /\ Len(s) > 0 /\ IsCoinbase(Last(s))
               /\ Last(s) = Coinbase(miner, now)
<1> DEFINE tx == Coinbase(miner, now)
<1>1. tx \in Tx /\ IsCoinbase(tx)
  <2>1. IsCoinbase(tx)
    BY LedgerAssumption DEF IsCoinbase, Coinbase
  <2> QED BY <2>1, RecordTypes
<1> HIDE DEF tx
<1>2. Append(txs, tx) \in Seq(Tx) /\ Len(Append(txs, tx)) = Len(txs) + 1 /\ Append(txs, tx)[Len(txs) + 1] = tx
  BY <1>1, AppendProperties
<1>3. Len(txs) \in Nat
  BY LenProperties
<1> QED BY <1>1, <1>2, <1>3 DEF Last, tx

LEMMA LastAppended ==
    ASSUME NEW S, NEW s \in Seq(S), NEW x \in S
    PROVE  /\ Append(s, x) \in Seq(S) /\ Len(Append(s, x)) = Len(s) + 1 /\ Len(s) \in Nat
           /\ Last(Append(s, x)) = x
           /\ \A i \in 1 .. Len(s) : Append(s, x)[i] = s[i]
BY AppendProperties, LenProperties DEF Last

\* A block that is pushed ends in its reward.
LEMMA PushKeepsRewards ==
    ASSUME TypeOK, RewardInv, NEW t \in Threads, NEW b \in Block, EndsInReward(b),
           chain' = Append(chain, b), gossipBlocks' = gossipBlocks, stored' = stored,
           newBlock' = [newBlock EXCEPT ![t] = b], pc' = [pc EXCEPT ![t] = "apply"]
    PROVE  RewardInv'
<1>1. chain \in Seq(Block) /\ Len(chain) > 0
  BY DEF TypeOK
<1>2. Last(chain') = b /\ chain'[1] = chain[1]
  BY <1>1, LastAppended
<1>3. newBlock'[t] = b /\ \A u \in Threads \ {t} : newBlock'[u] = newBlock[u] /\ pc'[u] = pc[u]
  BY DEF TypeOK
<1> QED BY <1>2, <1>3 DEF RewardInv

\* A step that moves a thread inside the application of its block, or out of
\* every block, keeps what is said about rewards.
LEMMA RestKeepsRewards ==
    ASSUME RewardInv, chain' = chain, gossipBlocks' = gossipBlocks, stored' = stored,
           \A u \in Threads :
             \/ pc'[u] \notin {"mining", "apply", "write"}
             \/ Busy(u) /\ Busy(u)' /\ newBlock'[u] = newBlock[u]
             \/ pc'[u] = pc[u] /\ newBlock'[u] = newBlock[u]
    PROVE  RewardInv'
BY DEF RewardInv, Busy

LEMMA RewardNext ==
    ASSUME TypeOK, RewardInv, [Next]_vars
    PROVE  RewardInv'
<1>0. chain \in Seq(Block) /\ Len(chain) \in Nat \ {0}
  BY LenProperties DEF TypeOK
<1>1. ASSUME NEW t \in Users, MineBlock(t) PROVE RewardInv'
  <2>0. t \in Threads
    BY DEF Threads
  <2>1. PICK now \in Times :
          newBlock' = [newBlock EXCEPT ![t] =
            [number |-> Len(chain), prev |-> Last(chain).hash, hash |-> NoHash,
             txs |-> Append(mempool, Coinbase(Me, now))]]
    BY <1>1 DEF MineBlock
  <2>2. newBlock'[t].number = Len(chain) /\ newBlock'[t].txs = Append(mempool, Coinbase(Me, now))
    BY <2>0, <2>1 DEF TypeOK
  <2>3. EndsInReward(newBlock'[t])
    BY <1>0, <2>2, RewardAppended, BlockchainAssumption DEF TypeOK, EndsInReward
  <2>4. /\ \A u \in Threads \ {t} : newBlock'[u] = newBlock[u] /\ pc'[u] = pc[u]
        /\ pc'[t] = "mining" /\ chain' = chain /\ gossipBlocks' = gossipBlocks /\ stored' = stored
    BY <1>1, <2>0, <2>1 DEF MineBlock, TypeOK, nodeVars
  <2> QED BY <2>3, <2>4 DEF RewardInv, Busy
<1>2. ASSUME NEW t \in Net, NEW b \in gossipBlocks, ReceiveBlock(t, b) PROVE RewardInv'
  <2>1. t \in Threads /\ b \in Block
    BY DEF Threads, TypeOK
  <2>2. EndsInReward(b)
    <3>1. b.hash \notin Hashes(Elems(chain)) /\ chain[1] \in Elems(chain)
      BY <1>2, <1>0 DEF ReceiveBlock, Elems
    <3>2. b.hash # GenesisHash
      BY <3>1 DEF RewardInv, Hashes
    <3> QED BY <3>2, GenesisFields DEF RewardInv
  <2> QED BY <1>2, <2>1, <2>2, PushKeepsRewards DEF ReceiveBlock
<1>3. ASSUME NEW t \in Threads, PushMined(t) PROVE RewardInv'
  <2>1. PICK h \in FreshHash :
          /\ newBlock' = [newBlock EXCEPT ![t] = [newBlock[t] EXCEPT !.hash = h]]
          /\ chain' = Append(chain, [newBlock[t] EXCEPT !.hash = h])
    BY <1>3 DEF PushMined
  <2> DEFINE b == [newBlock[t] EXCEPT !.hash = h]
  <2>2. b \in Block /\ b.txs = newBlock[t].txs /\ b.number = newBlock[t].number
    <3>1. newBlock[t] \in Block
      BY DEF TypeOK
    <3> QED BY <3>1 DEF Block, FreshHash
  <2>3. EndsInReward(newBlock[t])
    BY <1>3 DEF PushMined, RewardInv
  <2>4. newBlock' = [newBlock EXCEPT ![t] = b] /\ chain' = Append(chain, b)
    BY <2>1
  <2>5. pc' = [pc EXCEPT ![t] = "apply"] /\ gossipBlocks' = gossipBlocks /\ stored' = stored
    BY <1>3 DEF PushMined
  <2> HIDE DEF b
  <2>6. EndsInReward(b)
    BY <2>2, <2>3 DEF EndsInReward
  <2> QED BY <2>2, <2>4, <2>5, <2>6, PushKeepsRewards
<1>4. ASSUME NEW t \in Threads, FinishBlock(t) PROVE RewardInv'
  <2>1. /\ chain' = chain /\ stored' = Put(stored, newBlock[t])
        /\ gossipBlocks' = gossipBlocks \cup {Announced(t)}
        /\ pc[t] = "apply" /\ pc'[t] = "idle"
        /\ \A u \in Threads \ {t} : newBlock'[u] = newBlock[u] /\ pc'[u] = pc[u]
    BY <1>4 DEF FinishBlock, Return, TypeOK
  <2>2. EndsInReward(newBlock[t]) /\ EndsInReward(Last(chain))
    BY <2>1 DEF RewardInv, Busy
  <2>3. EndsInReward(Announced(t))
    BY <2>2 DEF Announced
  <2>4. newBlock[t].number \in Nat \ {0}
    BY <2>2 DEF EndsInReward, TypeOK, Block
  <2>5. \A n \in DOMAIN stored' :
          IF n = 0 THEN IsGenesisBlock(stored'[n]) ELSE EndsInReward(stored'[n])
    <3> TAKE n \in DOMAIN stored'
    <3>1. n \in DOMAIN stored \cup {newBlock[t].number}
          /\ stored'[n] = IF n = newBlock[t].number THEN newBlock[t] ELSE stored[n]
      BY <2>1 DEF Put
    <3> QED BY <2>2, <2>4, <3>1 DEF RewardInv
  <2>6. \A b \in gossipBlocks' : IsGenesisBlock(b) \/ EndsInReward(b)
    BY <2>1, <2>3 DEF RewardInv
  <2>7. \A u \in Threads : pc'[u] \in {"mining", "apply", "write"} => EndsInReward(newBlock'[u])
    BY <2>1 DEF RewardInv
  <2>8. \A u \in Threads : Busy(u)' => EndsInReward(Last(chain'))
    BY <2>1, <2>2
  <2> QED BY <2>1, <2>5, <2>6, <2>7, <2>8 DEF RewardInv
<1>5. ASSUME NEW miner \in Addr, NEW parent \in gossipBlocks, NEW n \in 0 .. MaxPeerTxs,
             PeerMines(miner, parent, n)
      PROVE  RewardInv'
  <2>1. PICK now \in Times, h \in FreshHash, s \in [1 .. n -> gossipTxs] :
          gossipBlocks' = gossipBlocks \cup
            {[number |-> parent.number + 1, prev |-> parent.hash, hash |-> h,
              txs |-> Append(s, Coinbase(miner, now))]}
    BY <1>5 DEF PeerMines
  <2>2. s \in Seq(Tx)
    <3>1. n \in Nat
      BY BlockchainAssumption
    <3>2. s \in [1 .. n -> Tx]
      BY DEF TypeOK
    <3> QED BY <3>1, <3>2, SeqDef
  <2> DEFINE b == [number |-> parent.number + 1, prev |-> parent.hash, hash |-> h,
                   txs |-> Append(s, Coinbase(miner, now))]
  <2>3. EndsInReward(b)
    <3>1. parent.number \in Nat
      BY DEF TypeOK, Block
    <3> QED BY <3>1, <2>2, RewardAppended DEF EndsInReward
  <2>4. gossipBlocks' = gossipBlocks \cup {b}
    BY <2>1
  <2> HIDE DEF b
  <2> QED BY <1>5, <2>3, <2>4 DEF PeerMines, RewardInv, Busy, nodeVars, threadVars
<1>6. ASSUME NEW t \in Threads,
             \/ \E to \in Receivers, amount \in Amounts : SendMoney(t, to, amount)
             \/ \E amount \in Amounts : SendMoneyFails(t, amount)
             \/ ReadBalances(t) \/ WriteBalances(t) \/ SkipTransaction(t) \/ RefuseMined(t)
             \/ DebitWallet(t) \/ SubmitTransaction(t)
      PROVE  RewardInv'
  <2>1. chain' = chain /\ gossipBlocks' = gossipBlocks /\ stored' = stored
    BY <1>6 DEF SendMoney, SendMoneyFails, ReadBalances, WriteBalances, SkipTransaction, RefuseMined,
                DebitWallet, SubmitTransaction, nodeVars
  <2>2. \A u \in Threads \ {t} : newBlock'[u] = newBlock[u] /\ pc'[u] = pc[u]
    BY <1>6 DEF SendMoney, SendMoneyFails, ReadBalances, WriteBalances, SkipTransaction, RefuseMined,
                DebitWallet, SubmitTransaction, Return, TypeOK
  <2>3. \/ pc'[t] \notin {"mining", "apply", "write"}
        \/ Busy(t) /\ Busy(t)' /\ newBlock'[t] = newBlock[t]
    BY <1>6 DEF SendMoney, SendMoneyFails, ReadBalances, WriteBalances, SkipTransaction, RefuseMined,
                DebitWallet, SubmitTransaction, Return, TypeOK, Busy, Applying
  <2> QED BY <2>1, <2>2, <2>3, RestKeepsRewards
<1>7. ASSUME \/ \E t \in Users : ViewWallet(t)
             \/ \E t \in Net, tx \in gossipTxs : ReceiveTransaction(t, tx)
             \/ \E from \in Addr, to \in Receivers, amount \in Amounts : PeerSends(from, to, amount)
             \/ UNCHANGED vars
      PROVE  RewardInv'
  <2>1. UNCHANGED <<chain, gossipBlocks, stored, pc, newBlock>>
    BY <1>7 DEF ViewWallet, ReceiveTransaction, PeerSends, vars, nodeVars, threadVars
  <2> QED BY <2>1, RestKeepsRewards
<1> QED
  BY <1>1, <1>2, <1>3, <1>4, <1>5, <1>6, <1>7
  DEF Next, UserStep, NetStep, Continue, PeerStep, Threads

\* A start reads block:0 back, or makes it, and leaves no block in work.
LEMMA RewardStart ==
    ASSUME StoreInv, RewardInv, Start
    PROVE  RewardInv'
<1>1. (\A t \in Threads : pc'[t] = "idle") /\ gossipBlocks' = gossipBlocks
  BY DEF Start, StartClean, StartEmpty, StartLoaded, StartInvalid, FreshMemory
<1>2. chain'[1].hash = GenesisHash
      /\ \A n \in DOMAIN stored' : IF n = 0 THEN IsGenesisBlock(stored'[n]) ELSE EndsInReward(stored'[n])
  <2>1. CASE StartClean
    BY <2>1 DEF StartClean, GenesisBlock, RewardInv
  <2>2. CASE StartEmpty
    <3>1. PICK now \in Times : chain' = <<GenesisBlock(now)>> /\ stored' = Put(stored, GenesisBlock(now))
      BY <2>2 DEF StartEmpty
    <3> DEFINE g == GenesisBlock(now)
    <3>2. IsGenesisBlock(g) /\ chain'[1] = g /\ stored' = Put(stored, g)
      BY <3>1 DEF IsGenesisBlock
    <3> HIDE DEF g
    <3>3. g.number = 0 /\ g.hash = GenesisHash
      BY <3>2, GenesisFields
    <3>4. \A n \in DOMAIN stored' :
            n \in DOMAIN stored \cup {0} /\ stored'[n] = IF n = 0 THEN g ELSE stored[n]
      BY <3>2, <3>3 DEF Put
    <3> QED BY <3>2, <3>3, <3>4 DEF RewardInv
  <2>3. CASE StartLoaded \/ StartInvalid
    <3>1. chain' = Found(stored) /\ chain' # <<>> /\ stored' = stored
      BY <2>3 DEF StartLoaded, StartInvalid
    <3>2. Keys(stored) /\ Blocks(stored)
      BY DEF StoreInv, StorageTypeOK, TypeOK, Keys, Blocks
    <3>3. PICK n \in Nat :
            /\ 0 .. n - 1 \subseteq DOMAIN stored
            /\ Found(stored) = [i \in 1 .. n |-> Deserialized(stored[i - 1])]
            /\ Found(stored) \in Seq(Block) /\ Len(Found(stored)) = n
      BY <3>2, FoundBlocks
    <3>4. n # 0
      BY <3>1, <3>3, EmptySeq
    <3>5. 1 \in 1 .. n /\ 0 \in DOMAIN stored /\ 1 - 1 = 0
      BY <3>3, <3>4
    <3>6. chain'[1] = Deserialized(stored[0]) /\ stored[0] \in Block
      BY <3>1, <3>2, <3>3, <3>5 DEF Blocks
    <3>7. IsGenesisBlock(stored[0])
      BY <3>5 DEF RewardInv
    <3>8. chain'[1].hash = GenesisHash
      BY <3>6, <3>7, ReadBack, GenesisFields
    <3> QED BY <3>1, <3>8 DEF RewardInv
  <2> QED BY <2>1, <2>2, <2>3 DEF Start
<1> QED BY <1>1, <1>2 DEF RewardInv, Busy

LEMMA RewardInit == StorageInit => RewardInv
<1> SUFFICES ASSUME StorageInit PROVE RewardInv
  OBVIOUS
<1>1. PICK now \in Times : FreshNode(now) /\ (stored = [n \in {0} |-> GenesisBlock(now)] \/ DOMAIN stored = {})
  BY DEF StorageInit, Init
<1>2. IsGenesisBlock(GenesisBlock(now)) /\ GenesisBlock(now).hash = GenesisHash
  BY DEF IsGenesisBlock, GenesisBlock
<1> QED BY <1>1, <1>2 DEF FreshNode, RewardInv, Busy

\* A valid chain that is read back has no mined block: each would have lost its
\* reward.
LEMMA LoadedIsGenesis ==
    ASSUME StoreInv, RewardInv, LoadedIsValid(stored), Found(stored) # <<>>
    PROVE  1 \notin DOMAIN stored /\ Rebuild(Found(stored)) = Zero
<1>1. Keys(stored) /\ Blocks(stored)
  BY DEF StoreInv, StorageTypeOK, TypeOK, Keys, Blocks
<1>2. PICK n \in Nat :
        /\ n \notin DOMAIN stored /\ 0 .. n - 1 \subseteq DOMAIN stored
        /\ Found(stored) = [i \in 1 .. n |-> Deserialized(stored[i - 1])]
        /\ Found(stored) \in Seq(Block) /\ Len(Found(stored)) = n
  BY <1>1, FoundBlocks
<1>3. n # 0
  BY <1>2, EmptySeq
<1>4. ASSUME n > 1 PROVE FALSE
  <2>1. 2 \in 2 .. n /\ 2 \in 1 .. n /\ 1 \in 0 .. n - 1 /\ 2 - 1 = 1
    BY <1>2, <1>4
  <2>2. 1 \in DOMAIN stored
    BY <1>2, <2>1
  <2> DEFINE b == stored[1]
             found == Found(stored)
  <2>3. b \in Block /\ EndsInReward(b)
    BY <1>1, <2>2 DEF Blocks, RewardInv
  <2>4. found[2] = Deserialized(b)
    BY <1>2, <2>1
  <2>5. found[2].txs = b.txs
    BY <1>2, <2>1 DEF LoadedIsValid
  <2> HIDE DEF b, found
  <2>6. b.txs \in Seq(Tx) /\ Len(b.txs) \in Nat /\ Len(b.txs) > 0 /\ Last(b.txs).sender = Genesis
    BY <2>3, LenProperties DEF Block, EndsInReward, IsCoinbase
  <2>7. b.txs # <<>> /\ Unsigned(Last(b.txs))
    BY <2>6, EmptySeq DEF Unsigned
  <2>8. b.txs = SubSeq(b.txs, 1, Len(b.txs) - 1)
    BY <2>3, <2>4, <2>5, <2>7, ReadBack
  <2>9. Len(SubSeq(b.txs, 1, Len(b.txs) - 1)) = Len(b.txs) - 1
    <3> DEFINE s == b.txs
    <3>1. s \in Seq(Tx) /\ Len(s) \in Nat /\ Len(s) > 0
      BY <2>6
    <3> HIDE DEF s
    <3>2. \A i \in 1 .. Len(s) - 1 : s[i] \in Tx
      <4>1. \A i \in 1 .. Len(s) - 1 : i \in 1 .. Len(s)
        BY <3>1
      <4> QED BY <3>1, <4>1, ElementOfSeq
    <3>3. 1 \in Int /\ Len(s) - 1 \in Int
      BY <3>1
    <3> DEFINE m == Len(s) - 1
    <3>4. Len(SubSeq(s, 1, m)) = m
      <4>1. m \in Nat /\ 1 \in Int /\ m \in Int /\ m + 1 - 1 = m /\ (1 <= m + 1)
        BY <3>1
      <4>2. \A i \in 1 .. m : s[i] \in Tx
        BY <3>2
      <4> HIDE DEF m
      <4>3. SubSeq(s, 1, m) \in Seq(Tx) /\ Len(SubSeq(s, 1, m)) = IF 1 <= m THEN m - 1 + 1 ELSE 0
        BY <4>1, <4>2, SubSeqProperties
      <4> QED BY <4>1, <4>3
    <3> QED BY <3>4 DEF s
  <2> QED BY <2>6, <2>8, <2>9
<1>5. n = 1
  BY <1>3, <1>4
<1>6. IsGenesisBlock(stored[0]) /\ 0 \in DOMAIN stored
  BY <1>2, <1>5 DEF RewardInv
<1> DEFINE g == Deserialized(stored[0])
<1>7. g \in Block /\ g.txs = <<>>
  BY <1>6, GenesisFields, ReadBack
<1>8. Found(stored) = <<g>>
  <2>1. Found(stored) = [i \in 1 .. 1 |-> Deserialized(stored[i - 1])]
    BY <1>2, <1>5
  <2>2. \A i \in 1 .. 1 : i - 1 = 0
    OBVIOUS
  <2> QED BY <2>1, <2>2
<1> HIDE DEF g
<1>9. <<>> \in Seq(Block) /\ Append(<<>>, g) = <<g>> /\ Rebuild(<<>>) = Zero
  BY RebuildNothing, EmptySeq
<1>10. Rebuild(<<g>>) = UpdateBalances(Zero, <<>>)
  BY <1>7, <1>9, RebuildAppend
<1> QED BY <1>2, <1>5, <1>8, <1>10, UpdateBalancesEmpty

\* A start takes no coins away: it leaves the balances as they were, or it finds
\* no mined block and sets them all to zero (loadFromDatabase and NodeApp.cpp's
\* startup).
THEOREM StartsKeepBalances == StorageSpec => StartKeepsBalances
<1> DEFINE Inv == StoreInv /\ RewardInv
           Kept == restarts' # restarts =>
             \/ balances' = balances
             \/ ~({0, 1} \subseteq DOMAIN stored) /\ \A a \in Addr : balances'[a] = 0
<1>1. StorageInit => Inv
  BY StoreInit, RewardInit
<1>2. Inv /\ [StorageNext]_storageVars => Inv'
  <2> SUFFICES ASSUME Inv, [StorageNext]_storageVars PROVE RewardInv'
    BY StoreStep
  <2>1. TypeOK
    BY DEF StoreInv, StorageTypeOK
  <2> QED BY <2>1, RewardNext, RewardStart DEF StorageNext, storageVars
<1>3. Inv /\ [StorageNext]_storageVars => [Kept]_storageVars
  <2> SUFFICES ASSUME Inv, Start PROVE Kept
    BY DEF StorageNext, storageVars
  <2>1. CASE StartClean \/ StartInvalid
    BY <2>1 DEF StartClean, StartInvalid
  <2>2. CASE StartEmpty
    <3>1. PICK now \in Times : chain' = <<GenesisBlock(now)>>
      BY <2>2 DEF StartEmpty
    <3>2. balances' = Zero
      BY <2>2, <3>1, RebuildGenesis DEF StartEmpty
    <3>3. 0 \notin DOMAIN stored
      <4>1. Keys(stored) /\ Blocks(stored)
        BY DEF StoreInv, StorageTypeOK, TypeOK, Keys, Blocks
      <4>2. PICK n \in Nat : n \notin DOMAIN stored /\ Len(Found(stored)) = n
        BY <4>1, FoundBlocks
      <4> QED BY <2>2, <4>2, EmptySeq DEF StartEmpty
    <3> QED BY <3>2, <3>3 DEF Zero
  <2>3. CASE StartLoaded
    <3>1. balances' = Rebuild(Found(stored)) /\ LoadedIsValid(stored) /\ Found(stored) # <<>>
      BY <2>3 DEF StartLoaded
    <3> QED BY <3>1, LoadedIsGenesis DEF Zero
  <2> QED BY <2>1, <2>2, <2>3 DEF Start
<1> QED BY <1>1, <1>2, <1>3, PTL DEF StorageSpec, StartKeepsBalances

-----------------------------------------------------------------------------
(* A node whose calls do not overlap, never started with --clean *)

\* The block in work is the last one, and no other block has its hash.
WorkIsLast ==
    \A t \in Threads : Busy(t) =>
      /\ Len(chain) > 1 /\ newBlock[t] = chain[Len(chain)]
      /\ \A c \in gossipBlocks : c.hash = newBlock[t].hash => c = newBlock[t]

\* How many blocks of the chain are in the database.
Kept == IF \E t \in Threads : Busy(t) THEN Len(chain) - 1 ELSE Len(chain)

\* The database holds the headers of the chain, and only blocks that were
\* broadcast.  Their transactions may be others: a start loses rewards.
SavedHeaders ==
    /\ DOMAIN stored = 0 .. Kept - 1
    /\ \A n \in DOMAIN stored :
         /\ stored[n] \in gossipBlocks
         /\ stored[n].number = n
         /\ stored[n].hash = chain[n + 1].hash
         /\ stored[n].prev = chain[n + 1].prev

\* Blocks that were broadcast differ in their hashes and hang on each other.
BroadcastTree ==
    /\ \A b, c \in gossipBlocks : b.hash = c.hash => b = c
    /\ \A b \in gossipBlocks :
         b.number = 0 \/ \E p \in gossipBlocks : p.hash = b.prev /\ b.number = p.number + 1

\* A block the node has mined and broadcast is the one it has saved.
OwnBlocksSaved ==
    \A b \in gossipBlocks :
      b.number > 0 /\ Last(b.txs).receiver = Me => b.number \in DOMAIN stored /\ stored[b.number] = b

HeadInv == Linked /\ DraftNext /\ WorkIsLast /\ SavedHeaders /\ BroadcastTree /\ OwnBlocksSaved

\* A step that leaves the blocks alone.
LEMMA HeadKept ==
    ASSUME Serial, HeadInv, NEW t \in Threads,
           chain' = chain, gossipBlocks' = gossipBlocks, stored' = stored,
           \/ ~Busy(t) /\ pc'[t] \notin {"mining", "apply", "write"}
           \/ Busy(t) /\ Busy(t)' /\ newBlock'[t] = newBlock[t]
           \/ pc'[t] = pc[t] /\ newBlock'[t] = newBlock[t]
    PROVE  HeadInv'
<1>1. \A u \in Threads : u = t
  BY DEF Serial
<1>2. Busy(t)' <=> Busy(t)
  BY DEF Busy
<1>3. Kept' = Kept
  BY <1>1, <1>2 DEF Kept
<1>4. Linked' /\ BroadcastTree' /\ OwnBlocksSaved'
  BY DEF HeadInv, Linked, BroadcastTree, OwnBlocksSaved
<1>5. SavedHeaders'
  BY <1>3 DEF HeadInv, SavedHeaders
<1>6. DraftNext' /\ WorkIsLast'
  BY <1>1, <1>2 DEF HeadInv, DraftNext, WorkIsLast, Busy
<1> QED BY <1>4, <1>5, <1>6 DEF HeadInv

\* A block that is pushed is not saved yet.
LEMMA HeadPushed ==
    ASSUME Serial, TypeOK, HeadInv, NEW t \in Threads, ~Busy(t), NEW b \in Block,
           b.number = Len(chain), b.prev = chain[Len(chain)].hash,
           \A c \in gossipBlocks : c.hash = b.hash => c = b,
           chain' = Append(chain, b), gossipBlocks' = gossipBlocks, stored' = stored,
           newBlock'[t] = b, pc'[t] = "apply"
    PROVE  HeadInv'
<1>1. \A u \in Threads : u = t
  BY DEF Serial
<1>2. chain \in Seq(Block) /\ Len(chain) \in Nat \ {0}
  BY LenProperties DEF TypeOK
<1>3. /\ Len(chain') = Len(chain) + 1 /\ chain'[Len(chain')] = b
      /\ \A i \in 1 .. Len(chain) : chain'[i] = chain[i]
  BY <1>2, LastAppended DEF Last
<1>4. Linked'
  BY LinkedAppend DEF HeadInv
<1>5. DraftNext'
  BY <1>1 DEF DraftNext
<1>6. WorkIsLast'
  BY <1>1, <1>2, <1>3 DEF WorkIsLast
<1>7. Kept = Len(chain) /\ Kept' = Len(chain)
  <2>1. Busy(t)'
    BY DEF Busy
  <2>2. Kept' = Len(chain') - 1
    BY <2>1 DEF Kept
  <2>3. Kept = Len(chain)
    BY <1>1 DEF Kept
  <2> QED BY <1>2, <1>3, <2>2, <2>3
<1>8. SavedHeaders'
  <2>1. DOMAIN stored = 0 .. Len(chain) - 1
    BY <1>7 DEF HeadInv, SavedHeaders
  <2>2. \A n \in DOMAIN stored : chain'[n + 1] = chain[n + 1]
    BY <1>2, <1>3, <2>1
  <2> QED BY <1>7, <2>2 DEF HeadInv, SavedHeaders
<1>9. BroadcastTree' /\ OwnBlocksSaved'
  BY DEF HeadInv, BroadcastTree, OwnBlocksSaved
<1> QED BY <1>4, <1>5, <1>6, <1>8, <1>9 DEF HeadInv

\* The guards of addExistingBlock admit only the block that comes next.
LEMMA ReceivedNext ==
    ASSUME Serial, TypeOK, RewardInv, HeadInv, NEW t \in Threads, NEW b \in gossipBlocks, ReceiveBlock(t, b)
    PROVE  b.number = Len(chain) /\ b.prev = chain[Len(chain)].hash
<1> DEFINE m == Len(chain)
<1>1. chain \in Seq(Block) /\ m \in Nat \ {0} /\ DOMAIN chain = 1 .. m /\ Last(chain) = chain[m]
  BY LenProperties DEF TypeOK, Last
<1>2. \A i \in 1 .. m : chain[i].hash # b.hash
  BY <1>1 DEF ReceiveBlock, Hashes, Elems
<1>3. b.prev = chain[m].hash
  BY <1>1, <1>2 DEF ReceiveBlock, Rejects
<1>4. pc[t] = "idle" /\ \A u \in Threads : u = t
  BY DEF ReceiveBlock, Serial
<1>5. Kept = m
  BY <1>4 DEF Kept, Busy
<1> HIDE DEF m
<1>6. m - 1 \in DOMAIN stored /\ (m - 1) + 1 = m
  BY <1>1, <1>5 DEF HeadInv, SavedHeaders
<1>7. stored[m - 1] \in gossipBlocks /\ stored[m - 1].number = m - 1 /\ stored[m - 1].hash = chain[m].hash
  BY <1>6 DEF HeadInv, SavedHeaders
<1>8. b.number # 0
  <2>1. chain[1].hash = GenesisHash /\ 1 \in 1 .. m
    BY <1>1 DEF RewardInv
  <2>2. ~IsGenesisBlock(b)
    BY <1>2, <2>1, GenesisFields
  <2> QED BY <2>2 DEF RewardInv, EndsInReward
<1>9. PICK p \in gossipBlocks : p.hash = b.prev /\ b.number = p.number + 1
  BY <1>8 DEF HeadInv, BroadcastTree
<1>10. p = stored[m - 1]
  BY <1>3, <1>7, <1>9 DEF HeadInv, BroadcastTree
<1> QED BY <1>3, <1>6, <1>7, <1>9, <1>10 DEF m

LEMMA HeadNext ==
    ASSUME Serial, TypeOK, RewardInv, HeadInv, [Next]_vars
    PROVE  HeadInv'
<1>0. chain \in Seq(Block) /\ Len(chain) \in Nat \ {0} /\ DOMAIN chain = 1 .. Len(chain) /\ Last(chain) = chain[Len(chain)]
  BY LenProperties DEF TypeOK, Last
<1>1. ASSUME NEW t \in Threads, MineBlock(t) PROVE HeadInv'
  <2>1. PICK now \in Times :
          newBlock' = [newBlock EXCEPT ![t] =
            [number |-> Len(chain), prev |-> Last(chain).hash, hash |-> NoHash,
             txs |-> Append(mempool, Coinbase(Me, now))]]
    BY <1>1 DEF MineBlock
  <2>2. newBlock'[t].number = Len(chain) /\ newBlock'[t].prev = chain[Len(chain)].hash
    BY <1>0, <2>1 DEF TypeOK
  <2>3. /\ pc[t] = "idle" /\ pc'[t] = "mining" /\ chain' = chain /\ gossipBlocks' = gossipBlocks
        /\ stored' = stored
    BY <1>1 DEF MineBlock, TypeOK, nodeVars
  <2>4. \A u \in Threads : u = t
    BY DEF Serial
  <2>5. Linked' /\ DraftNext' /\ BroadcastTree' /\ OwnBlocksSaved'
    BY <2>2, <2>3, <2>4 DEF HeadInv, Linked, DraftNext, BroadcastTree, OwnBlocksSaved
  <2>6. ~Busy(t) /\ ~Busy(t)'
    BY <2>3 DEF Busy
  <2>7. Kept' = Kept
    BY <2>3, <2>4, <2>6 DEF Kept
  <2>8. SavedHeaders' /\ WorkIsLast'
    BY <2>3, <2>4, <2>6, <2>7 DEF HeadInv, SavedHeaders, WorkIsLast
  <2> QED BY <2>5, <2>8 DEF HeadInv
<1>2. ASSUME NEW t \in Threads, NEW b \in gossipBlocks, ReceiveBlock(t, b) PROVE HeadInv'
  <2>1. b \in Block /\ b.number = Len(chain) /\ b.prev = chain[Len(chain)].hash
    BY <1>2, ReceivedNext DEF TypeOK
  <2>2. /\ chain' = Append(chain, b) /\ gossipBlocks' = gossipBlocks /\ stored' = stored
        /\ newBlock'[t] = b /\ pc'[t] = "apply" /\ ~Busy(t)
    BY <1>2 DEF ReceiveBlock, TypeOK, Busy
  <2>3. \A c \in gossipBlocks : c.hash = b.hash => c = b
    BY DEF HeadInv, BroadcastTree
  <2> QED BY <2>1, <2>2, <2>3, HeadPushed
<1>3. ASSUME NEW t \in Threads, PushMined(t) PROVE HeadInv'
  <2>1. PICK h \in FreshHash :
          /\ newBlock' = [newBlock EXCEPT ![t] = [newBlock[t] EXCEPT !.hash = h]]
          /\ chain' = Append(chain, [newBlock[t] EXCEPT !.hash = h])
    BY <1>3 DEF PushMined
  <2> DEFINE b == [newBlock[t] EXCEPT !.hash = h]
  <2>2. b \in Block /\ b.number = newBlock[t].number /\ b.prev = newBlock[t].prev /\ b.hash = h
    <3>1. newBlock[t] \in Block
      BY DEF TypeOK
    <3> QED BY <3>1 DEF Block, FreshHash
  <2>3. /\ chain' = Append(chain, b) /\ gossipBlocks' = gossipBlocks /\ stored' = stored
        /\ newBlock'[t] = b /\ pc'[t] = "apply" /\ pc[t] = "mining"
    BY <1>3, <2>1 DEF PushMined, TypeOK
  <2>4. \A c \in gossipBlocks : c.hash # h
    BY DEF FreshHash, Hashes
  <2> HIDE DEF b
  <2>5. b.number = Len(chain) /\ b.prev = chain[Len(chain)].hash
    BY <2>2, <2>3 DEF HeadInv, DraftNext
  <2>6. ~Busy(t)
    BY <2>3 DEF Busy
  <2> QED BY <2>2, <2>3, <2>4, <2>5, <2>6, HeadPushed
<1>4. ASSUME NEW t \in Threads, FinishBlock(t) PROVE HeadInv'
  <2> DEFINE m == Len(chain)
             b == newBlock[t]
  <2>1. /\ chain' = chain /\ stored' = Put(stored, b) /\ gossipBlocks' = gossipBlocks \cup {Announced(t)}
        /\ pc[t] = "apply" /\ pc'[t] = "idle"
    BY <1>4 DEF FinishBlock, Return, TypeOK
  <2>2. \A u \in Threads : u = t
    BY DEF Serial
  <2>3. Busy(t) /\ ~Busy(t)'
    BY <2>1 DEF Busy
  <2>4. m > 1 /\ b = chain[m] /\ \A c \in gossipBlocks : c.hash = b.hash => c = b
    BY <2>3 DEF HeadInv, WorkIsLast
  <2>5. Announced(t) = b
    BY <1>0, <2>4 DEF Announced
  <2>6. Kept = m - 1 /\ Kept' = m
    BY <2>1, <2>2, <2>3 DEF Kept
  <2>7. m \in Nat /\ m - 1 \in 1 .. m /\ (m - 1) - 1 \in 0 .. (m - 1) - 1 /\ ((m - 1) - 1) + 1 = m - 1
        /\ m \in 1 .. m
    <3> HIDE DEF m
    <3>1. m \in Nat
      BY <1>0 DEF m
    <3> QED BY <2>4, <3>1
  <2>8. b.number = m - 1 /\ b.prev = chain[m - 1].hash
    BY <2>4, <2>7 DEF HeadInv, Linked
  <2>9. DOMAIN stored = 0 .. (m - 1) - 1
    BY <2>6 DEF HeadInv, SavedHeaders
  <2>10. gossipBlocks' = gossipBlocks \cup {b}
    BY <2>1, <2>5
  <2>11. /\ DOMAIN stored' = DOMAIN stored \cup {m - 1}
         /\ \A n \in DOMAIN stored' : stored'[n] = IF n = m - 1 THEN b ELSE stored[n]
    <3> HIDE DEF b, m
    <3> QED BY <2>1, <2>8 DEF Put
  <2> HIDE DEF m, b
  <2>12. DOMAIN stored' = 0 .. m - 1
    BY <2>7, <2>9, <2>11
  <2>13. SavedHeaders'
    <3>1. \A n \in DOMAIN stored' :
            /\ stored'[n] \in gossipBlocks'
            /\ stored'[n].number = n /\ stored'[n].hash = chain[n + 1].hash
            /\ stored'[n].prev = chain[n + 1].prev
      <4> TAKE n \in DOMAIN stored'
      <4>1. CASE n = m - 1
        BY <2>4, <2>7, <2>8, <2>10, <2>11, <4>1
      <4>2. CASE n # m - 1
        BY <2>10, <2>11, <4>2 DEF HeadInv, SavedHeaders
      <4> QED BY <4>1, <4>2
    <3> QED BY <2>1, <2>6, <2>12, <3>1 DEF SavedHeaders
  <2>14. BroadcastTree'
    <3>1. \A c, d \in gossipBlocks' : c.hash = d.hash => c = d
      BY <2>4, <2>10 DEF HeadInv, BroadcastTree
    <3>2. stored[(m - 1) - 1] \in gossipBlocks /\ stored[(m - 1) - 1].hash = b.prev
          /\ b.number = stored[(m - 1) - 1].number + 1
      <4>1. (m - 1) - 1 \in DOMAIN stored
        BY <2>7, <2>9
      <4> QED BY <2>7, <2>8, <4>1 DEF HeadInv, SavedHeaders
    <3> QED BY <2>10, <3>1, <3>2 DEF HeadInv, BroadcastTree
  <2>15. OwnBlocksSaved'
    <3>1. b.number \in DOMAIN stored' /\ stored'[b.number] = b
      BY <2>8, <2>11
    <3>2. m - 1 \notin DOMAIN stored
      BY <2>7, <2>9
    <3>3. \A n \in DOMAIN stored : n \in DOMAIN stored' /\ stored'[n] = stored[n]
      BY <2>11, <3>2
    <3> QED BY <2>10, <3>1, <3>3 DEF HeadInv, OwnBlocksSaved
  <2>16. Linked' /\ DraftNext' /\ WorkIsLast'
    BY <2>1, <2>2, <2>3 DEF HeadInv, Linked, DraftNext, WorkIsLast
  <2> QED BY <2>13, <2>14, <2>15, <2>16 DEF HeadInv
<1>5. ASSUME NEW miner \in Addr \ {Me}, NEW parent \in gossipBlocks, NEW n \in 0 .. MaxPeerTxs,
             PeerMines(miner, parent, n)
      PROVE  HeadInv'
  <2>1. PICK now \in Times, h \in FreshHash, s \in [1 .. n -> gossipTxs] :
          gossipBlocks' = gossipBlocks \cup
            {[number |-> parent.number + 1, prev |-> parent.hash, hash |-> h,
              txs |-> Append(s, Coinbase(miner, now))]}
    BY <1>5 DEF PeerMines
  <2>2. s \in Seq(Tx)
    <3>1. n \in Nat
      BY BlockchainAssumption
    <3>2. s \in [1 .. n -> Tx]
      BY DEF TypeOK
    <3> QED BY <3>1, <3>2, SeqDef
  <2> DEFINE b == [number |-> parent.number + 1, prev |-> parent.hash, hash |-> h,
                   txs |-> Append(s, Coinbase(miner, now))]
  <2>3. /\ b.number = parent.number + 1 /\ b.prev = parent.hash /\ b.hash = h
        /\ Last(b.txs).receiver # Me
    <3>1. Last(Append(s, Coinbase(miner, now))) = Coinbase(miner, now)
      BY <2>2, RewardAppended
    <3> QED BY <3>1 DEF Coinbase
  <2>4. gossipBlocks' = gossipBlocks \cup {b}
    BY <2>1
  <2>5. \A c \in gossipBlocks \cup Elems(chain) : c.hash # h
    BY DEF FreshHash, Hashes
  <2>6. UNCHANGED <<chain, stored, pc, newBlock>>
    BY <1>5 DEF PeerMines, nodeVars, threadVars
  <2> HIDE DEF b
  <2>7. \A t \in Threads : Busy(t)' <=> Busy(t)
    BY <2>6 DEF Busy
  <2>8. Kept' = Kept
    BY <2>6, <2>7 DEF Kept
  <2>9. WorkIsLast'
    <3>1. \A t \in Threads : Busy(t) => newBlock[t] \in Elems(chain)
      BY <1>0 DEF HeadInv, WorkIsLast, Elems
    <3> QED BY <2>3, <2>4, <2>5, <2>6, <2>7, <3>1 DEF HeadInv, WorkIsLast
  <2>10. BroadcastTree' /\ OwnBlocksSaved'
    BY <2>3, <2>4, <2>5, <2>6 DEF HeadInv, BroadcastTree, OwnBlocksSaved
  <2>11. SavedHeaders'
    BY <2>4, <2>6, <2>8 DEF HeadInv, SavedHeaders
  <2>12. Linked' /\ DraftNext'
    BY <2>6 DEF HeadInv, Linked, DraftNext
  <2> QED BY <2>9, <2>10, <2>11, <2>12 DEF HeadInv
<1>6. ASSUME NEW t \in Threads,
             \/ \E to \in Receivers, amount \in Amounts : SendMoney(t, to, amount)
             \/ \E amount \in Amounts : SendMoneyFails(t, amount)
             \/ ReadBalances(t) \/ WriteBalances(t) \/ SkipTransaction(t) \/ RefuseMined(t)
             \/ DebitWallet(t) \/ SubmitTransaction(t)
      PROVE  HeadInv'
  <2>1. chain' = chain /\ gossipBlocks' = gossipBlocks /\ stored' = stored
    BY <1>6 DEF SendMoney, SendMoneyFails, ReadBalances, WriteBalances, SkipTransaction, RefuseMined,
                DebitWallet, SubmitTransaction, nodeVars
  <2>2. \/ ~Busy(t) /\ pc'[t] \notin {"mining", "apply", "write"}
        \/ Busy(t) /\ Busy(t)' /\ newBlock'[t] = newBlock[t]
    BY <1>6 DEF SendMoney, SendMoneyFails, ReadBalances, WriteBalances, SkipTransaction, RefuseMined,
                DebitWallet, SubmitTransaction, Return, TypeOK, Busy, Applying
  <2> QED BY <2>1, <2>2, HeadKept
<1>7. ASSUME \/ \E t \in Users : ViewWallet(t)
             \/ \E t \in Net, tx \in gossipTxs : ReceiveTransaction(t, tx)
             \/ \E from \in Addr, to \in Receivers, amount \in Amounts : PeerSends(from, to, amount)
             \/ UNCHANGED vars
      PROVE  HeadInv'
  <2>1. UNCHANGED <<chain, gossipBlocks, stored, pc, newBlock>>
    BY <1>7 DEF ViewWallet, ReceiveTransaction, PeerSends, vars, nodeVars, threadVars
  <2>2. Kept' = Kept
    BY <2>1 DEF Kept, Busy
  <2> QED BY <2>1, <2>2 DEF HeadInv, Linked, DraftNext, WorkIsLast, SavedHeaders, BroadcastTree,
                            OwnBlocksSaved, Busy
<1>8. \A t \in Users \cup Net : t \in Threads
  BY DEF Threads
<1> QED
  BY <1>1, <1>2, <1>3, <1>4, <1>5, <1>6, <1>7, <1>8
  DEF Next, UserStep, NetStep, Continue, PeerStep

\* Such a start goes on from the headers of the database.
LEMMA HeadStart ==
    ASSUME Serial, StoreInv, RewardInv, HeadInv, Start, ~cleaned'
    PROVE  HeadInv' /\ stored' = stored /\ chain' = Found(stored)
<1> DEFINE k == Kept
           m == Len(chain)
<1>1. m \in Nat \ {0}
  BY LenProperties DEF StoreInv, StorageTypeOK, TypeOK
<1>2. k \in Nat \ {0} /\ k <= m
  BY <1>1 DEF Kept, HeadInv, WorkIsLast
<1>3. DOMAIN stored = 0 .. k - 1
  BY DEF HeadInv, SavedHeaders
<1> HIDE DEF k, m
<1>4. Keys(stored) /\ Blocks(stored)
  BY DEF StoreInv, StorageTypeOK, TypeOK, Keys, Blocks
<1>5. PICK n \in Nat :
        /\ n \notin DOMAIN stored /\ 0 .. n - 1 \subseteq DOMAIN stored
        /\ Found(stored) = [i \in 1 .. n |-> Deserialized(stored[i - 1])]
        /\ Found(stored) \in Seq(Block) /\ Len(Found(stored)) = n
  BY <1>4, FoundBlocks
<1>6. n = k
  <2>1. ~(n < k)
    BY <1>2, <1>3, <1>5
  <2>2. n > k => k \in 0 .. n - 1
    BY <1>2
  <2>3. k \notin DOMAIN stored
    BY <1>2, <1>3
  <2> QED BY <1>2, <1>5, <2>1, <2>2, <2>3
<1>7. Found(stored) # <<>>
  BY <1>2, <1>5, <1>6, EmptySeq
<1>8. /\ chain' = Found(stored) /\ stored' = stored /\ gossipBlocks' = gossipBlocks
      /\ \A t \in Threads : pc'[t] = "idle"
  BY <1>7 DEF Start, StartClean, StartEmpty, StartLoaded, StartInvalid, FreshMemory, Restart
<1>9. \A i \in 1 .. k : i - 1 \in DOMAIN stored /\ (i - 1) + 1 = i /\ i \in 1 .. m
  BY <1>1, <1>2, <1>3
<1>10. ASSUME NEW i \in 1 .. k
       PROVE  /\ chain'[i].number = i - 1
              /\ chain'[i].hash = chain[i].hash /\ chain'[i].prev = chain[i].prev
  <2>1. chain'[i] = Deserialized(stored[i - 1]) /\ stored[i - 1] \in Block
    BY <1>4, <1>5, <1>6, <1>8, <1>9 DEF Blocks
  <2>2. /\ stored[i - 1].number = i - 1 /\ stored[i - 1].hash = chain[i].hash
        /\ stored[i - 1].prev = chain[i].prev
    BY <1>9 DEF HeadInv, SavedHeaders
  <2> QED BY <2>1, <2>2, ReadBack
<1>11. Len(chain') = k /\ Kept' = k
  <2>1. \A t \in Threads : ~Busy(t)'
    BY <1>8 DEF Busy
  <2> QED BY <1>5, <1>6, <1>8, <2>1 DEF Kept
<1>12. Linked'
  <2>1. \A i \in 1 .. k : i > 1 => i - 1 \in 1 .. k
    BY <1>2
  <2>2. \A i \in 1 .. k : i > 1 => chain[i].prev = chain[i - 1].hash
    BY <1>9 DEF HeadInv, Linked, m
  <2> QED BY <1>10, <1>11, <2>1, <2>2 DEF Linked
<1>13. SavedHeaders'
  <2>1. \A j \in 0 .. k - 1 : j + 1 \in 1 .. k
    BY <1>2
  <2> QED BY <1>3, <1>8, <1>10, <1>11, <2>1 DEF HeadInv, SavedHeaders
<1>14. DraftNext' /\ WorkIsLast'
  BY <1>8 DEF DraftNext, WorkIsLast, Busy
<1>15. BroadcastTree' /\ OwnBlocksSaved'
  BY <1>8 DEF HeadInv, BroadcastTree, OwnBlocksSaved
<1> QED BY <1>8, <1>12, <1>13, <1>14, <1>15 DEF HeadInv

LEMMA HeadInit == Init => HeadInv
<1> SUFFICES ASSUME Init PROVE HeadInv
  OBVIOUS
<1>1. PICK now \in Times : FreshNode(now) /\ stored = [n \in {0} |-> GenesisBlock(now)]
  BY DEF Init
<1> DEFINE g == GenesisBlock(now)
<1>2. /\ chain = <<g>> /\ gossipBlocks = {g} /\ stored = [n \in {0} |-> g]
      /\ \A t \in Threads : pc[t] = "idle"
  BY <1>1 DEF FreshNode
<1>3. g.number = 0
  BY DEF GenesisBlock
<1> HIDE DEF g
<1>4. Len(chain) = 1 /\ chain[1] = g
  BY <1>2
<1>5. Kept = 1
  BY <1>2, <1>4 DEF Kept, Busy
<1>6. SavedHeaders
  <2>1. DOMAIN stored = 0 .. 1 - 1
    BY <1>2
  <2>2. \A n \in DOMAIN stored : n = 0 /\ stored[n] = g
    BY <1>2
  <2> QED BY <1>2, <1>3, <1>4, <1>5, <2>1, <2>2 DEF SavedHeaders
<1>7. BroadcastTree /\ OwnBlocksSaved
  BY <1>2, <1>3 DEF BroadcastTree, OwnBlocksSaved
<1>8. Linked /\ DraftNext /\ WorkIsLast
  BY <1>2, <1>3, <1>4 DEF Linked, DraftNext, WorkIsLast, Busy
<1> QED BY <1>6, <1>7, <1>8 DEF HeadInv

\* The invariant of a node that is stopped and started again.
RestartInv == StoreInv /\ RewardInv /\ (~cleaned => HeadInv)

LEMMA RestartNext ==
    ASSUME Serial, RestartInv, [StorageNext]_storageVars
    PROVE  RestartInv'
<1>1. StoreInv' /\ TypeOK
  BY StoreStep DEF RestartInv, StoreInv, StorageTypeOK
<1>2. CASE Start
  <2>1. cleaned => cleaned'
    BY <1>2 DEF Start, StartClean, StartEmpty, StartLoaded, StartInvalid, Restart
  <2>2. RewardInv'
    BY <1>2, RewardStart DEF RestartInv
  <2>3. ~cleaned' => HeadInv'
    BY <1>2, <2>1, HeadStart DEF RestartInv
  <2> QED BY <1>1, <2>2, <2>3 DEF RestartInv
<1>3. ASSUME [Next]_vars, cleaned' = cleaned PROVE RestartInv'
  BY <1>1, <1>3, RewardNext, HeadNext DEF RestartInv
<1> QED BY <1>2, <1>3 DEF StorageNext, storageVars

LEMMA RestartInvariant ==
    ASSUME Serial
    PROVE  StorageSpec => []RestartInv
<1>1. StorageInit => RestartInv
  BY StoreInit, RewardInit, HeadInit DEF RestartInv, StorageInit
<1>2. RestartInv /\ [StorageNext]_storageVars => RestartInv'
  BY RestartNext
<1> QED BY <1>1, <1>2, PTL DEF StorageSpec

\* How many blocks the database holds.
LEMMA SavedCount ==
    ASSUME StoreInv, HeadInv
    PROVE  Cardinality(DOMAIN stored) = Kept
<1> DEFINE k == Kept
<1>1. k \in Nat \ {0}
  <2>1. Len(chain) \in Nat \ {0}
    BY LenProperties DEF StoreInv, StorageTypeOK, TypeOK
  <2> QED BY <2>1 DEF Kept, HeadInv, WorkIsLast
<1>2. DOMAIN stored = 0 .. k - 1
  BY DEF HeadInv, SavedHeaders
<1> HIDE DEF k
<1>3. 0 \in Int /\ k - 1 \in Int /\ k - 1 - 0 + 1 = k /\ ~(0 > k - 1)
  BY <1>1
<1>4. Cardinality(0 .. k - 1) = k
  BY <1>3, FS_Interval
<1> QED BY <1>2, <1>4 DEF k

\* Without --clean a stop and a start lose no block that was saved: the node goes
\* on from the hashes and numbers of its database (loadFromDatabase), although
\* the blocks it reads back have lost transactions.
THEOREM SavedHeadersSurvive ==
    ASSUME Serial
    PROVE  StorageSpec => []HeadersSurvive
<1>1. RestartInv => HeadersSurvive
  <2> SUFFICES ASSUME RestartInv, ~cleaned
               PROVE  /\ DOMAIN stored = 0 .. Cardinality(DOMAIN stored) - 1
                      /\ \A n \in DOMAIN stored :
                           /\ n < Len(chain)
                           /\ chain[n + 1].hash = stored[n].hash
                           /\ n > 0 => stored[n].prev = stored[n - 1].hash
    BY DEF HeadersSurvive
  <2> DEFINE k == Kept
             m == Len(chain)
  <2>1. HeadInv /\ m \in Nat \ {0}
    BY LenProperties DEF RestartInv, StoreInv, StorageTypeOK, TypeOK
  <2>2. k \in Nat \ {0} /\ k <= m
    BY <2>1 DEF Kept, HeadInv, WorkIsLast
  <2>3. DOMAIN stored = 0 .. k - 1
    BY <2>1 DEF HeadInv, SavedHeaders
  <2>6. m \in Nat
    BY <2>1
  <2> HIDE DEF k, m
  <2>4. Cardinality(DOMAIN stored) = k
    BY <2>1, SavedCount DEF RestartInv, k
  <2>5. ASSUME NEW n \in DOMAIN stored
        PROVE  /\ n < m /\ chain[n + 1].hash = stored[n].hash
               /\ n > 0 => stored[n].prev = stored[n - 1].hash
    <3>0. k \in Nat /\ m \in Nat /\ k <= m /\ n \in 0 .. k - 1
      BY <2>2, <2>3, <2>6
    <3>1. n < m /\ n + 1 \in 1 .. m /\ (n > 0 => n - 1 \in DOMAIN stored /\ (n - 1) + 1 = n)
      <4>1. n < m /\ n + 1 \in 1 .. m /\ (n > 0 => n - 1 \in 0 .. k - 1 /\ (n - 1) + 1 = n)
        BY <3>0
      <4> QED BY <4>1, <2>3
    <3>2. chain[n + 1].hash = stored[n].hash /\ chain[n + 1].prev = stored[n].prev
      BY <2>1 DEF HeadInv, SavedHeaders
    <3>3. ASSUME n > 0 PROVE stored[n].prev = stored[n - 1].hash
      <4>1. chain[n].hash = stored[n - 1].hash
        BY <2>1, <3>1, <3>3 DEF HeadInv, SavedHeaders
      <4>2. n + 1 > 1 /\ (n + 1) - 1 = n
        BY <2>2, <2>3, <3>3
      <4>3. chain[n + 1].prev = chain[n].hash
        BY <2>1, <3>1, <4>2 DEF HeadInv, Linked, m
      <4> QED BY <3>2, <4>1, <4>3
    <3> QED BY <3>1, <3>2, <3>3
  <2> QED BY <2>3, <2>4, <2>5 DEF m
<1> QED BY <1>1, RestartInvariant, PTL

\* A node that has never been started with --clean does not fork itself: it
\* broadcasts a block only after saving it (mineBlock, broadcastBlock).
THEOREM NodeForksNotItself ==
    ASSUME Serial
    PROVE  StorageSpec => []NoSelfFork
<1>1. RestartInv => NoSelfFork
  BY DEF RestartInv, HeadInv, OwnBlocksSaved, NoSelfFork
<1> QED BY <1>1, RestartInvariant, PTL

-----------------------------------------------------------------------------
(* What a stop in the middle of a block mints *)

\* A fair transaction that moves coins or pays a reward.
PlainTx(tx) == FairTx(tx) /\ (tx.sender = tx.receiver => tx.sender \notin Addr)

PlainTxs(txs) == \A i \in 1 .. Len(txs) : PlainTx(txs[i])

\* Nobody makes up a reward, and nobody pays themselves.
PlainInv ==
    /\ PlainTxs(mempool)
    /\ \A t \in Threads : PlainTx(newTx[t]) /\ PlainTxs(newBlock[t].txs)
    /\ \A tx \in gossipTxs : PlainTx(tx)
    /\ \A b \in gossipBlocks : PlainTxs(b.txs)

LEMMA PlainRecords ==
    /\ \A miner \in Addr, now \in Times : PlainTx(Coinbase(miner, now))
    /\ \A from, to \in Addr : \A amount, now : from # to => PlainTx(Transfer(from, to, amount, now))
    /\ \A now : PlainTx(EmptyTx(now))
    /\ \A now : PlainTxs(GenesisBlock(now).txs)
    /\ PlainTx(NoTx) /\ PlainTxs(NoBlock.txs) /\ PlainTxs(<<>>)
<1>1. \A miner \in Addr, now \in Times : PlainTx(Coinbase(miner, now))
  BY FairRecords, LedgerAssumption DEF PlainTx, Coinbase
<1>2. \A from, to \in Addr : \A amount, now : from # to => PlainTx(Transfer(from, to, amount, now))
  BY FairRecords DEF PlainTx, Transfer
<1>3. \A now : PlainTx(EmptyTx(now))
  BY FairRecords, LedgerAssumption DEF PlainTx, EmptyTx
<1>4. \A now : PlainTxs(GenesisBlock(now).txs)
  <2> TAKE now
  <2> DEFINE tx == Transfer(Genesis, Genesis, 0, now)
  <2>1. PlainTx(tx)
    BY LedgerAssumption DEF PlainTx, FairTx, Transfer
  <2>2. GenesisBlock(now).txs = <<tx>>
    BY DEF GenesisBlock
  <2> HIDE DEF tx
  <2>3. Len(<<tx>>) = 1 /\ <<tx>>[1] = tx
    OBVIOUS
  <2> QED BY <2>1, <2>2, <2>3 DEF PlainTxs
<1>5. PlainTx(NoTx) /\ PlainTxs(NoBlock.txs) /\ PlainTxs(<<>>)
  BY <1>3, EmptySeq DEF NoTx, NoBlock, PlainTxs
<1> QED BY <1>1, <1>2, <1>3, <1>4, <1>5

LEMMA AppendPlain ==
    ASSUME NEW S, NEW txs \in Seq(S), PlainTxs(txs), NEW tx \in S, PlainTx(tx)
    PROVE  PlainTxs(Append(txs, tx))
<1>1. /\ Len(txs) \in Nat /\ Len(Append(txs, tx)) = Len(txs) + 1 /\ Append(txs, tx)[Len(txs) + 1] = tx
      /\ \A i \in 1 .. Len(txs) : Append(txs, tx)[i] = txs[i]
  BY AppendProperties, LenProperties
<1>2. \A i \in 1 .. Len(txs) + 1 : i \in 1 .. Len(txs) \/ i = Len(txs) + 1
  BY <1>1
<1> QED BY <1>1, <1>2 DEF PlainTxs

\* What a step may do to the transactions around a node.
LEMMA PlainKept ==
    ASSUME PlainInv, NEW t \in Threads, PlainTxs(mempool'),
           gossipTxs' \subseteq gossipTxs \cup {newTx[t]},
           \A u \in Threads \ {t} : newTx'[u] = newTx[u] /\ newBlock'[u] = newBlock[u],
           PlainTx(newTx'[t]), PlainTxs(newBlock'[t].txs),
           \A b \in gossipBlocks' : b \in gossipBlocks \/ PlainTxs(b.txs)
    PROVE  PlainInv'
BY DEF PlainInv

LEMMA PlainNext ==
    ASSUME Me \notin Receivers, TypeOK, HeadInv, PlainInv, [Next]_vars
    PROVE  PlainInv'
<1>a. PlainTxs(mempool) /\ \A t \in Threads : PlainTx(newTx[t]) /\ PlainTxs(newBlock[t].txs)
  BY DEF PlainInv
<1>b. ASSUME NEW tx \in Tx, PlainTx(tx), AddTransaction(tx) PROVE PlainTxs(mempool')
  <2>1. mempool' = mempool \/ mempool' = Append(mempool, tx)
    BY <1>b DEF AddTransaction
  <2>2. mempool \in Seq(Tx)
    BY DEF TypeOK
  <2>3. PlainTxs(Append(mempool, tx))
    BY <1>a, <1>b, <2>2, AppendPlain
  <2> QED BY <1>a, <2>1, <2>3
<1>1. ASSUME NEW t \in Threads, MineBlock(t) PROVE PlainInv'
  <2>1. PICK now \in Times :
          newBlock' = [newBlock EXCEPT ![t] =
            [number |-> Len(chain), prev |-> Last(chain).hash, hash |-> NoHash,
             txs |-> Append(mempool, Coinbase(Me, now))]]
    BY <1>1 DEF MineBlock
  <2>2. newBlock'[t].txs = Append(mempool, Coinbase(Me, now))
    BY <2>1 DEF TypeOK
  <2>3. PlainTxs(newBlock'[t].txs)
    BY <1>a, <2>2, AppendPlain, PlainRecords, RecordTypes, BlockchainAssumption DEF TypeOK
  <2>4. /\ mempool' = mempool /\ newTx' = newTx /\ gossipTxs' = gossipTxs
        /\ gossipBlocks' = gossipBlocks
        /\ \A u \in Threads \ {t} : newBlock'[u] = newBlock[u]
    BY <1>1, <2>1 DEF MineBlock, nodeVars, TypeOK
  <2> QED BY <1>a, <2>3, <2>4, PlainKept
<1>2. ASSUME NEW t \in Threads,
             \/ \E to \in Receivers, amount \in Amounts : SendMoney(t, to, amount)
             \/ \E amount \in Amounts : SendMoneyFails(t, amount)
      PROVE  PlainInv'
  <2>1. /\ mempool' = mempool /\ newBlock' = newBlock
        /\ gossipTxs' = gossipTxs /\ gossipBlocks' = gossipBlocks
        /\ \A u \in Threads \ {t} : newTx'[u] = newTx[u]
    BY <1>2 DEF SendMoney, SendMoneyFails, nodeVars, TypeOK
  <2>2. PlainTx(newTx'[t])
    <3>1. CASE \E to \in Receivers, amount \in Amounts : SendMoney(t, to, amount)
      <4>1. PICK to \in Receivers, amount \in Amounts, now \in Times : newTx'[t] = Transfer(Me, to, amount, now)
        BY <3>1 DEF SendMoney, TypeOK
      <4> QED BY <4>1, PlainRecords, BlockchainAssumption
    <3>2. CASE \E amount \in Amounts : SendMoneyFails(t, amount)
      BY <3>2, PlainRecords DEF SendMoneyFails, TypeOK
    <3> QED BY <1>2, <3>1, <3>2
  <2> QED BY <1>a, <2>1, <2>2, PlainKept
<1>3. ASSUME NEW t \in Threads, NEW b \in gossipBlocks, ReceiveBlock(t, b) PROVE PlainInv'
  <2>1. PlainTxs(b.txs)
    BY DEF PlainInv
  <2>2. /\ mempool' = mempool /\ newTx' = newTx /\ gossipTxs' = gossipTxs
        /\ gossipBlocks' = gossipBlocks /\ newBlock'[t] = b
        /\ \A u \in Threads \ {t} : newBlock'[u] = newBlock[u]
    BY <1>3 DEF ReceiveBlock, TypeOK
  <2> QED BY <1>a, <2>1, <2>2, PlainKept
<1>4. ASSUME NEW t \in Threads, NEW tx \in gossipTxs, ReceiveTransaction(t, tx) PROVE PlainInv'
  <2>1. tx \in Tx /\ PlainTx(tx)
    BY DEF TypeOK, PlainInv
  <2>2. PlainTxs(mempool')
    BY <1>4, <1>b, <2>1 DEF ReceiveTransaction
  <2> QED BY <1>4, <1>a, <2>2, PlainKept DEF ReceiveTransaction, threadVars
<1>5. ASSUME NEW t \in Threads, PushMined(t) PROVE PlainInv'
  <2>1. newBlock'[t].txs = newBlock[t].txs /\ \A u \in Threads \ {t} : newBlock'[u] = newBlock[u]
    BY <1>5 DEF PushMined, TypeOK, Block
  <2>2. /\ mempool' = mempool /\ newTx' = newTx /\ gossipTxs' = gossipTxs /\ gossipBlocks' = gossipBlocks
    BY <1>5 DEF PushMined
  <2> QED BY <1>a, <2>1, <2>2, PlainKept
<1>6. ASSUME NEW t \in Threads, RefuseMined(t) PROVE PlainInv'
  <2>1. /\ mempool' = mempool /\ gossipTxs' = gossipTxs /\ gossipBlocks' = gossipBlocks
        /\ newTx'[t] = NoTx /\ newBlock'[t] = NoBlock
        /\ \A u \in Threads \ {t} : newTx'[u] = newTx[u] /\ newBlock'[u] = newBlock[u]
    BY <1>6 DEF RefuseMined, Return, TypeOK, nodeVars
  <2> QED BY <1>a, <2>1, PlainKept, PlainRecords
<1>7. ASSUME NEW t \in Threads, \/ ReadBalances(t) \/ SkipTransaction(t) \/ WriteBalances(t) \/ ViewWallet(t)
             \/ DebitWallet(t)
      PROVE  PlainInv'
  <2>1. /\ mempool' = mempool /\ newBlock' = newBlock /\ newTx' = newTx
        /\ gossipTxs' = gossipTxs /\ gossipBlocks' = gossipBlocks
    BY <1>7 DEF ReadBalances, SkipTransaction, WriteBalances, ViewWallet, DebitWallet, nodeVars,
               threadVars
  <2> QED BY <1>a, <2>1, PlainKept
<1>8. ASSUME NEW t \in Threads, FinishBlock(t) PROVE PlainInv'
  <2>1. /\ mempool' = <<>> /\ gossipTxs' = gossipTxs
        /\ gossipBlocks' = gossipBlocks \cup {Announced(t)}
        /\ newTx'[t] = NoTx /\ newBlock'[t] = NoBlock
        /\ \A u \in Threads \ {t} : newTx'[u] = newTx[u] /\ newBlock'[u] = newBlock[u]
    BY <1>8 DEF FinishBlock, Return, TypeOK
  <2>2. Announced(t) = newBlock[t]
    BY <1>8 DEF FinishBlock, Announced, HeadInv, WorkIsLast, Busy, Last
  <2> QED BY <1>a, <2>1, <2>2, PlainKept, PlainRecords
<1>9. ASSUME NEW t \in Threads, SubmitTransaction(t) PROVE PlainInv'
  <2>1. /\ gossipTxs' = gossipTxs \cup {newTx[t]} /\ gossipBlocks' = gossipBlocks
        /\ newTx'[t] = NoTx /\ newBlock'[t] = NoBlock
        /\ \A u \in Threads \ {t} : newTx'[u] = newTx[u] /\ newBlock'[u] = newBlock[u]
    BY <1>9 DEF SubmitTransaction, Return, TypeOK
  <2>2. newTx[t] \in Tx
    BY DEF TypeOK
  <2>3. PlainTxs(mempool')
    BY <1>9, <1>a, <1>b, <2>2 DEF SubmitTransaction
  <2> QED BY <1>a, <2>1, <2>3, PlainKept, PlainRecords
<1>10. ASSUME NEW miner \in Addr, NEW parent \in gossipBlocks, NEW n \in 0 .. MaxPeerTxs,
              PeerMines(miner, parent, n)
       PROVE  PlainInv'
  <2>1. PICK now \in Times, h \in FreshHash, s \in [1 .. n -> gossipTxs] :
          gossipBlocks' = gossipBlocks \cup
            {[number |-> parent.number + 1, prev |-> parent.hash, hash |-> h,
              txs |-> Append(s, Coinbase(miner, now))]}
    BY <1>10 DEF PeerMines
  <2>2. n \in Nat
    BY BlockchainAssumption
  <2>3. s \in Seq(Tx) /\ Len(s) = n /\ PlainTxs(s)
    <3>1. \A i \in 1 .. n : s[i] \in Tx /\ PlainTx(s[i])
      BY DEF TypeOK, PlainInv
    <3>2. s = [i \in 1 .. n |-> s[i]]
      OBVIOUS
    <3>3. s \in Seq(Tx) /\ Len(s) = n
      BY <2>2, <3>1, <3>2, IsASeq, LenProperties
    <3> QED BY <3>1, <3>3 DEF PlainTxs
  <2>4. PlainTxs(Append(s, Coinbase(miner, now)))
    BY <2>3, AppendPlain, PlainRecords, RecordTypes
  <2>5. UNCHANGED <<nodeVars, threadVars, gossipTxs>>
    BY <1>10 DEF PeerMines
  <2> DEFINE b == [number |-> parent.number + 1, prev |-> parent.hash, hash |-> h,
                   txs |-> Append(s, Coinbase(miner, now))]
  <2>6. PlainTxs(b.txs) /\ gossipBlocks' = gossipBlocks \cup {b}
    BY <2>1, <2>4
  <2> HIDE DEF b
  <2> QED BY <2>5, <2>6 DEF PlainInv, nodeVars, threadVars
<1>11. ASSUME NEW from \in Addr, NEW to \in Receivers, NEW amount \in Amounts, PeerSends(from, to, amount)
       PROVE  PlainInv'
  <2>1. \A tx \in gossipTxs' : tx \in gossipTxs \/ PlainTx(tx)
    BY <1>11, PlainRecords, BlockchainAssumption DEF PeerSends
  <2> QED BY <1>11, <2>1 DEF PeerSends, PlainInv, nodeVars, threadVars
<1>12. CASE UNCHANGED vars
  BY <1>12 DEF vars, nodeVars, threadVars, PlainInv
<1>13. \A t \in Users \cup Net : t \in Threads
  BY DEF Threads
<1> QED
  BY <1>1, <1>2, <1>3, <1>4, <1>5, <1>6, <1>7, <1>8, <1>9, <1>10, <1>11, <1>12, <1>13
  DEF Next, UserStep, NetStep, Continue, PeerStep

\* One reward for each block in the database and for each restart.
Minted == Reward * (Kept - 1 + restarts)

Income ==
    /\ (\A t \in Threads : ~Busy(t)) => TotalSupply <= Minted
    /\ \A t \in Threads : Busy(t) =>
         TotalSupply <= Minted + RewardUpTo(newBlock[t].txs, txIndex[t] - 1)

\* The block in work has one reward, and what is about to be written was
\* computed from the balances as they are.
WorkInv ==
    /\ \A t \in Threads : Busy(t) => ValidateTransactions(newBlock[t].txs)
    /\ \A t \in Threads : pc[t] = "write" => ReadIsFresh(t)

IncomeInv == balances \in Balances /\ WorkInv /\ Income

\* The numbers of this section.
LEMMA IncomeTypes ==
    ASSUME IsFiniteSet(Addr), StoreInv, balances \in Balances
    PROVE  /\ TotalSupply \in Nat /\ Kept \in Int /\ restarts \in Nat /\ Reward \in Nat
           /\ Kept - 1 + restarts \in Int /\ Minted \in Int
           /\ \A txs, k : RewardUpTo(txs, k) \in {0, Reward}
<1>1. TotalSupply \in Nat
  <2>1. balances \in NumbersOf(Addr)
    BY DEF Balances, NumbersOf
  <2> QED BY <2>1, SumOfNat DEF TotalSupply
<1>2. Kept \in Int
  <2>1. Len(chain) \in Nat
    BY LenProperties DEF StoreInv, StorageTypeOK, TypeOK
  <2> QED BY <2>1 DEF Kept
<1>3. restarts \in Nat
  BY StorageAssumption DEF StoreInv, StorageTypeOK
<1>4. Reward \in Nat
  BY LedgerAssumption
<1>5. Kept - 1 + restarts \in Int
  BY <1>2, <1>3
<1>6. Minted \in Int
  <2> DEFINE n == Kept - 1 + restarts
  <2>1. n \in Int
    BY <1>5
  <2> HIDE DEF n
  <2>2. Reward * n \in Int
    BY <1>4, <2>1
  <2> QED BY <2>2 DEF Minted, n
<1>7. \A txs, k : RewardUpTo(txs, k) \in {0, Reward}
  BY DEF RewardUpTo
<1> QED BY <1>1, <1>2, <1>3, <1>4, <1>5, <1>6, <1>7

\* Processing more transactions takes no reward back.
LEMMA RewardGrows ==
    ASSUME NEW txs, NEW k \in Nat
    PROVE  RewardUpTo(txs, k) <= RewardUpTo(txs, k + 1)
<1>1. \A i \in 1 .. k : i \in 1 .. k + 1
  OBVIOUS
<1>2. Reward \in Nat
  BY LedgerAssumption
<1>3. (\E i \in 1 .. k : IsCoinbase(txs[i])) => \E i \in 1 .. k + 1 : IsCoinbase(txs[i])
  BY <1>1
<1>4. CASE \E i \in 1 .. k : IsCoinbase(txs[i])
  <2>1. RewardUpTo(txs, k) = Reward /\ RewardUpTo(txs, k + 1) = Reward
    BY <1>3, <1>4 DEF RewardUpTo
  <2> QED BY <1>2, <2>1
<1>5. CASE ~\E i \in 1 .. k : IsCoinbase(txs[i])
  <2>1. RewardUpTo(txs, k) = 0 /\ RewardUpTo(txs, k + 1) \in {0, Reward}
    BY <1>5 DEF RewardUpTo
  <2> QED BY <1>2, <2>1
<1> QED BY <1>4, <1>5

\* The reward itself is paid once.
LEMMA RewardPaid ==
    ASSUME NEW txs \in Seq(Tx), ValidateTransactions(txs), NEW k \in 1 .. Len(txs), IsCoinbase(txs[k])
    PROVE  RewardUpTo(txs, k - 1) = 0 /\ RewardUpTo(txs, k) = Reward
<1>1. Len(txs) \in Nat /\ DOMAIN txs = 1 .. Len(txs)
  BY LenProperties
<1>2. \A i \in 1 .. k - 1 : i \in DOMAIN txs /\ i # k
  BY <1>1
<1>3. k \in DOMAIN txs /\ k \in 1 .. k
  BY <1>1
<1>4. \A i \in 1 .. k - 1 : ~IsCoinbase(txs[i])
  BY <1>2, <1>3 DEF ValidateTransactions
<1> QED BY <1>3, <1>4 DEF RewardUpTo

\* A step that leaves the balances and the blocks alone.
LEMMA IncomeKept ==
    ASSUME Serial, IncomeInv, NEW t \in Threads, balances' = balances, Kept' = Kept, restarts' = restarts,
           \/ ~Busy(t) /\ ~Busy(t)'
           \/ pc'[t] = pc[t] /\ newBlock'[t] = newBlock[t] /\ txIndex'[t] = txIndex[t] /\ readBal'[t] = readBal[t]
    PROVE  IncomeInv'
<1>1. \A u \in Threads : u = t
  BY DEF Serial
<1>2. TotalSupply' = TotalSupply /\ Minted' = Minted
  BY DEF TotalSupply, Minted
<1>3. CASE ~Busy(t) /\ ~Busy(t)'
  <2>1. pc'[t] # "write"
    BY <1>3 DEF Busy
  <2> QED BY <1>1, <1>2, <1>3, <2>1 DEF IncomeInv, WorkInv, Income
<1>4. CASE pc'[t] = pc[t] /\ newBlock'[t] = newBlock[t] /\ txIndex'[t] = txIndex[t] /\ readBal'[t] = readBal[t]
  <2>1. Busy(t)' <=> Busy(t)
    BY <1>4 DEF Busy
  <2>2. ReadIsFresh(t)' <=> ReadIsFresh(t)
    BY <1>4 DEF ReadIsFresh, CurrentTx
  <2> QED BY <1>1, <1>2, <1>4, <2>1, <2>2 DEF IncomeInv, WorkInv, Income
<1> QED BY <1>3, <1>4

\* A valid block has just been put on the chain.
LEMMA IncomePushed ==
    ASSUME Serial, IsFiniteSet(Addr), StoreInv, IncomeInv, NEW t \in Threads, ~Busy(t),
           balances' = balances, Kept' = Kept, restarts' = restarts,
           pc'[t] = "apply", txIndex'[t] = 1, ValidateTransactions(newBlock'[t].txs)
    PROVE  IncomeInv'
<1>1. \A u \in Threads : u = t
  BY DEF Serial
<1>2. TotalSupply' = TotalSupply /\ Minted' = Minted
  BY DEF TotalSupply, Minted
<1>3. TotalSupply <= Minted /\ Minted \in Int
  BY <1>1, IncomeTypes DEF IncomeInv, Income
<1>4. RewardUpTo(newBlock'[t].txs, txIndex'[t] - 1) = 0
  <2>1. txIndex'[t] - 1 = 0 /\ 1 .. 0 = {}
    OBVIOUS
  <2> QED BY <2>1 DEF RewardUpTo
<1>5. Income'
  <2>1. Busy(t)'
    BY DEF Busy
  <2>2. TotalSupply' <= Minted' + RewardUpTo(newBlock'[t].txs, txIndex'[t] - 1)
    BY <1>2, <1>3, <1>4
  <2> QED BY <1>1, <2>1, <2>2 DEF Income
<1>6. WorkInv'
  BY <1>1 DEF WorkInv, Busy
<1> QED BY <1>5, <1>6 DEF IncomeInv

\* One more transaction of the block in work has been processed.
LEMMA IncomeProcessed ==
    ASSUME Serial, IsFiniteSet(Addr), StoreInv, PlainInv, IncomeInv, NEW t \in Threads, Busy(t),
           txIndex[t] <= Len(newBlock[t].txs), balances' = ProcessTransaction(balances, CurrentTx(t)),
           Kept' = Kept, restarts' = restarts, newBlock'[t] = newBlock[t],
           txIndex'[t] = txIndex[t] + 1, pc'[t] = "apply"
    PROVE  IncomeInv'
<1> DEFINE txs == newBlock[t].txs
           k == txIndex[t]
           tx == CurrentTx(t)
<1>1. \A u \in Threads : u = t
  BY DEF Serial
<1>2. txs \in Seq(Tx) /\ k \in 1 .. Len(txs) /\ Len(txs) \in Nat /\ tx = txs[k] /\ tx \in Tx
  BY LenProperties, ElementOfSeq DEF StoreInv, StorageTypeOK, TypeOK, Block, CurrentTx
<1>3. ValidateTransactions(txs) /\ balances \in Balances
  BY DEF IncomeInv, WorkInv
<1>4. PlainTx(tx) /\ IsValid(tx)
  <2>1. PlainTx(tx)
    BY <1>2 DEF PlainInv, PlainTxs
  <2>2. k \in DOMAIN txs
    BY <1>2, LenProperties
  <2> QED BY <1>2, <1>3, <2>1, <2>2 DEF ValidateTransactions
<1>5. balances' \in Balances
  BY <1>2, <1>3, ProcessTransactionType
<1>6. /\ IsCoinbase(tx) => TotalSupply' = TotalSupply + Reward
      /\ ~IsCoinbase(tx) => TotalSupply' = TotalSupply
  <2>1. FairTx(tx)
    BY <1>4 DEF PlainTx
  <2>2. tx.sender # tx.receiver \/ IsCoinbase(tx) \/ (tx.sender = Genesis /\ tx.receiver = Genesis)
    <3>1. tx.sender \in Addr \cup {Genesis, NoAddr}
      BY <1>2 DEF Tx, Party
    <3> QED BY <1>4, <3>1 DEF PlainTx, IsValid
  <2>3. CASE tx.sender = Genesis /\ tx.receiver = Genesis
    <3>1. ProcessTransaction(balances, tx) = balances
      BY <2>3 DEF ProcessTransaction, WriteBalance
    <3>2. ~IsCoinbase(tx)
      BY <2>3 DEF IsCoinbase
    <3> QED BY <3>1, <3>2 DEF TotalSupply
  <2>4. CASE IsCoinbase(tx) \/ tx.sender # tx.receiver
    <3> HIDE DEF tx
    <3>1. /\ IsCoinbase(tx) => SumOf(ProcessTransaction(balances, tx)) = SumOf(balances) + Reward
          /\ ~IsCoinbase(tx) /\ tx.sender # tx.receiver => SumOf(ProcessTransaction(balances, tx)) = SumOf(balances)
      BY <1>2, <1>3, <1>4, <2>1, ProcessSum
    <3>2. SumOf(balances') = SumOf(ProcessTransaction(balances, tx))
      BY DEF tx
    <3> QED BY <2>4, <3>1, <3>2 DEF TotalSupply
  <2> QED BY <2>2, <2>3, <2>4
<1>7. TotalSupply <= Minted + RewardUpTo(txs, k - 1)
  BY DEF IncomeInv, Income
<1>8. TotalSupply' <= Minted + RewardUpTo(txs, k)
  <2>1. TotalSupply \in Nat /\ Minted \in Int /\ Reward \in Nat
    BY <1>3, IncomeTypes
  <2>2. RewardUpTo(txs, k - 1) \in Nat /\ RewardUpTo(txs, k) \in Nat
    BY <1>3, <2>1, IncomeTypes
  <2> DEFINE before == RewardUpTo(txs, k - 1)
             after == RewardUpTo(txs, k)
  <2>3. IsCoinbase(tx) => before = 0 /\ after = Reward
    BY <1>2, <1>3, RewardPaid
  <2>4. before <= after
    <3>1. k - 1 \in Nat /\ (k - 1) + 1 = k
      BY <1>2
    <3> HIDE DEF k, txs
    <3>2. RewardUpTo(txs, k - 1) <= RewardUpTo(txs, (k - 1) + 1)
      BY <3>1, RewardGrows
    <3> QED BY <3>1, <3>2
  <2>5. before \in Nat /\ after \in Nat /\ TotalSupply <= Minted + before
    BY <1>7, <2>2
  <2> HIDE DEF before, after
  <2>6. TotalSupply' <= Minted + after
    <3>1. CASE IsCoinbase(tx)
      BY <1>6, <2>1, <2>3, <2>5, <3>1
    <3>2. CASE ~IsCoinbase(tx)
      BY <1>6, <2>1, <2>4, <2>5, <3>2
    <3> QED BY <3>1, <3>2
  <2> QED BY <2>6 DEF after
<1>9. Minted' = Minted /\ txIndex'[t] - 1 = k /\ newBlock'[t].txs = txs
  <2>1. k \in Int
    BY <1>2
  <2> QED BY <2>1 DEF Minted
<1>10. Income'
  <2>1. Busy(t)'
    BY DEF Busy
  <2>2. TotalSupply' <= Minted' + RewardUpTo(newBlock'[t].txs, txIndex'[t] - 1)
    BY <1>8, <1>9
  <2> QED BY <1>1, <2>1, <2>2 DEF Income
<1>11. WorkInv'
  BY <1>1, <1>3 DEF WorkInv, Busy
<1> QED BY <1>5, <1>10, <1>11 DEF IncomeInv

\* One more reward.
LEMMA MintedNext ==
    ASSUME NEW n \in Int, NEW m \in Int, m = n + 1
    PROVE  Reward * m = Reward * n + Reward
BY LedgerAssumption

LEMMA IncomeNext ==
    ASSUME Serial, IsFiniteSet(Addr), StoreInv, RewardInv, HeadInv, PlainInv, IncomeInv, [Next]_vars,
           restarts' = restarts
    PROVE  IncomeInv'
<1>a. TypeOK /\ InBlock
  BY DEF StoreInv, StorageTypeOK
<1>b. ASSUME NEW t \in Threads, chain' = chain, Busy(t)' <=> Busy(t) PROVE Kept' = Kept
  BY <1>b DEF Kept, Serial
<1>c. ASSUME NEW t \in Threads, ~Busy(t), pc'[t] = "apply", NEW b \in Block, chain' = Append(chain, b)
      PROVE  Kept' = Kept
  <2>1. \A u \in Threads : u = t
    BY DEF Serial
  <2>2. Len(chain') = Len(chain) + 1 /\ Len(chain) \in Nat
    BY <1>a, <1>c, LastAppended DEF TypeOK
  <2>3. Kept' = Len(chain') - 1
    BY <1>c DEF Kept, Busy
  <2>4. Kept = Len(chain)
    BY <1>c, <2>1 DEF Kept
  <2> QED BY <2>2, <2>3, <2>4
<1>1. ASSUME NEW t \in Threads,
             \/ MineBlock(t)
             \/ \E to \in Receivers, amount \in Amounts : SendMoney(t, to, amount)
             \/ \E amount \in Amounts : SendMoneyFails(t, amount)
             \/ RefuseMined(t) \/ DebitWallet(t) \/ SubmitTransaction(t)
      PROVE  IncomeInv'
  <2>1. chain' = chain /\ balances' = balances /\ ~Busy(t) /\ ~Busy(t)'
    BY <1>1, <1>a DEF MineBlock, SendMoney, SendMoneyFails, RefuseMined, DebitWallet, SubmitTransaction,
                      Return, nodeVars, TypeOK, Busy
  <2> QED BY <1>b, <2>1, IncomeKept
<1>2. ASSUME NEW t \in Threads, NEW b \in gossipBlocks, ReceiveBlock(t, b) PROVE IncomeInv'
  <2>1. /\ chain' = Append(chain, b) /\ b \in Block /\ balances' = balances
        /\ ~Busy(t) /\ pc'[t] = "apply" /\ txIndex'[t] = 1 /\ newBlock'[t] = b
        /\ ValidateTransactions(b.txs)
    BY <1>2, <1>a DEF ReceiveBlock, Rejects, TypeOK, Busy
  <2> QED BY <1>c, <2>1, IncomePushed
<1>3. ASSUME NEW t \in Threads, PushMined(t) PROVE IncomeInv'
  <2>1. PICK h \in FreshHash :
          /\ newBlock' = [newBlock EXCEPT ![t] = [newBlock[t] EXCEPT !.hash = h]]
          /\ chain' = Append(chain, [newBlock[t] EXCEPT !.hash = h])
    BY <1>3 DEF PushMined
  <2> DEFINE b == [newBlock[t] EXCEPT !.hash = h]
  <2>2. b \in Block /\ b.txs = newBlock[t].txs
    <3>1. newBlock[t] \in Block
      BY <1>a DEF TypeOK
    <3> QED BY <3>1 DEF Block, FreshHash
  <2>3. /\ chain' = Append(chain, b) /\ balances' = balances /\ ~Busy(t) /\ pc'[t] = "apply"
        /\ txIndex'[t] = 1 /\ newBlock'[t] = b /\ ValidateTransactions(newBlock[t].txs)
    BY <1>3, <1>a, <2>1 DEF PushMined, TypeOK, Busy
  <2> HIDE DEF b
  <2> QED BY <1>c, <2>2, <2>3, IncomePushed
<1>4. ASSUME NEW t \in Threads, ReadBalances(t) PROVE IncomeInv'
  <2>1. /\ pc[t] = "apply" /\ pc'[t] = "write" /\ chain' = chain /\ balances' = balances
        /\ newBlock' = newBlock /\ txIndex' = txIndex
        /\ VerifyTransactionBalance(balances, CurrentTx(t))
        /\ readBal'[t] = [from |-> GetBalance(balances, CurrentTx(t).sender),
                          to   |-> GetBalance(balances, CurrentTx(t).receiver)]
    BY <1>4, <1>a DEF ReadBalances, Applying, TypeOK, nodeVars
  <2>2. ReadIsFresh(t)'
    BY <2>1 DEF ReadIsFresh, CurrentTx
  <2>3. \A u \in Threads : u = t
    BY DEF Serial
  <2>4. Busy(t) /\ Busy(t)'
    BY <2>1 DEF Busy
  <2>5. TotalSupply' = TotalSupply /\ Minted' = Minted
    BY <1>b, <2>1, <2>4 DEF TotalSupply, Minted
  <2> QED BY <2>1, <2>2, <2>3, <2>4, <2>5 DEF IncomeInv, WorkInv, Income
<1>5. ASSUME NEW t \in Threads, SkipTransaction(t) PROVE IncomeInv'
  <2>1. /\ chain' = chain /\ balances' = balances /\ pc'[t] = "apply" /\ Busy(t) /\ Busy(t)'
        /\ newBlock'[t] = newBlock[t] /\ txIndex'[t] = txIndex[t] + 1
        /\ txIndex[t] <= Len(newBlock[t].txs) /\ ~VerifyTransactionBalance(balances, CurrentTx(t))
    BY <1>5, <1>a DEF SkipTransaction, Applying, TypeOK, nodeVars, Busy
  <2>2. balances' = ProcessTransaction(balances, CurrentTx(t))
    BY <2>1 DEF ProcessTransaction
  <2> QED BY <1>b, <2>1, <2>2, IncomeProcessed
<1>6. ASSUME NEW t \in Threads, WriteBalances(t) PROVE IncomeInv'
  <2>1. /\ chain' = chain /\ pc[t] = "write" /\ pc'[t] = "apply" /\ Busy(t) /\ Busy(t)'
        /\ newBlock'[t] = newBlock[t] /\ txIndex'[t] = txIndex[t] + 1
        /\ balances' = WriteBalance(balances, CurrentTx(t), readBal[t].from, readBal[t].to)
    BY <1>6, <1>a DEF WriteBalances, TypeOK, Busy
  <2>2. ReadIsFresh(t) /\ txIndex[t] <= Len(newBlock[t].txs)
    BY <1>a, <2>1 DEF IncomeInv, WorkInv, InBlock
  <2>3. balances' = ProcessTransaction(balances, CurrentTx(t))
    BY <2>1, <2>2 DEF ProcessTransaction, ReadIsFresh
  <2> QED BY <1>b, <2>1, <2>2, <2>3, IncomeProcessed
<1>7. ASSUME NEW t \in Threads, FinishBlock(t) PROVE IncomeInv'
  <2>1. \A u \in Threads : u = t
    BY DEF Serial
  <2>2. chain' = chain /\ balances' = balances /\ Busy(t) /\ ~Busy(t)' /\ pc'[t] = "idle"
    BY <1>7, <1>a DEF FinishBlock, Return, TypeOK, Busy
  <2>3. Kept = Len(chain) - 1 /\ Kept' = Len(chain)
    BY <2>1, <2>2 DEF Kept
  <2>4. /\ TotalSupply \in Nat /\ Reward \in Nat /\ Minted \in Int /\ restarts \in Nat
        /\ RewardUpTo(newBlock[t].txs, txIndex[t] - 1) \in {0, Reward}
    BY IncomeTypes DEF IncomeInv
  <2>5. Minted' = Minted + Reward
    <3> DEFINE n == Kept - 1 + restarts
               m == Kept' - 1 + restarts
    <3>1. Len(chain) \in Nat
      BY <1>a, LenProperties DEF TypeOK
    <3>2. n \in Int /\ m \in Int /\ m = n + 1
      BY <2>3, <2>4, <3>1
    <3> HIDE DEF n, m
    <3>3. Reward * m = Reward * n + Reward
      BY <3>2, MintedNext
    <3> QED BY <3>3 DEF Minted, n, m
  <2>6. TotalSupply <= Minted + RewardUpTo(newBlock[t].txs, txIndex[t] - 1)
    BY <2>2 DEF IncomeInv, Income
  <2>7. TotalSupply <= Minted + Reward
    <3> DEFINE r == RewardUpTo(newBlock[t].txs, txIndex[t] - 1)
    <3>1. r \in {0, Reward} /\ TotalSupply <= Minted + r
      BY <2>4, <2>6
    <3> HIDE DEF r
    <3> QED BY <2>4, <3>1
  <2>8. TotalSupply' <= Minted'
    BY <2>2, <2>5, <2>7 DEF TotalSupply
  <2> QED BY <2>1, <2>2, <2>8 DEF IncomeInv, WorkInv, Income
<1>8. ASSUME \/ \E t \in Users : ViewWallet(t)
             \/ \E t \in Net, tx \in gossipTxs : ReceiveTransaction(t, tx)
             \/ PeerStep
             \/ UNCHANGED vars
      PROVE  IncomeInv'
  <2>1. chain' = chain /\ balances' = balances /\ UNCHANGED threadVars
    BY <1>8 DEF ViewWallet, ReceiveTransaction, PeerStep, PeerMines, PeerSends, vars, nodeVars
  <2>2. Kept' = Kept
    BY <2>1 DEF Kept, Busy, threadVars
  <2>3. TotalSupply' = TotalSupply /\ Minted' = Minted
    BY <2>1, <2>2 DEF TotalSupply, Minted
  <2> QED BY <2>1, <2>3 DEF IncomeInv, WorkInv, Income, Busy, ReadIsFresh, CurrentTx, threadVars
<1>9. \A t \in Users \cup Net : t \in Threads
  BY DEF Threads
<1> QED
  BY <1>1, <1>2, <1>3, <1>4, <1>5, <1>6, <1>7, <1>8, <1>9
  DEF Next, UserStep, NetStep, Continue

\* A start mints nothing: it counts as one reward, which is more than the part of
\* a block that the stop has left in the balances.
LEMMA IncomeStart ==
    ASSUME Serial, IsFiniteSet(Addr), StoreInv, RewardInv, HeadInv, PlainInv, IncomeInv, Start, ~cleaned'
    PROVE  PlainInv' /\ IncomeInv'
<1>1. /\ \A t \in Threads : pc'[t] = "idle" /\ newTx'[t] = NoTx /\ newBlock'[t] = NoBlock
      /\ mempool' = <<>> /\ gossipTxs' = gossipTxs /\ gossipBlocks' = gossipBlocks
  BY DEF Start, StartClean, StartEmpty, StartLoaded, StartInvalid, FreshMemory
<1>2. restarts' = restarts + 1
  BY DEF Start, StartClean, StartEmpty, StartLoaded, StartInvalid, Restart
<1>3. PlainInv'
  BY <1>1, PlainRecords DEF PlainInv
<1>4. \A t \in Threads : ~Busy(t)'
  BY <1>1 DEF Busy
<1>5. HeadInv' /\ stored' = stored /\ Found(stored) # <<>>
  <2>1. HeadInv' /\ stored' = stored /\ chain' = Found(stored)
    BY HeadStart
  <2>2. StoreInv'
    BY StartTyped
  <2>3. chain' # <<>>
    BY <2>2, EmptySeq DEF StoreInv, StorageTypeOK, TypeOK
  <2> QED BY <2>1, <2>3
<1>6. Kept \in Int /\ Kept' = Kept
  <2>1. DOMAIN stored = 0 .. Kept - 1 /\ DOMAIN stored' = 0 .. Kept' - 1
    BY <1>5 DEF HeadInv, SavedHeaders
  <2>2. Kept \in Nat \ {0} /\ Kept' \in Nat \ {0}
    <3>1. Len(chain) \in Nat \ {0}
      BY LenProperties DEF StoreInv, StorageTypeOK, TypeOK
    <3>2. Kept \in Nat \ {0}
      BY <3>1 DEF Kept, HeadInv, WorkIsLast
    <3>3. Len(chain') \in Nat \ {0}
      <4>1. TypeOK'
        BY StartTyped DEF StoreInv, StorageTypeOK
      <4> QED BY <4>1, LenProperties DEF TypeOK
    <3> QED BY <1>4, <3>2, <3>3 DEF Kept
  <2> DEFINE m == Kept
             n == Kept'
  <2>3. m \in Nat \ {0} /\ n \in Nat \ {0} /\ 0 .. m - 1 = 0 .. n - 1
    BY <1>5, <2>1, <2>2
  <2> HIDE DEF m, n
  <2>4. m = n
    <3>1. m - 1 \in 0 .. m - 1 /\ n - 1 \in 0 .. n - 1
      BY <2>3
    <3>2. m - 1 <= n - 1 /\ n - 1 <= m - 1
      BY <2>3, <3>1
    <3> QED BY <2>3, <3>2
  <2> QED BY <2>2, <2>4 DEF m, n
<1>7. balances' = balances \/ balances' = Zero
  <2>1. CASE StartLoaded
    BY <2>1, LoadedIsGenesis DEF StartLoaded
  <2>2. CASE StartEmpty
    BY <1>5, <2>2 DEF StartEmpty
  <2>3. CASE StartClean \/ StartInvalid
    BY <2>3 DEF StartClean, StartInvalid
  <2> QED BY <2>1, <2>2, <2>3 DEF Start
<1>8. /\ TotalSupply \in Nat /\ Reward \in Nat /\ Minted \in Int /\ restarts \in Nat
      /\ Kept - 1 + restarts \in Int
  BY IncomeTypes DEF IncomeInv
<1>9. Minted' = Minted + Reward
  <2> DEFINE n == Kept - 1 + restarts
             m == Kept' - 1 + restarts'
  <2>1. n \in Int /\ m \in Int /\ m = n + 1
    BY <1>2, <1>6, <1>8
  <2> HIDE DEF n, m
  <2>2. Reward * m = Reward * n + Reward
    BY <2>1, MintedNext
  <2> QED BY <2>2 DEF Minted, n, m
<1>10. TotalSupply <= Minted + Reward
  <2>1. CASE \A t \in Threads : ~Busy(t)
    <3>1. TotalSupply <= Minted
      BY <2>1 DEF IncomeInv, Income
    <3> QED BY <1>8, <3>1
  <2>2. CASE \E t \in Threads : Busy(t)
    <3>1. PICK t \in Threads : Busy(t)
      BY <2>2
    <3> DEFINE r == RewardUpTo(newBlock[t].txs, txIndex[t] - 1)
    <3>2. TotalSupply <= Minted + r /\ r \in {0, Reward}
      BY <3>1 DEF IncomeInv, Income, RewardUpTo
    <3> HIDE DEF r
    <3> QED BY <1>8, <3>2
  <2> QED BY <2>1, <2>2
<1>11. balances' \in Balances /\ TotalSupply' <= Minted'
  <2>1. CASE balances' = balances
    BY <1>9, <1>10, <2>1 DEF IncomeInv, TotalSupply
  <2>2. CASE balances' = Zero
    <3>1. TotalSupply' = 0
      BY <2>2, SumZero DEF TotalSupply
    <3>2. 0 <= Minted + Reward
      BY <1>8, <1>10
    <3> QED BY <1>9, <2>2, <3>1, <3>2, ZeroType
  <2> QED BY <1>7, <2>1, <2>2
<1>12. WorkInv' /\ Income'
  BY <1>1, <1>4, <1>11 DEF WorkInv, Income
<1> QED BY <1>3, <1>11, <1>12 DEF IncomeInv

LEMMA IncomeInit ==
    ASSUME IsFiniteSet(Addr)
    PROVE  StorageInit /\ ~cleaned => PlainInv /\ IncomeInv
<1> SUFFICES ASSUME StorageInit, ~cleaned PROVE PlainInv /\ IncomeInv
  OBVIOUS
<1>1. PICK now \in Times : FreshNode(now)
  BY DEF StorageInit, Init
<1>2. restarts = 0 /\ balances = Zero /\ \A t \in Threads : ~Busy(t) /\ pc[t] = "idle"
  BY <1>1 DEF StorageInit, FreshNode, Zero, Busy
<1>3. PlainInv
  BY <1>1, PlainRecords DEF FreshNode, PlainInv
<1>4. Kept = 1
  <2>1. Len(chain) = 1
    BY <1>1, GenesisTyped DEF FreshNode
  <2> QED BY <1>2, <2>1 DEF Kept
<1>5. Minted = 0
  <2>1. Kept - 1 + restarts = 0
    BY <1>2, <1>4
  <2>2. Reward * 0 = 0
    BY LedgerAssumption
  <2> QED BY <2>1, <2>2 DEF Minted
<1>6. TotalSupply = 0
  BY <1>2, SumZero DEF TotalSupply
<1> QED BY <1>2, <1>3, <1>5, <1>6, ZeroType DEF IncomeInv, WorkInv, Income

\* A stop between the balances and the block it pays for mints at most one
\* reward: the coins are those of the saved blocks, one reward for each restart
\* and one for the block in work.  Without Me \notin Receivers it would be false:
\* a payment to oneself creates coins too.
THEOREM CrashesMintOneReward ==
    ASSUME Serial, IsFiniteSet(Addr), Me \notin Receivers
    PROVE  StorageSpec => []CrashMintsOneReward
<1> DEFINE Inv == RestartInv /\ (~cleaned => PlainInv /\ IncomeInv)
<1>1. StorageInit => Inv
  BY StoreInit, RewardInit, HeadInit, IncomeInit DEF RestartInv, StorageInit
<1>2. Inv /\ [StorageNext]_storageVars => Inv'
  <2> SUFFICES ASSUME Inv, [StorageNext]_storageVars PROVE Inv'
    OBVIOUS
  <2>1. RestartInv'
    BY RestartNext
  <2>2. CASE Start
    <3>1. cleaned => cleaned'
      BY <2>2 DEF Start, StartClean, StartEmpty, StartLoaded, StartInvalid, Restart
    <3> QED BY <2>1, <2>2, <3>1, IncomeStart DEF RestartInv
  <2>3. ASSUME [Next]_vars, cleaned' = cleaned, restarts' = restarts PROVE Inv'
    <3>1. TypeOK
      BY DEF RestartInv, StoreInv, StorageTypeOK
    <3>2. ASSUME ~cleaned PROVE PlainInv' /\ IncomeInv'
      BY <2>3, <3>1, <3>2, PlainNext, IncomeNext DEF RestartInv
    <3> QED BY <2>1, <2>3, <3>2
  <2> QED BY <2>2, <2>3 DEF StorageNext, storageVars
<1>3. Inv => CrashMintsOneReward
  <2> SUFFICES ASSUME Inv, ~cleaned
               PROVE  TotalSupply <= Reward * (Cardinality(DOMAIN stored) - 1 + restarts
                                      + Cardinality({t \in Threads : pc[t] \in {"apply", "write"}}))
    BY DEF CrashMintsOneReward
  <2> DEFINE busy == {t \in Threads : pc[t] \in {"apply", "write"}}
  <2>1. HeadInv /\ IncomeInv /\ StoreInv
    BY DEF RestartInv
  <2>2. Cardinality(DOMAIN stored) = Kept
    BY <2>1, SavedCount
  <2>3. /\ TotalSupply \in Nat /\ Reward \in Nat /\ Minted \in Int
        /\ Kept - 1 + restarts \in Int
    BY <2>1, IncomeTypes DEF IncomeInv
  <2>4. CASE \A t \in Threads : ~Busy(t)
    <3>1. busy = {}
      BY <2>4 DEF Busy
    <3>2. Cardinality(busy) = 0
      BY <3>1, FS_EmptySet
    <3>3. TotalSupply <= Minted
      BY <2>1, <2>4 DEF IncomeInv, Income
    <3>4. Kept - 1 + restarts + Cardinality(busy) = Kept - 1 + restarts
      BY <2>3, <3>2
    <3> QED BY <2>2, <3>3, <3>4 DEF Minted
  <2>5. CASE \E t \in Threads : Busy(t)
    <3>1. PICK t \in Threads : Busy(t)
      BY <2>5
    <3>2. busy = {t}
      BY <3>1 DEF Busy, Serial
    <3>3. Cardinality(busy) = 1
      BY <3>2, FS_Singleton
    <3> DEFINE r == RewardUpTo(newBlock[t].txs, txIndex[t] - 1)
               n == Kept - 1 + restarts
               m == Kept - 1 + restarts + Cardinality(busy)
    <3>4. TotalSupply <= Minted + r /\ r \in {0, Reward}
      BY <2>1, <3>1 DEF IncomeInv, Income, RewardUpTo
    <3>5. n \in Int /\ m \in Int /\ m = n + 1
      BY <2>3, <3>3
    <3> HIDE DEF r, n, m
    <3>6. Reward * m = Reward * n + Reward
      BY <3>5, MintedNext
    <3>7. TotalSupply <= Minted + Reward
      BY <2>3, <3>4
    <3>8. Minted = Reward * n
      BY DEF Minted, n
    <3>9. TotalSupply <= Reward * m
      BY <3>6, <3>7, <3>8
    <3> QED BY <2>2, <3>9 DEF m
  <2> QED BY <2>4, <2>5
<1> QED BY <1>1, <1>2, <1>3, PTL DEF StorageSpec
=============================================================================
