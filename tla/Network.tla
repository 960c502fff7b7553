------------------------------- MODULE Network -------------------------------
(***************************************************************************)
(* Several nodes and the messages between them: NetworkNode.cpp with the   *)
(* calls it makes of Blockchain.cpp.  A node handles one message at a time *)
(* and its calls do not overlap here (Blockchain.tla has the threads).  A  *)
(* connection delivers in order, as TCP does, until it breaks; what was    *)
(* under way is lost with it.                                              *)
(***************************************************************************)
EXTENDS Ledger

CONSTANTS Node,         \* nodes, each named by the address of its wallet
          FullNodes,    \* nodes of type FULL_NODE
          Difficulty,   \* Difficulty[n]: the --difficulty of n
          FailedLimit,  \* rejected blocks before a node asks for the chain (5)
          Payers,       \* nodes whose users pay
          Receivers,    \* addresses they pay to
          Amounts,      \* amounts they pay
          Askers,       \* nodes whose users ask for the chains of others
          Topology,     \* bound: which node the operators connect to which
          MaxChannel    \* bound: messages under way when a user adds one

ASSUME NetworkAssumption ==
    /\ Node \subseteq Addr
    /\ FullNodes \subseteq Node
    /\ Difficulty \in [Node -> 1 .. 8]
    /\ FailedLimit \in Nat \ {0}
    /\ Payers \subseteq Node
    /\ Receivers \subseteq Addr
    /\ Amounts \subseteq Nat
    /\ Askers \subseteq Node
    /\ Topology \subseteq Node \X Node
    /\ MaxChannel \in Nat \ {0}

VARIABLES node,     \* node[n]: its chain, mempool and balances
          failed,   \* NetworkManager::failedBlockCount
          peers,    \* pairs of nodes that have shaken hands, both ways
          links,    \* pairs of nodes with a connection, both ways
          channel   \* channel[<<m, n>>]: messages from m to n, in order

vars == <<node, failed, peers, links, channel>>

Pairs == {p \in Node \X Node : p[1] # p[2]}

\* Every genesis block is GENESIS_TIMESTAMP's.
GenesisTime == CHOOSE now \in Times : TRUE

NodeInit ==
    [chain |-> <<GenesisBlock(GenesisTime)>>, mempool |-> <<>>, balances |-> [a \in Addr |-> 0]]

Init ==
    /\ node = [n \in Node |-> NodeInit]
    /\ failed = [n \in Node |-> 0]
    /\ peers = {}
    /\ links = {}
    /\ channel = [p \in Pairs |-> <<>>]

-----------------------------------------------------------------------------
(* Messages *)

BlockMsg(b) == [type |-> "BLOCK", block |-> b]
TxMsg(tx) == [type |-> "TRANSACTION", tx |-> tx]
ChainRequest == [type |-> "CHAIN_REQUEST"]
\* The genesis block travels with the difficulty of the node it comes from.
ChainResponse(n) ==
    [type |-> "CHAIN_RESPONSE", chain |-> node[n].chain, genesisDifficulty |-> Difficulty[n]]

\* Sent by n on all its connections but those to the nodes in Not.
Broadcast(ch, n, Not, msg) ==
    [p \in Pairs |-> IF p[1] = n /\ p \in links /\ p[2] \notin Not THEN Append(ch[p], msg) ELSE ch[p]]

\* The next message from m to n, and the channels once n has read it.
Waiting(m, n, type) ==
    <<m, n>> \in Pairs /\ channel[<<m, n>>] # <<>> /\ Head(channel[<<m, n>>]).type = type
Message(m, n) == Head(channel[<<m, n>>])
Read(m, n) == [channel EXCEPT ![<<m, n>>] = Tail(@)]

-----------------------------------------------------------------------------
(* The calls of Blockchain.cpp, as functions of a node's state *)

Hashes(c) == {c[i].hash : i \in DOMAIN c}

AddTransaction(s, tx) ==
    IF VerifyTransactionBalance(s.balances, tx) /\ tx \notin Elems(s.mempool)
    THEN [s EXCEPT !.mempool = Append(@, tx)] ELSE s

\* addExistingBlock throws.
Rejects(s, b) ==
    \/ b.prev # Last(s.chain).hash /\ b.number # Last(s.chain).number
    \/ b.number = Last(s.chain).number /\ b.hash # Last(s.chain).hash
    \/ ~ValidateTransactions(b.txs)

\* A block goes on the chain, into the balances, and the mempool is emptied.
AppendBlock(s, b) ==
    [chain |-> Append(s.chain, b), mempool |-> <<>>,
     balances |-> UpdateBalances(s.balances, b.txs)]

\* Mutant: the balances of a received block are left for the next start.
AddUnapplied(s, b) ==
    IF b.number = Last(s.chain).number /\ b.hash = Last(s.chain).hash THEN s
    ELSE [AppendBlock(s, b) EXCEPT !.balances = s.balances]

\* addExistingBlock when it does not throw; the block the chain ends with is
\* left where it is.
AddExistingBlock(s, b) ==
    IF b.number = Last(s.chain).number /\ b.hash = Last(s.chain).hash THEN s ELSE AppendBlock(s, b)

EmptyBlockCount(c) == Cardinality({i \in DOMAIN c : Len(c[i].txs) <= 1})

-----------------------------------------------------------------------------
(* What users do *)

FreshHash == Hash \ UNION {Hashes(node[n].chain) : n \in Node}

\* Bound: a user adds a message to a channel that has room.
Room == \A p \in Pairs : Len(channel'[p]) <= MaxChannel

\* Mutant: the transactions of the block are not validated.
MineUnvalidated(n) ==
    LET s == node[n]
    IN  /\ n \in FullNodes
        /\ ~(s.mempool = <<>> /\ EmptyBlockCount(s.chain) >= 3)
        /\ \A i \in DOMAIN s.mempool : VerifyTransactionBalance(s.balances, s.mempool[i])
        /\ \E h \in FreshHash, now \in Times :
             LET b == [number |-> Len(s.chain), prev |-> Last(s.chain).hash, hash |-> h,
                       txs |-> Append(s.mempool, Coinbase(n, now))]
             IN  /\ node' = [node EXCEPT ![n] = AppendBlock(s, b)]
                 /\ channel' = Broadcast(channel, n, {}, BlockMsg(b))
        /\ Room
        /\ UNCHANGED <<failed, peers, links>>

\* mineBlock, then broadcastBlock.
MineBlock(n) ==
    LET s == node[n]
    IN  /\ n \in FullNodes
        /\ ~(s.mempool = <<>> /\ EmptyBlockCount(s.chain) >= 3)
        /\ \A i \in DOMAIN s.mempool : VerifyTransactionBalance(s.balances, s.mempool[i])
        /\ \E h \in FreshHash, now \in Times :
             LET b == [number |-> Len(s.chain), prev |-> Last(s.chain).hash, hash |-> h,
                       txs |-> Append(s.mempool, Coinbase(n, now))]
             IN  /\ ValidateTransactions(b.txs)
                 /\ node' = [node EXCEPT ![n] = AppendBlock(s, b)]
                 /\ channel' = Broadcast(channel, n, {}, BlockMsg(b))
        /\ Room
        /\ UNCHANGED <<failed, peers, links>>

\* sendMoney with a wallet that has just taken its balance from the database,
\* then addTransaction and broadcastTransaction.
SendMoney(n, to, amount) ==
    /\ amount > 0 /\ GetBalance(node[n].balances, n) >= amount
    /\ \E now \in Times :
         LET tx == Transfer(n, to, amount, now)
         IN  /\ node' = [node EXCEPT ![n] = AddTransaction(@, tx)]
             /\ channel' = Broadcast(channel, n, {}, TxMsg(tx))
    /\ Room
    /\ UNCHANGED <<failed, peers, links>>

\* requestBlockchain: at the start, from the menu, by POST /api/blockchain/sync.
RequestBlockchain(n) ==
    /\ channel' = Broadcast(channel, n, {}, ChainRequest)
    /\ channel' # channel
    /\ Room
    /\ UNCHANGED <<node, failed, peers, links>>

\* connectToPeer and the handshakes of both ends.  A node that is in the list
\* of peers is taken to be connected.
ConnectToPeer(n, m) ==
    /\ <<n, m>> \in Pairs \ peers
    /\ peers' = peers \cup {<<n, m>>, <<m, n>>}
    /\ links' = links \cup {<<n, m>>, <<m, n>>}
    /\ UNCHANGED <<node, failed, channel>>

\* A connection breaks.  Neither end takes the other off its list of peers.
Break(n, m) ==
    /\ <<n, m>> \in links
    /\ links' = links \ {<<n, m>>, <<m, n>>}
    /\ channel' = [channel EXCEPT ![<<n, m>>] = <<>>, ![<<m, n>>] = <<>>]
    /\ UNCHANGED <<node, failed, peers>>

-----------------------------------------------------------------------------
(* handleMessage: n reads a message of m *)

\* A transaction that is invalid or pending goes no further; any other one is
\* relayed, whether addTransaction has taken it or not.
ReceiveTransaction(m, n) ==
    /\ Waiting(m, n, "TRANSACTION")
    /\ LET tx == Message(m, n).tx
       IN  IF IsValid(tx) /\ tx \notin Elems(node[n].mempool)
           THEN /\ node' = [node EXCEPT ![n] = AddTransaction(@, tx)]
                /\ channel' = Broadcast(Read(m, n), n, {m}, TxMsg(tx))
           ELSE channel' = Read(m, n) /\ UNCHANGED node
    /\ UNCHANGED <<failed, peers, links>>

ReceiveKnownBlock(m, n) ==
    /\ Waiting(m, n, "BLOCK")
    /\ Message(m, n).block.hash \in Hashes(node[n].chain)
    /\ channel' = Read(m, n)
    /\ UNCHANGED <<node, failed, peers, links>>

\* A new block is added and relayed.
ReceiveBlock(m, n) ==
    /\ Waiting(m, n, "BLOCK")
    /\ LET b == Message(m, n).block
       IN  /\ b.hash \notin Hashes(node[n].chain)
           /\ ~Rejects(node[n], b)
           /\ node' = [node EXCEPT ![n] = AddExistingBlock(@, b)]
           /\ channel' = Broadcast(Read(m, n), n, {m}, BlockMsg(b))
    /\ UNCHANGED <<failed, peers, links>>

\* Mutant: the counter of rejected blocks is not reset.
RejectCounting(m, n) ==
    /\ Waiting(m, n, "BLOCK")
    /\ LET b == Message(m, n).block
       IN  /\ b.hash \notin Hashes(node[n].chain)
           /\ Rejects(node[n], b)
           /\ failed' = [failed EXCEPT ![n] = @ + 1]
           /\ channel' = Broadcast(Read(m, n), n, {m}, BlockMsg(b))
    /\ UNCHANGED <<node, peers, links>>

\* A block addExistingBlock throws for is counted, and relayed all the same.
\* After FailedLimit of them the node asks all its peers for their chains.
RejectBlock(m, n) ==
    /\ Waiting(m, n, "BLOCK")
    /\ LET b == Message(m, n).block
           ask == failed[n] + 1 >= FailedLimit
           asked == IF ask THEN Broadcast(Read(m, n), n, {}, ChainRequest) ELSE Read(m, n)
       IN  /\ b.hash \notin Hashes(node[n].chain)
           /\ Rejects(node[n], b)
           /\ failed' = [failed EXCEPT ![n] = IF ask THEN 0 ELSE @ + 1]
           /\ channel' = Broadcast(asked, n, {m}, BlockMsg(b))
    /\ UNCHANGED <<node, peers, links>>

ReceiveRequest(m, n) ==
    /\ Waiting(m, n, "CHAIN_REQUEST")
    /\ channel' = IF n \in FullNodes /\ <<n, m>> \in links
                  THEN [Read(m, n) EXCEPT ![<<n, m>>] = Append(@, ChainResponse(n))]
                  ELSE Read(m, n)
    /\ UNCHANGED <<node, failed, peers, links>>

\* The checks of a CHAIN_RESPONSE before the chains are compared.
ValidResponse(n, c) ==
    /\ c # <<>>
    /\ c[1].hash = node[n].chain[1].hash
    /\ \A i \in DOMAIN c :
         /\ c[i].number = i - 1
         /\ \A j \in DOMAIN c[i].txs : IsValid(c[i].txs[j])
         /\ i > 1 => c[i].prev = c[i - 1].hash

\* The sum of 2^difficulty.  The last transaction of a mined block is the reward
\* of its miner, who mined it with his own difficulty.
Work(c, genesisDifficulty) ==
    LET work[i \in 1 .. Len(c)] ==
          IF i = 1 THEN 2 ^ genesisDifficulty
          ELSE work[i - 1] + 2 ^ Difficulty[Last(c[i].txs).receiver]
    IN  work[Len(c)]

OwnWork(n) == Work(node[n].chain, Difficulty[n])

MinedTxs(c) == UNION {Elems(c[i].txs) : i \in 2 .. Len(c)}

\* The transactions of a block that is to be replaced go back to the mempool,
\* the reward among them, but those the received chain has.
ReturnTransactions(s, txs, theirs) ==
    LET after[i \in 0 .. Len(txs)] ==
          IF i = 0 THEN s
          ELSE IF txs[i] \in theirs THEN after[i - 1] ELSE AddTransaction(after[i - 1], txs[i])
    IN  after[Len(txs)]

\* So do those of all our blocks but the genesis block.
ReturnToMempool(s, c) ==
    LET after[i \in 0 .. Len(s.chain) - 1] ==
          IF i = 0 THEN s
          ELSE ReturnTransactions(after[i - 1], s.chain[i + 1].txs, MinedTxs(c))
    IN  after[Len(s.chain) - 1]

\* Mutant: our chain is cut back to the genesis block first.
ReplaceChain(s, c) ==
    [chain |-> <<Head(s.chain)>> \o Tail(c), mempool |-> <<>>, balances |-> Rebuild(c)]

\* Mutant: the first mined block is skipped with the genesis block.
TakeFromThird(s, c) ==
    IF \E i \in 3 .. Len(c) : ~Rejects(s, c[i])
    THEN AddExistingBlock(s, c[CHOOSE i \in 3 .. Len(c) : ~Rejects(s, c[i])]) ELSE s

\* The blocks after the genesis block are added to the chain as it is, until
\* addExistingBlock throws for one.
TakeBlocks(s, c) ==
    LET take[i \in 0 .. Len(c) - 1] ==
          IF i = 0 THEN [state |-> s, thrown |-> FALSE]
          ELSE IF take[i - 1].thrown \/ Rejects(take[i - 1].state, c[i + 1])
               THEN [take[i - 1] EXCEPT !.thrown = TRUE]
               ELSE [state |-> AddExistingBlock(take[i - 1].state, c[i + 1]), thrown |-> FALSE]
    IN  take[Len(c) - 1].state

MoreWork(n, response) ==
    /\ ValidResponse(n, response.chain)
    /\ Work(response.chain, response.genesisDifficulty) > OwnWork(n)

\* "Our chain has more or equal proof of work. Keeping our chain."
KeepChain(m, n) ==
    /\ Waiting(m, n, "CHAIN_RESPONSE")
    /\ ~MoreWork(n, Message(m, n))
    /\ channel' = Read(m, n)
    /\ UNCHANGED <<node, failed, peers, links>>

\* "Received chain has more proof of work".
AdoptChain(m, n) ==
    /\ Waiting(m, n, "CHAIN_RESPONSE")
    /\ MoreWork(n, Message(m, n))
    /\ LET c == Message(m, n).chain
       IN  node' = [node EXCEPT ![n] = TakeBlocks(ReturnToMempool(@, c), c)]
    /\ channel' = Read(m, n)
    /\ UNCHANGED <<failed, peers, links>>

-----------------------------------------------------------------------------
UserStep(n) ==
    \/ MineBlock(n)
    \/ n \in Payers /\ \E to \in Receivers, amount \in Amounts : SendMoney(n, to, amount)
    \/ n \in Askers /\ RequestBlockchain(n)

HandleMessage(m, n) ==
    \/ ReceiveTransaction(m, n)
    \/ ReceiveKnownBlock(m, n)
    \/ ReceiveBlock(m, n)
    \/ RejectBlock(m, n)
    \/ ReceiveRequest(m, n)
    \/ KeepChain(m, n)
    \/ AdoptChain(m, n)

Next ==
    \/ \E n \in Node : UserStep(n)
    \/ \E p \in Topology : ConnectToPeer(p[1], p[2])
    \/ \E p \in Pairs : Break(p[1], p[2])
    \/ \E p \in Pairs : HandleMessage(p[1], p[2])

Spec == Init /\ [][Next]_vars

\* A node reads what has arrived on each of its connections.
FairSpec == Spec /\ \A p \in Pairs : WF_vars(HandleMessage(p[1], p[2]))

-----------------------------------------------------------------------------
(* Properties *)

MessageType ==
    [type : {"BLOCK"}, block : Block] \cup [type : {"TRANSACTION"}, tx : Tx]
      \cup [type : {"CHAIN_REQUEST"}]
      \cup [type : {"CHAIN_RESPONSE"}, chain : Seq(Block), genesisDifficulty : 1 .. 8]

\* The types of the variables; only connected nodes have messages under way,
\* and only nodes that have shaken hands are connected.
NetTypeOK ==
    /\ node \in [Node -> [chain : Seq(Block), mempool : Seq(Tx), balances : [Addr -> Nat]]]
    /\ failed \in [Node -> 0 .. FailedLimit - 1]
    /\ links \subseteq peers /\ peers \subseteq Pairs
    /\ channel \in [Pairs -> Seq(MessageType)]
    /\ \A p \in Pairs \ links : channel[p] = <<>>

\* Nodes whose chains hold the same block hold the same blocks before it, and
\* if both chains end with it they agree on every balance, although they have
\* learnt the blocks by different ways: mining, broadcast, relay, chain response.
Agreement ==
    \A m, n \in Node :
      LET c == node[m].chain
          d == node[n].chain
      IN  \A i \in DOMAIN c, j \in DOMAIN d :
            c[i].hash = d[j].hash =>
              /\ i = j /\ SubSeq(c, 1, i) = SubSeq(d, 1, j)
              /\ i = Len(c) /\ j = Len(d) => node[m].balances = node[n].balances

\* The blocks of a node stay linked and numbered, and each pays one reward,
\* although rewards of replaced blocks come back to the mempool.
BlocksPayOneReward ==
    \A n \in Node : \A i \in 2 .. Len(node[n].chain) :
      LET b == node[n].chain[i]
      IN  /\ b.number = i - 1
          /\ b.prev = node[n].chain[i - 1].hash
          /\ Cardinality({k \in DOMAIN b.txs : IsCoinbase(b.txs[k])}) = 1

\* A confirmed block is final: whatever a node receives, a chain response with
\* more work included, its chain is only ever extended.
ChainsOnlyGrow ==
    [][\A n \in Node :
         /\ Len(node[n].chain) <= Len(node'[n].chain)
         /\ SubSeq(node'[n].chain, 1, Len(node[n].chain)) = node[n].chain]_vars

Requested(n, m) == \E i \in DOMAIN channel[<<n, m>>] : channel[<<n, m>>][i] = ChainRequest

\* A node with nothing but the genesis block that has asked a full node with
\* a longer chain of more work for it gets blocks, unless the connection breaks.
NewcomerCatchesUp ==
    \A m \in FullNodes : \A n \in Node \ {m} :
      (/\ Len(node[n].chain) = 1
       /\ Requested(n, m)
       /\ Len(node[m].chain) > 1
       /\ OwnWork(m) > OwnWork(n))
        ~> (Len(node[n].chain) > 1 \/ <<n, m>> \notin links)

\* "The node with the shorter chain should adopt the longer chain"
\* (README.md:238): a node that reads a valid chain, longer and with more work
\* than its own, has that chain after it.
AdoptsLongerChain ==
    [][\A p \in Pairs :
         Waiting(p[1], p[2], "CHAIN_RESPONSE") /\ channel' = Read(p[1], p[2]) /\ links' = links =>
           LET response == Message(p[1], p[2])
           IN  MoreWork(p[2], response) /\ Len(response.chain) > Len(node[p[2]].chain) =>
                 node'[p[2]].chain = response.chain]_vars
=============================================================================
