---------------------------- MODULE NetworkProofs ---------------------------
(* What connected nodes have in common, for any nodes, connections and     *)
(* messages: theorems of Network.tla.                                      *)
EXTENDS Network, LedgerProofs

-----------------------------------------------------------------------------
(* Chains that begin with the genesis block and are linked *)

Root == GenesisBlock(GenesisTime)

Extends(c, d) ==
    /\ Len(c) <= Len(d)
    /\ \A i \in 1 .. Len(c) : d[i] = c[i]

Linked(c) ==
    /\ c \in Seq(Block) /\ Len(c) >= 1 /\ c[1] = Root
    /\ \A i \in 2 .. Len(c) :
         /\ c[i].number = i - 1
         /\ c[i].prev = c[i - 1].hash
         /\ c[i].hash \in Hash
         /\ ValidateTransactions(c[i].txs)

NodeType == [chain : Seq(Block), mempool : Seq(Tx), balances : Balances]

\* The chain of a node is linked, and its balances are those of a replay.
Sound(s) ==
    /\ s \in NodeType
    /\ Linked(s.chain)
    /\ s.balances = Rebuild(s.chain)

\* A set of blocks, each with a hash of its own, that holds the block each one
\* follows.
Known(K) ==
    /\ K \subseteq Block
    /\ \A b \in K : b.hash \in Hash
    /\ \A b, c \in K : b.hash = c.hash => b = c
    /\ \A b \in K : b = Root \/ \E a \in K : a.hash = b.prev /\ b.number = a.number + 1

LEMMA RootType == Root \in Block /\ Root.hash \in Hash /\ Root.number = 0 /\ Root.prev = NoHash
<1>1. GenesisTime \in Times
  BY LedgerAssumption DEF GenesisTime
<1>2. Transfer(Genesis, Genesis, 0, GenesisTime) \in Tx
  BY <1>1 DEF Transfer, Tx, Party
<1> QED BY <1>2, LedgerAssumption DEF Root, GenesisBlock, Block

\* In a linked chain every block has a hash and the number of its place.
LEMMA LinkedBlocks ==
    ASSUME NEW c, Linked(c)
    PROVE  /\ Len(c) \in Nat /\ DOMAIN c = 1 .. Len(c)
           /\ \A i \in 1 .. Len(c) : c[i] \in Block /\ c[i].number = i - 1 /\ c[i].hash \in Hash
           /\ Last(c) \in Elems(c) /\ Last(c) = c[Len(c)]
<1>1. c \in Seq(Block) /\ Len(c) >= 1 /\ c[1] = Root
  BY DEF Linked
<1>2. Len(c) \in Nat /\ DOMAIN c = 1 .. Len(c) /\ \A i \in 1 .. Len(c) : c[i] \in Block
  BY <1>1, LenProperties, ElementOfSeq
<1>3. ASSUME NEW i \in 1 .. Len(c) PROVE c[i].number = i - 1 /\ c[i].hash \in Hash
  <2>1. CASE i = 1
    BY <1>1, <2>1, RootType
  <2>2. CASE i # 1
    BY <1>2, <2>2 DEF Linked
  <2> QED BY <2>1, <2>2
<1>4. Last(c) \in Elems(c) /\ Last(c) = c[Len(c)]
  BY <1>1, <1>2 DEF Last, Elems
<1> QED BY <1>2, <1>3, <1>4

\* One more block.
LEMMA AppendSound ==
    ASSUME NEW s, Sound(s), NEW b \in Block,
           b.number = Len(s.chain), b.prev = Last(s.chain).hash, b.hash \in Hash,
           ValidateTransactions(b.txs)
    PROVE  /\ Sound(AppendBlock(s, b))
           /\ Extends(s.chain, AppendBlock(s, b).chain)
           /\ Elems(AppendBlock(s, b).chain) = Elems(s.chain) \cup {b}
<1> DEFINE c == s.chain
           d == Append(c, b)
<1>1. c \in Seq(Block) /\ Len(c) \in Nat /\ Len(c) >= 1 /\ DOMAIN c = 1 .. Len(c)
  BY LenProperties DEF Sound, Linked
<1>2. /\ d \in Seq(Block) /\ Len(d) = Len(c) + 1
      /\ \A i \in 1 .. Len(c) : d[i] = c[i]
      /\ d[Len(c) + 1] = b
  BY <1>1, AppendProperties
<1>3. DOMAIN d = 1 .. Len(c) + 1
  BY <1>2, LenProperties
<1>4. AppendBlock(s, b) = [chain |-> d, mempool |-> <<>>, balances |-> UpdateBalances(s.balances, b.txs)]
  BY DEF AppendBlock
<1>5. Rebuild(d) = UpdateBalances(Rebuild(c), b.txs) /\ Rebuild(d) \in Balances
  BY <1>1, <1>2, RebuildAppend, RebuildType
<1> HIDE DEF d
<1>6. Linked(d)
  <2>1. d[1] = Root
    BY <1>1, <1>2 DEF Sound, Linked
  <2>2. ASSUME NEW i \in 2 .. Len(d)
        PROVE  /\ d[i].number = i - 1 /\ d[i].prev = d[i - 1].hash
               /\ d[i].hash \in Hash /\ ValidateTransactions(d[i].txs)
    <3>1. CASE i = Len(c) + 1
      <4>1. d[i] = b /\ d[i - 1] = c[Len(c)]
        BY <1>1, <1>2, <3>1
      <4> QED BY <1>1, <3>1, <4>1 DEF Last
    <3>2. CASE i \in 2 .. Len(c)
      <4>1. d[i] = c[i] /\ d[i - 1] = c[i - 1]
        BY <1>1, <1>2, <3>2
      <4> QED BY <3>2, <4>1 DEF Sound, Linked
    <3> QED BY <1>1, <1>2, <3>1, <3>2
  <2> QED BY <1>1, <1>2, <2>1, <2>2 DEF Linked
<1>7. Sound(AppendBlock(s, b))
  <2>1. <<>> \in Seq(Tx)
    OBVIOUS
  <2> QED BY <1>2, <1>4, <1>5, <1>6, <2>1 DEF Sound, NodeType
<1>8. Extends(c, d)
  BY <1>1, <1>2 DEF Extends
<1>9. Elems(d) = Elems(c) \cup {b}
  BY <1>1, <1>2, <1>3 DEF Elems
<1> QED BY <1>4, <1>7, <1>8, <1>9

\* A node of known blocks gets to a sound state with known blocks.
Grown(s, t, K) == Sound(t) /\ Elems(t.chain) \subseteq K /\ Extends(s.chain, t.chain)

\* A known block that addExistingBlock does not throw for follows the last one
\* or is the last one.
LEMMA AddKnownBlock ==
    ASSUME NEW K, Known(K), NEW s, Sound(s), Elems(s.chain) \subseteq K,
           NEW b \in K, ~Rejects(s, b)
    PROVE  Grown(s, AddExistingBlock(s, b), K)
<1> DEFINE c == s.chain
           last == Last(c)
<1>1. /\ Len(c) \in Nat /\ last \in K /\ last.number = Len(c) - 1 /\ last.hash \in Hash
  <2>1. Len(c) >= 1 /\ Linked(c)
    BY DEF Sound, Linked
  <2> QED BY <2>1, LinkedBlocks
<1>2. CASE b.number = last.number
  <2>1. AddExistingBlock(s, b) = s
    BY <1>2 DEF AddExistingBlock, Rejects
  <2> QED BY <1>1, <2>1 DEF Grown, Extends
<1>3. CASE b.number # last.number
  <2>1. b.prev = last.hash /\ ValidateTransactions(b.txs)
    BY <1>3 DEF Rejects
  <2>2. b # Root
    BY <1>1, <2>1, RootType, LedgerAssumption
  <2>3. PICK a \in K : a.hash = b.prev /\ b.number = a.number + 1
    BY <2>2 DEF Known
  <2>4. a = last
    BY <1>1, <2>1, <2>3 DEF Known
  <2>5. b.number = Len(c) /\ b \in Block /\ b.hash \in Hash
    BY <1>1, <2>3, <2>4 DEF Known
  <2>6. AddExistingBlock(s, b) = AppendBlock(s, b)
    BY <1>3 DEF AddExistingBlock
  <2> QED BY <2>1, <2>5, <2>6, AppendSound DEF Grown
<1> QED BY <1>2, <1>3

-----------------------------------------------------------------------------
(* The recursive definitions of a chain response *)

\* States that differ from s in their mempool.
SameChain(s) == {t \in NodeType : t.chain = s.chain /\ t.balances = s.balances}

LEMMA AddTransactionKeeps ==
    ASSUME NEW s, NEW t \in SameChain(s), NEW tx \in Tx
    PROVE  AddTransaction(t, tx) \in SameChain(s)
<1>1. t.mempool \in Seq(Tx)
  BY DEF SameChain, NodeType
<1>2. Append(t.mempool, tx) \in Seq(Tx)
  BY <1>1, AppendProperties
<1> QED BY <1>2 DEF AddTransaction, SameChain, NodeType

LEMMA ReturnTransactionsKeeps ==
    ASSUME NEW s, NEW t \in SameChain(s), NEW txs \in Seq(Tx), NEW theirs
    PROVE  ReturnTransactions(t, txs, theirs) \in SameChain(s)
<1> DEFINE n == Len(txs)
           S == SameChain(s)
           OneStep(i, u) == IF txs[i] \in theirs THEN u ELSE AddTransaction(u, txs[i])
           step == [i \in 1 .. n |-> [u \in S |-> OneStep(i, u)]]
           Eq(f) == f = [i \in 0 .. n |-> IF i = 0 THEN t
                           ELSE IF txs[i] \in theirs THEN f[i - 1] ELSE AddTransaction(f[i - 1], txs[i])]
<1>1. n \in Nat /\ \A i \in 1 .. n : txs[i] \in Tx
  BY LenProperties, ElementOfSeq
<1>2. \A i \in 1 .. n : \A u \in S : OneStep(i, u) \in S
  BY <1>1, AddTransactionKeeps
<1>3. step \in Steps(n, S)
  <2> HIDE DEF OneStep, S, n
  <2> QED BY <1>2 DEF Steps
<1>4. \A i \in 0 .. n : i # 0 => i \in 1 .. n /\ i - 1 \in 0 .. n
  BY <1>1
<1>5. 0 \in 0 .. n /\ n \in 0 .. n /\ \A i \in 1 .. n : i \in 0 .. n /\ i # 0
  BY <1>1
<1>6. \A i \in 1 .. n : \A u \in S : step[i][u] = OneStep(i, u)
  OBVIOUS
<1>7. ReturnTransactions(t, txs, theirs) = (CHOOSE f : Eq(f))[n]
  BY DEF ReturnTransactions
<1> HIDE DEF n, S, step
<1>8. ASSUME NEW f, f = [i \in 0 .. n |-> IF i = 0 THEN t ELSE step[i][f[i - 1]]]
      PROVE  f \in Runs(n, S)
  <2>1. f = [i \in 0 .. n |-> f[i]]
    BY <1>8
  <2>2. f[0] = t /\ t \in S
    BY <1>5, <1>8 DEF S
  <2>3. \A i \in 1 .. n : f[i - 1] \in S => f[i] = step[i][f[i - 1]]
    BY <1>5, <1>8
  <2> QED BY <1>1, <1>3, <2>1, <2>2, <2>3, StepsTyped
<1>9. ASSUME NEW f, Eq(f) PROVE f \in Runs(n, S)
  <2>1. f = [i \in 0 .. n |-> f[i]]
    BY <1>9
  <2>2. f[0] = t /\ t \in S
    BY <1>5, <1>9 DEF S
  <2>3. \A i \in 1 .. n : f[i] = OneStep(i, f[i - 1])
    BY <1>5, <1>9
  <2>4. \A i \in 1 .. n : f[i - 1] \in S => f[i] = step[i][f[i - 1]]
    <3> HIDE DEF OneStep
    <3> QED BY <1>6, <2>3
  <2> QED BY <1>1, <1>3, <2>1, <2>2, <2>4, StepsTyped
<1>10. PICK g : Follows(g, n, t, step)
  BY <1>1, <1>3, StepsExist DEF S
<1>11. Eq(g)
  <2>1. g \in [0 .. n -> S]
    BY <1>8, <1>10 DEF Follows, Runs
  <2>2. \A i \in 0 .. n : i # 0 => step[i][g[i - 1]] = OneStep(i, g[i - 1])
    <3> HIDE DEF OneStep
    <3> QED BY <1>4, <1>6, <2>1
  <2> QED BY <1>10, <2>2 DEF Follows
<1>12. PICK after : Eq(after) /\ ReturnTransactions(t, txs, theirs) = after[n]
  <2> HIDE DEF Eq
  <2> QED BY <1>7, <1>11
<1> QED BY <1>5, <1>9, <1>12 DEF Runs, S

LEMMA ReturnToMempoolKeeps ==
    ASSUME NEW s, Sound(s), NEW c
    PROVE  ReturnToMempool(s, c) \in SameChain(s)
<1> DEFINE n == Len(s.chain) - 1
           S == SameChain(s)
           OneStep(i, u) == ReturnTransactions(u, s.chain[i + 1].txs, MinedTxs(c))
           step == [i \in 1 .. n |-> [u \in S |-> OneStep(i, u)]]
           Eq(f) == f = [i \in 0 .. n |-> IF i = 0 THEN s
                           ELSE ReturnTransactions(f[i - 1], s.chain[i + 1].txs, MinedTxs(c))]
<1>0. s \in S
  BY DEF SameChain, Sound
<1>1. n \in Nat /\ \A i \in 1 .. n : s.chain[i + 1].txs \in Seq(Tx)
  <2>1. Linked(s.chain) /\ Len(s.chain) >= 1
    BY DEF Sound, Linked
  <2>2. \A i \in 1 .. Len(s.chain) : s.chain[i] \in Block
    BY <2>1, LinkedBlocks
  <2>3. \A i \in 1 .. n : i + 1 \in 1 .. Len(s.chain)
    BY <2>1, LinkedBlocks
  <2> QED BY <2>1, <2>2, <2>3, LinkedBlocks DEF Block
<1>2. \A i \in 1 .. n : \A u \in S : OneStep(i, u) \in S
  BY <1>1, ReturnTransactionsKeeps
<1>3. step \in Steps(n, S)
  <2> HIDE DEF OneStep, S, n
  <2> QED BY <1>2 DEF Steps
<1>4. \A i \in 0 .. n : i # 0 => i \in 1 .. n /\ i - 1 \in 0 .. n
  BY <1>1
<1>5. 0 \in 0 .. n /\ n \in 0 .. n /\ \A i \in 1 .. n : i \in 0 .. n /\ i # 0
  BY <1>1
<1>6. \A i \in 1 .. n : \A u \in S : step[i][u] = OneStep(i, u)
  OBVIOUS
<1>7. ReturnToMempool(s, c) = (CHOOSE f : Eq(f))[n]
  BY DEF ReturnToMempool
<1> HIDE DEF n, S, step
<1>8. ASSUME NEW f, f = [i \in 0 .. n |-> IF i = 0 THEN s ELSE step[i][f[i - 1]]]
      PROVE  f \in Runs(n, S)
  <2>1. f = [i \in 0 .. n |-> f[i]]
    BY <1>8
  <2>2. f[0] = s
    BY <1>5, <1>8
  <2>3. \A i \in 1 .. n : f[i - 1] \in S => f[i] = step[i][f[i - 1]]
    BY <1>5, <1>8
  <2> QED BY <1>0, <1>1, <1>3, <2>1, <2>2, <2>3, StepsTyped
<1>9. ASSUME NEW f, Eq(f) PROVE f \in Runs(n, S)
  <2>1. f = [i \in 0 .. n |-> f[i]]
    BY <1>9
  <2>2. f[0] = s
    BY <1>5, <1>9
  <2>3. \A i \in 1 .. n : f[i] = OneStep(i, f[i - 1])
    BY <1>5, <1>9
  <2>4. \A i \in 1 .. n : f[i - 1] \in S => f[i] = step[i][f[i - 1]]
    <3> HIDE DEF OneStep
    <3> QED BY <1>6, <2>3
  <2> QED BY <1>0, <1>1, <1>3, <2>1, <2>2, <2>4, StepsTyped
<1>10. PICK g : Follows(g, n, s, step)
  BY <1>0, <1>1, <1>3, StepsExist
<1>11. Eq(g)
  <2>1. g \in [0 .. n -> S]
    BY <1>8, <1>10 DEF Follows, Runs
  <2>2. \A i \in 0 .. n : i # 0 => step[i][g[i - 1]] = OneStep(i, g[i - 1])
    <3> HIDE DEF OneStep
    <3> QED BY <1>4, <1>6, <2>1
  <2> QED BY <1>10, <2>2 DEF Follows
<1>12. PICK after : Eq(after) /\ ReturnToMempool(s, c) = after[n]
  <2> HIDE DEF Eq
  <2> QED BY <1>7, <1>11
<1> QED BY <1>5, <1>9, <1>12 DEF Runs, S

\* The states TakeBlocks goes through.
Taking(s, K) == {u \in [state : NodeType, thrown : BOOLEAN] : Grown(s, u.state, K)}

LEMMA ExtendsItself == ASSUME NEW s, Sound(s) PROVE Extends(s.chain, s.chain)
BY LinkedBlocks DEF Sound, Extends

LEMMA ExtendsOn ==
    ASSUME NEW s, Sound(s), NEW t, Sound(t), NEW u, Sound(u),
           Extends(s.chain, t.chain), Extends(t.chain, u.chain)
    PROVE  Extends(s.chain, u.chain)
<1>1. Len(s.chain) \in Nat /\ Len(t.chain) \in Nat /\ Len(u.chain) \in Nat
  BY LinkedBlocks DEF Sound
<1> QED BY <1>1 DEF Extends

LEMMA TakeBlocksGrows ==
    ASSUME NEW K, Known(K), NEW s, Sound(s), Elems(s.chain) \subseteq K,
           NEW c \in Seq(K), c # <<>>
    PROVE  Grown(s, TakeBlocks(s, c), K)
<1> DEFINE n == Len(c) - 1
           S == Taking(s, K)
           s0 == [state |-> s, thrown |-> FALSE]
           OneStep(i, u) == IF u.thrown \/ Rejects(u.state, c[i + 1]) THEN [u EXCEPT !.thrown = TRUE]
                            ELSE [state |-> AddExistingBlock(u.state, c[i + 1]), thrown |-> FALSE]
           step == [i \in 1 .. n |-> [u \in S |-> OneStep(i, u)]]
           Eq(f) == f = [i \in 0 .. n |-> IF i = 0 THEN [state |-> s, thrown |-> FALSE]
                           ELSE IF f[i - 1].thrown \/ Rejects(f[i - 1].state, c[i + 1])
                                THEN [f[i - 1] EXCEPT !.thrown = TRUE]
                                ELSE [state |-> AddExistingBlock(f[i - 1].state, c[i + 1]), thrown |-> FALSE]]
<1>0. s0 \in S
  <2>1. Grown(s, s, K) /\ s \in NodeType
    BY ExtendsItself DEF Grown, Sound
  <2> QED BY <2>1 DEF Taking
<1>1. n \in Nat /\ \A i \in 1 .. n : c[i + 1] \in K
  <2>1. Len(c) \in Nat /\ Len(c) # 0 /\ \A i \in 1 .. Len(c) : c[i] \in K
    BY LenProperties, ElementOfSeq, EmptySeq
  <2> QED BY <2>1
<1>2. ASSUME NEW i \in 1 .. n, NEW u \in S PROVE OneStep(i, u) \in S
  <2>1. u.state \in NodeType /\ u.thrown \in BOOLEAN /\ Grown(s, u.state, K)
        /\ u = [state |-> u.state, thrown |-> u.thrown]
    BY DEF Taking
  <2>2. CASE u.thrown \/ Rejects(u.state, c[i + 1])
    <3>1. OneStep(i, u) = [state |-> u.state, thrown |-> TRUE]
      BY <2>1, <2>2
    <3> QED BY <2>1, <3>1 DEF Taking
  <2>3. CASE ~(u.thrown \/ Rejects(u.state, c[i + 1]))
    <3> DEFINE v == AddExistingBlock(u.state, c[i + 1])
    <3>1. Grown(u.state, v, K)
      BY <1>1, <2>1, <2>3, AddKnownBlock DEF Grown
    <3>2. v \in NodeType /\ Grown(s, v, K)
      <4> HIDE DEF v
      <4> QED BY <2>1, <3>1, ExtendsOn DEF Grown, Sound
    <3>3. OneStep(i, u) = [state |-> v, thrown |-> FALSE]
      BY <2>3
    <3> HIDE DEF v, OneStep
    <3> QED BY <3>2, <3>3 DEF Taking
  <2> QED BY <2>2, <2>3
<1>3. step \in Steps(n, S)
  <2> HIDE DEF OneStep, S, n
  <2> QED BY <1>2 DEF Steps
<1>4. \A i \in 0 .. n : i # 0 => i \in 1 .. n /\ i - 1 \in 0 .. n
  BY <1>1
<1>5. 0 \in 0 .. n /\ n \in 0 .. n /\ \A i \in 1 .. n : i \in 0 .. n /\ i # 0
  BY <1>1
<1>6. \A i \in 1 .. n : \A u \in S : step[i][u] = OneStep(i, u)
  OBVIOUS
<1>7. TakeBlocks(s, c) = (CHOOSE f : Eq(f))[n].state
  BY DEF TakeBlocks
<1> HIDE DEF n, S, step, s0
<1>8. ASSUME NEW f, f = [i \in 0 .. n |-> IF i = 0 THEN s0 ELSE step[i][f[i - 1]]]
      PROVE  f \in Runs(n, S)
  <2>1. f = [i \in 0 .. n |-> f[i]]
    BY <1>8
  <2>2. f[0] = s0
    BY <1>5, <1>8
  <2>3. \A i \in 1 .. n : f[i - 1] \in S => f[i] = step[i][f[i - 1]]
    BY <1>5, <1>8
  <2> QED BY <1>0, <1>1, <1>3, <2>1, <2>2, <2>3, StepsTyped
<1>9. ASSUME NEW f, Eq(f) PROVE f \in Runs(n, S)
  <2>1. f = [i \in 0 .. n |-> f[i]]
    BY <1>9
  <2>2. f[0] = s0
    BY <1>5, <1>9 DEF s0
  <2>3. \A i \in 1 .. n : f[i] = OneStep(i, f[i - 1])
    BY <1>5, <1>9
  <2>4. \A i \in 1 .. n : f[i - 1] \in S => f[i] = step[i][f[i - 1]]
    <3> HIDE DEF OneStep
    <3> QED BY <1>6, <2>3
  <2> QED BY <1>0, <1>1, <1>3, <2>1, <2>2, <2>4, StepsTyped
<1>10. PICK g : Follows(g, n, s0, step)
  BY <1>0, <1>1, <1>3, StepsExist
<1>11. Eq(g)
  <2>1. g \in [0 .. n -> S]
    BY <1>8, <1>10 DEF Follows, Runs
  <2>2. \A i \in 0 .. n : i # 0 => step[i][g[i - 1]] = OneStep(i, g[i - 1])
    <3> HIDE DEF OneStep
    <3> QED BY <1>4, <1>6, <2>1
  <2> QED BY <1>10, <2>2 DEF Follows, s0
<1>12. PICK take : Eq(take) /\ TakeBlocks(s, c) = take[n].state
  <2> HIDE DEF Eq
  <2> QED BY <1>7, <1>11
<1>13. take[n] \in S
  BY <1>5, <1>9, <1>12 DEF Runs
<1> QED BY <1>12, <1>13 DEF Taking, S

LEMMA SameChainGrown ==
    ASSUME NEW K, NEW s, Sound(s), Elems(s.chain) \subseteq K, NEW t \in SameChain(s)
    PROVE  Sound(t) /\ Grown(s, t, K)
<1>1. t \in NodeType /\ t.chain = s.chain /\ t.balances = s.balances
  BY DEF SameChain
<1>2. Sound(t)
  BY <1>1 DEF Sound
<1> QED BY <1>1, <1>2, ExtendsItself DEF Grown

-----------------------------------------------------------------------------
(* Messages *)

\* What nodes send each other when K are the blocks that have been mined.
Sent(K) ==
    [type : {"BLOCK"}, block : K] \cup [type : {"TRANSACTION"}, tx : Tx]
      \cup [type : {"CHAIN_REQUEST"}]
      \cup [type : {"CHAIN_RESPONSE"}, chain : Seq(K), genesisDifficulty : 1 .. 8]

ChannelsOK(ch, on, K) ==
    /\ ch \in [Pairs -> Seq(Sent(K))]
    /\ \A p \in Pairs \ on : ch[p] = <<>>

LEMMA SeqMore ==
    ASSUME NEW K, NEW L, K \subseteq L PROVE Seq(K) \subseteq Seq(L)
<1> SUFFICES ASSUME NEW c \in Seq(K) PROVE c \in Seq(L)
  OBVIOUS
<1>1. Len(c) \in Nat /\ c = [i \in 1 .. Len(c) |-> c[i]] /\ \A i \in 1 .. Len(c) : c[i] \in L
  BY LenProperties, ElementOfSeq
<1> QED BY <1>1, IsASeq

LEMMA SentMore ==
    ASSUME NEW K, NEW L, K \subseteq L PROVE Sent(K) \subseteq Sent(L)
<1>1. Seq(K) \subseteq Seq(L)
  BY SeqMore
<1> QED BY <1>1 DEF Sent

LEMMA SentFields ==
    ASSUME NEW K, NEW msg \in Sent(K)
    PROVE  /\ msg.type = "BLOCK" => msg.block \in K
           /\ msg.type = "TRANSACTION" => msg.tx \in Tx
           /\ msg.type = "CHAIN_RESPONSE" => msg.chain \in Seq(K)
BY DEF Sent

LEMMA ChannelsMore ==
    ASSUME NEW K, NEW L, K \subseteq L, NEW on, NEW ch, ChannelsOK(ch, on, K)
    PROVE  ChannelsOK(ch, on, L)
<1>1. Seq(Sent(K)) \subseteq Seq(Sent(L))
  BY SentMore, SeqMore
<1> QED BY <1>1 DEF ChannelsOK

LEMMA BroadcastKeeps ==
    ASSUME NEW K, NEW ch, ChannelsOK(ch, links, K), NEW n, NEW Not, NEW msg \in Sent(K)
    PROVE  ChannelsOK(Broadcast(ch, n, Not, msg), links, K)
<1>1. \A p \in Pairs : ch[p] \in Seq(Sent(K)) /\ Append(ch[p], msg) \in Seq(Sent(K))
  BY AppendProperties DEF ChannelsOK
<1> QED BY <1>1 DEF ChannelsOK, Broadcast

LEMMA ReadKeeps ==
    ASSUME NEW K, ChannelsOK(channel, links, K), NEW m, NEW n, NEW type, Waiting(m, n, type)
    PROVE  /\ ChannelsOK(Read(m, n), links, K)
           /\ Message(m, n) \in Sent(K) /\ Message(m, n).type = type
<1> DEFINE q == <<m, n>>
<1>1. q \in Pairs /\ channel[q] \in Seq(Sent(K)) /\ channel[q] # <<>> /\ q \in links
  BY DEF Waiting, ChannelsOK
<1>2. Head(channel[q]) \in Sent(K) /\ Tail(channel[q]) \in Seq(Sent(K))
  BY <1>1, HeadTailProperties
<1>3. channel \in [Pairs -> Seq(Sent(K))] /\ \A p \in Pairs \ links : channel[p] = <<>>
  BY DEF ChannelsOK
<1>4. Read(m, n) \in [Pairs -> Seq(Sent(K))]
  BY <1>1, <1>2, <1>3 DEF Read
<1>5. \A p \in Pairs \ links : Read(m, n)[p] = <<>>
  BY <1>1, <1>3 DEF Read
<1> QED BY <1>2, <1>4, <1>5 DEF ChannelsOK, Message, Waiting

-----------------------------------------------------------------------------
(* The inductive invariant *)

\* The blocks that are on the chain of a node.
Mined == UNION {Elems(node[n].chain) : n \in Node}

NodesSound ==
    /\ node \in [Node -> NodeType]
    /\ \A n \in Node : Sound(node[n])
    /\ Known(Mined)

NetInv ==
    /\ NodesSound
    /\ failed \in [Node -> 0 .. FailedLimit - 1]
    /\ links \subseteq peers /\ peers \subseteq Pairs
    /\ ChannelsOK(channel, links, Mined)

Extended == \A n \in Node : Extends(node[n].chain, node'[n].chain)

LEMMA NetInit == Init => NetInv
<1> SUFFICES ASSUME Init PROVE NetInv
  OBVIOUS
<1>1. Len(<<Root>>) = 1 /\ <<Root>>[1] = Root /\ <<Root>> \in Seq(Block) /\ DOMAIN <<Root>> = {1}
      /\ <<>> \in Seq(Tx)
  BY RootType
<1>2. NodeInit = [chain |-> <<Root>>, mempool |-> <<>>, balances |-> Zero]
  BY DEF NodeInit, Root, Zero
<1>3. GenesisTime \in Times
  BY LedgerAssumption DEF GenesisTime
<1>4. Rebuild(<<Root>>) = Zero
  BY <1>3, RebuildGenesis DEF Root
<1>5. Sound(NodeInit) /\ Elems(NodeInit.chain) = {Root}
  <2>1. Linked(<<Root>>)
    BY <1>1 DEF Linked
  <2>2. Elems(<<Root>>) = {Root}
    BY <1>1 DEF Elems
  <2> QED BY <1>1, <1>2, <1>4, <2>1, <2>2, ZeroType DEF Sound, NodeType
<1>6. Mined \subseteq {Root}
  BY <1>5 DEF Mined, Init
<1>7. Known(Mined)
  BY <1>6, RootType DEF Known
<1>8. NodesSound
  BY <1>5, <1>7 DEF NodesSound, Init, Sound
<1>9. ChannelsOK(channel, links, Mined)
  BY EmptySeq DEF ChannelsOK, Init
<1> QED BY <1>8, <1>9, NetworkAssumption DEF NetInv, Init

\* A node that reaches t.
LEMMA NodeReaches ==
    ASSUME NodesSound, NEW n \in Node, NEW t, NEW K, Known(K), Mined \subseteq K,
           K \subseteq Mined \cup Elems(t.chain),
           Grown(node[n], t, K), node' = [node EXCEPT ![n] = t]
    PROVE  NodesSound' /\ Mined' = K /\ Extended
<1>1. t \in NodeType /\ Sound(t) /\ Elems(t.chain) \subseteq K /\ Extends(node[n].chain, t.chain)
  BY DEF Grown, Sound
<1>2. node' \in [Node -> NodeType] /\ node'[n] = t /\ \A k \in Node : k # n => node'[k] = node[k]
  BY <1>1 DEF NodesSound
<1>3. Elems(node[n].chain) \subseteq Elems(t.chain)
  <2>1. /\ Len(node[n].chain) \in Nat /\ DOMAIN node[n].chain = 1 .. Len(node[n].chain)
        /\ Len(t.chain) \in Nat /\ DOMAIN t.chain = 1 .. Len(t.chain)
    BY <1>1, LinkedBlocks DEF NodesSound, Sound
  <2> QED BY <1>1, <2>1 DEF Extends, Elems
<1>4. Mined' = K
  <2>1. Mined' = UNION {Elems(node'[k].chain) : k \in Node}
    BY DEF Mined
  <2>2. \A k \in Node : Elems(node'[k].chain) \subseteq K
    BY <1>1, <1>2 DEF Mined
  <2>3. Elems(t.chain) \subseteq Mined'
    BY <1>2, <2>1
  <2>4. Mined \subseteq Mined'
    BY <1>2, <1>3, <2>1, <2>3 DEF Mined
  <2> QED BY <2>1, <2>2, <2>3, <2>4
<1>5. \A k \in Node : Sound(node'[k])
  BY <1>1, <1>2 DEF NodesSound
<1>6. Extended
  BY <1>1, <1>2, ExtendsItself DEF NodesSound, Extended
<1>7. NodesSound'
  BY <1>2, <1>4, <1>5 DEF NodesSound
<1> QED BY <1>4, <1>6, <1>7

LEMMA NodesStay ==
    ASSUME NodesSound, node' = node
    PROVE  NodesSound' /\ Mined' = Mined /\ Extended
<1>1. Mined' = Mined
  BY DEF Mined
<1>2. Extended
  BY ExtendsItself DEF NodesSound, Extended
<1> QED BY <1>1, <1>2 DEF NodesSound

LEMMA ChainsMined ==
    ASSUME NEW n \in Node PROVE Elems(node[n].chain) \subseteq Mined
BY DEF Mined

-----------------------------------------------------------------------------
(* One step of each action *)

LEMMA FreshBlock ==
    ASSUME NodesSound, NEW n \in FullNodes, NEW h \in FreshHash, NEW now \in Times,
           NEW b, b = [number |-> Len(node[n].chain), prev |-> Last(node[n].chain).hash, hash |-> h,
                       txs |-> Append(node[n].mempool, Coinbase(n, now))],
           ValidateTransactions(b.txs)
    PROVE  /\ Known(Mined \cup {b})
           /\ Grown(node[n], AppendBlock(node[n], b), Mined \cup {b})
           /\ b \in Elems(AppendBlock(node[n], b).chain)
<1> DEFINE s == node[n]
<1>1. n \in Node /\ n \in Addr
  BY NetworkAssumption
<1>2. Sound(s) /\ s \in NodeType /\ Linked(s.chain)
  BY <1>1 DEF NodesSound, Sound
<1>3. Last(s.chain) \in Mined /\ Last(s.chain).number = Len(s.chain) - 1
      /\ Last(s.chain).hash \in Hash /\ Len(s.chain) \in Nat
  <2>1. Len(s.chain) >= 1
    BY <1>2 DEF Linked
  <2> QED BY <1>1, <1>2, <2>1, LinkedBlocks, ChainsMined
<1>4. Coinbase(n, now) \in Tx
  BY <1>1, LedgerAssumption DEF Coinbase, Tx, Party
<1>5. b \in Block
  <2>1. Append(s.mempool, Coinbase(n, now)) \in Seq(Tx)
    BY <1>2, <1>4, AppendProperties DEF NodeType
  <2> QED BY <1>3, <2>1 DEF Block, FreshHash
<1>6. h \in Hash /\ \A a \in Mined : a.hash # h
  <2>1. h \in Hash /\ \A k \in Node : h \notin Hashes(node[k].chain)
    BY DEF FreshHash
  <2> QED BY <2>1 DEF Mined, Elems, Hashes
<1>7. Known(Mined \cup {b})
  <2>1. Known(Mined)
    BY DEF NodesSound
  <2>2. b.hash = h /\ b.prev = Last(s.chain).hash /\ b.number = Last(s.chain).number + 1
    BY <1>3
  <2>3. \A a, c \in Mined \cup {b} : a.hash = c.hash => a = c
    <3>1. b.hash = h /\ \A a \in Mined : a.hash # b.hash
      BY <1>6, <2>2
    <3>2. \A a, c \in Mined : a.hash = c.hash => a = c
      BY <2>1 DEF Known
    <3> QED BY <3>1, <3>2
  <2>4. \A a \in Mined \cup {b} : a = Root \/ \E c \in Mined \cup {b} : c.hash = a.prev /\ a.number = c.number + 1
    BY <1>3, <2>1, <2>2 DEF Known
  <2> QED BY <1>5, <1>6, <2>1, <2>2, <2>3, <2>4 DEF Known
<1>8. /\ Sound(AppendBlock(s, b)) /\ Extends(s.chain, AppendBlock(s, b).chain)
      /\ Elems(AppendBlock(s, b).chain) = Elems(s.chain) \cup {b}
  <2>1. b.number = Len(s.chain) /\ b.prev = Last(s.chain).hash /\ b.hash \in Hash
    BY <1>6
  <2> QED BY <1>2, <1>5, <2>1, AppendSound
<1> QED BY <1>1, <1>7, <1>8, ChainsMined DEF Grown

LEMMA MineBlockStep ==
    ASSUME NetInv, NEW n \in Node, MineBlock(n)
    PROVE  NetInv' /\ Extended
<1>1. PICK h \in FreshHash, now \in Times :
        LET b == [number |-> Len(node[n].chain), prev |-> Last(node[n].chain).hash, hash |-> h,
                  txs |-> Append(node[n].mempool, Coinbase(n, now))]
        IN  /\ ValidateTransactions(b.txs)
            /\ node' = [node EXCEPT ![n] = AppendBlock(node[n], b)]
            /\ channel' = Broadcast(channel, n, {}, BlockMsg(b))
  BY DEF MineBlock
<1> DEFINE b == [number |-> Len(node[n].chain), prev |-> Last(node[n].chain).hash, hash |-> h,
                 txs |-> Append(node[n].mempool, Coinbase(n, now))]
           K == Mined \cup {b}
           t == AppendBlock(node[n], b)
<1>2. n \in FullNodes /\ UNCHANGED <<failed, peers, links>>
  BY DEF MineBlock
<1>3. /\ ValidateTransactions(b.txs)
      /\ node' = [node EXCEPT ![n] = t]
      /\ channel' = Broadcast(channel, n, {}, BlockMsg(b))
  BY <1>1
<1>4. Known(K) /\ Grown(node[n], t, K) /\ b \in Elems(t.chain)
  <2>1. NodesSound
    BY DEF NetInv
  <2>2. b = [number |-> Len(node[n].chain), prev |-> Last(node[n].chain).hash, hash |-> h,
             txs |-> Append(node[n].mempool, Coinbase(n, now))]
    OBVIOUS
  <2> HIDE DEF b
  <2> QED BY <1>2, <1>3, <2>1, <2>2, FreshBlock
<1> HIDE DEF b
<1>5. Mined \subseteq K /\ K \subseteq Mined \cup Elems(t.chain) /\ b \in K
  BY <1>4
<1> HIDE DEF K, t
<1>6. NodesSound' /\ Mined' = K /\ Extended
  BY <1>3, <1>4, <1>5, NodeReaches DEF NetInv
<1>7. ChannelsOK(channel', links, K)
  <2>1. ChannelsOK(channel, links, K)
    BY <1>5, ChannelsMore DEF NetInv
  <2>2. BlockMsg(b) \in Sent(K)
    BY <1>5 DEF BlockMsg, Sent
  <2> QED BY <1>3, <2>1, <2>2, BroadcastKeeps
<1> QED BY <1>2, <1>6, <1>7 DEF NetInv

\* What a node does with a transaction.
LEMMA TransactionStep ==
    ASSUME NodesSound, NEW n \in Node, NEW tx \in Tx, node' = [node EXCEPT ![n] = AddTransaction(@, tx)]
    PROVE  NodesSound' /\ Mined' = Mined /\ Extended
<1> DEFINE s == node[n]
           t == AddTransaction(s, tx)
<1>1. Sound(s) /\ s \in SameChain(s) /\ Elems(s.chain) \subseteq Mined /\ Known(Mined)
  BY ChainsMined DEF NodesSound, SameChain, Sound
<1>2. t \in SameChain(s)
  BY <1>1, AddTransactionKeeps
<1>3. node' = [node EXCEPT ![n] = t]
  OBVIOUS
<1> HIDE DEF t
<1>4. Grown(s, t, Mined)
  BY <1>1, <1>2, SameChainGrown
<1> QED BY <1>1, <1>3, <1>4, NodeReaches

LEMMA SendMoneyStep ==
    ASSUME NetInv, NEW n \in Node, NEW to \in Receivers, NEW amount \in Amounts, SendMoney(n, to, amount)
    PROVE  NetInv' /\ Extended
<1>1. PICK now \in Times :
        /\ node' = [node EXCEPT ![n] = AddTransaction(@, Transfer(n, to, amount, now))]
        /\ channel' = Broadcast(channel, n, {}, TxMsg(Transfer(n, to, amount, now)))
  BY DEF SendMoney
<1>2. Transfer(n, to, amount, now) \in Tx
  BY NetworkAssumption DEF Transfer, Tx, Party
<1>3. NodesSound' /\ Mined' = Mined /\ Extended
  BY <1>1, <1>2, TransactionStep DEF NetInv
<1>4. ChannelsOK(channel', links, Mined)
  <2>1. TxMsg(Transfer(n, to, amount, now)) \in Sent(Mined)
    BY <1>2 DEF TxMsg, Sent
  <2> QED BY <1>1, <2>1, BroadcastKeeps DEF NetInv
<1> QED BY <1>3, <1>4 DEF NetInv, SendMoney

LEMMA RequestSent == \A K : ChainRequest \in Sent(K)
BY DEF ChainRequest, Sent

LEMMA RequestBlockchainStep ==
    ASSUME NetInv, NEW n \in Node, RequestBlockchain(n)
    PROVE  NetInv' /\ Extended
<1>1. NodesSound' /\ Mined' = Mined /\ Extended
  BY NodesStay DEF NetInv, RequestBlockchain
<1>2. ChannelsOK(channel', links, Mined)
  BY RequestSent, BroadcastKeeps DEF NetInv, RequestBlockchain
<1> QED BY <1>1, <1>2 DEF NetInv, RequestBlockchain

LEMMA ConnectStep ==
    ASSUME NetInv, NEW n, NEW m, ConnectToPeer(n, m)
    PROVE  NetInv' /\ Extended
<1>1. NodesSound' /\ Mined' = Mined /\ Extended
  BY NodesStay DEF NetInv, ConnectToPeer
<1>2. <<n, m>> \in Pairs /\ <<m, n>> \in Pairs
  BY DEF ConnectToPeer, Pairs
<1>3. ChannelsOK(channel, links', Mined)
  BY DEF NetInv, ChannelsOK, ConnectToPeer
<1> QED BY <1>1, <1>2, <1>3 DEF NetInv, ConnectToPeer

LEMMA BreakStep ==
    ASSUME NetInv, NEW n, NEW m, Break(n, m)
    PROVE  NetInv' /\ Extended
<1>1. NodesSound' /\ Mined' = Mined /\ Extended
  BY NodesStay DEF NetInv, Break
<1>2. <<>> \in Seq(Sent(Mined))
  BY EmptySeq
<1>3. ChannelsOK(channel', links', Mined)
  BY <1>2 DEF NetInv, ChannelsOK, Break
<1> QED BY <1>1, <1>3 DEF NetInv, Break

LEMMA ReceiveTransactionStep ==
    ASSUME NetInv, NEW m, NEW n, ReceiveTransaction(m, n)
    PROVE  NetInv' /\ Extended
<1> DEFINE tx == Message(m, n).tx
<1>1. n \in Node /\ Waiting(m, n, "TRANSACTION")
  BY DEF ReceiveTransaction, Waiting, Pairs
<1>2. ChannelsOK(Read(m, n), links, Mined) /\ tx \in Tx
  BY <1>1, ReadKeeps, SentFields DEF NetInv
<1>3. CASE node' = [node EXCEPT ![n] = AddTransaction(@, tx)] /\ channel' = Broadcast(Read(m, n), n, {m}, TxMsg(tx))
  <2>1. NodesSound' /\ Mined' = Mined /\ Extended
    <3> HIDE DEF tx
    <3> QED BY <1>1, <1>2, <1>3, TransactionStep DEF NetInv
  <2>2. ChannelsOK(channel', links, Mined)
    <3>1. TxMsg(tx) \in Sent(Mined)
      BY <1>2 DEF TxMsg, Sent
    <3> HIDE DEF tx
    <3> QED BY <1>2, <1>3, <3>1, BroadcastKeeps
  <2> QED BY <2>1, <2>2 DEF NetInv, ReceiveTransaction
<1>4. CASE channel' = Read(m, n) /\ node' = node
  <2>1. NodesSound' /\ Mined' = Mined /\ Extended
    BY <1>4, NodesStay DEF NetInv
  <2> QED BY <1>2, <1>4, <2>1 DEF NetInv, ReceiveTransaction
<1> QED BY <1>3, <1>4 DEF ReceiveTransaction

LEMMA ReceiveKnownBlockStep ==
    ASSUME NetInv, NEW m, NEW n, ReceiveKnownBlock(m, n)
    PROVE  NetInv' /\ Extended
<1>1. NodesSound' /\ Mined' = Mined /\ Extended
  BY NodesStay DEF NetInv, ReceiveKnownBlock
<1>2. ChannelsOK(channel', links, Mined)
  BY ReadKeeps DEF NetInv, ReceiveKnownBlock
<1> QED BY <1>1, <1>2 DEF NetInv, ReceiveKnownBlock

LEMMA ReceiveBlockStep ==
    ASSUME NetInv, NEW m, NEW n, ReceiveBlock(m, n)
    PROVE  NetInv' /\ Extended
<1> DEFINE b == Message(m, n).block
           t == AddExistingBlock(node[n], b)
<1>1. n \in Node /\ Waiting(m, n, "BLOCK") /\ ~Rejects(node[n], b)
  BY DEF ReceiveBlock, Waiting, Pairs
<1>2. node' = [node EXCEPT ![n] = t] /\ channel' = Broadcast(Read(m, n), n, {m}, BlockMsg(b))
  BY DEF ReceiveBlock
<1>3. ChannelsOK(Read(m, n), links, Mined) /\ b \in Mined
  BY <1>1, ReadKeeps, SentFields DEF NetInv
<1>4. Sound(node[n]) /\ Elems(node[n].chain) \subseteq Mined /\ Known(Mined) /\ NodesSound
  BY <1>1, ChainsMined DEF NetInv, NodesSound
<1> HIDE DEF b
<1>5. Grown(node[n], t, Mined)
  BY <1>1, <1>3, <1>4, AddKnownBlock
<1> HIDE DEF t
<1>6. NodesSound' /\ Mined' = Mined /\ Extended
  BY <1>1, <1>2, <1>4, <1>5, NodeReaches
<1>7. ChannelsOK(channel', links, Mined)
  <2>1. BlockMsg(b) \in Sent(Mined)
    BY <1>3 DEF BlockMsg, Sent
  <2> QED BY <1>2, <1>3, <2>1, BroadcastKeeps
<1> QED BY <1>6, <1>7 DEF NetInv, ReceiveBlock

LEMMA RejectBlockStep ==
    ASSUME NetInv, NEW m, NEW n, RejectBlock(m, n)
    PROVE  NetInv' /\ Extended
<1> DEFINE b == Message(m, n).block
           ask == failed[n] + 1 >= FailedLimit
           asked == IF ask THEN Broadcast(Read(m, n), n, {}, ChainRequest) ELSE Read(m, n)
<1>1. n \in Node /\ Waiting(m, n, "BLOCK")
  BY DEF RejectBlock, Waiting, Pairs
<1>2. /\ failed' = [failed EXCEPT ![n] = IF ask THEN 0 ELSE @ + 1]
      /\ channel' = Broadcast(asked, n, {m}, BlockMsg(b))
  BY DEF RejectBlock
<1>3. ChannelsOK(Read(m, n), links, Mined) /\ b \in Mined
  BY <1>1, ReadKeeps, SentFields DEF NetInv
<1>4. NodesSound' /\ Mined' = Mined /\ Extended
  BY NodesStay DEF NetInv, RejectBlock
<1>5. failed' \in [Node -> 0 .. FailedLimit - 1]
  <2>1. failed \in [Node -> 0 .. FailedLimit - 1] /\ FailedLimit \in Nat \ {0}
    BY NetworkAssumption DEF NetInv
  <2>2. (IF ask THEN 0 ELSE failed[n] + 1) \in 0 .. FailedLimit - 1
    BY <1>1, <2>1
  <2> HIDE DEF ask
  <2> QED BY <1>1, <1>2, <2>1, <2>2
<1>6. ChannelsOK(channel', links, Mined)
  <2>1. BlockMsg(b) \in Sent(Mined)
    BY <1>3 DEF BlockMsg, Sent
  <2>2. ChannelsOK(asked, links, Mined)
    <3>1. ChannelsOK(Broadcast(Read(m, n), n, {}, ChainRequest), links, Mined)
      BY <1>3, RequestSent, BroadcastKeeps
    <3> QED BY <1>3, <3>1
  <2> HIDE DEF b, asked
  <2> QED BY <1>2, <2>1, <2>2, BroadcastKeeps
<1> QED BY <1>4, <1>5, <1>6 DEF NetInv, RejectBlock

LEMMA ReceiveRequestStep ==
    ASSUME NetInv, NEW m, NEW n, ReceiveRequest(m, n)
    PROVE  NetInv' /\ Extended
<1> DEFINE q == <<n, m>>
           ch == Read(m, n)
<1>1. n \in Node /\ Waiting(m, n, "CHAIN_REQUEST")
  BY DEF ReceiveRequest, Waiting, Pairs
<1>2. ChannelsOK(ch, links, Mined)
  BY <1>1, ReadKeeps DEF NetInv
<1>3. NodesSound' /\ Mined' = Mined /\ Extended
  BY NodesStay DEF NetInv, ReceiveRequest
<1>4. ChainResponse(n) \in Sent(Mined)
  <2>1. Linked(node[n].chain)
    BY <1>1 DEF NetInv, NodesSound, Sound
  <2>2. node[n].chain \in Seq(Block) /\ \A i \in 1 .. Len(node[n].chain) : node[n].chain[i] \in Elems(node[n].chain)
    BY <2>1, LinkedBlocks DEF Linked, Elems
  <2>3. \A i \in 1 .. Len(node[n].chain) : node[n].chain[i] \in Mined
    BY <1>1, <2>2, ChainsMined
  <2>4. node[n].chain \in Seq(Mined)
    <3>1. Len(node[n].chain) \in Nat /\ node[n].chain = [i \in 1 .. Len(node[n].chain) |-> node[n].chain[i]]
      BY <2>2, LenProperties
    <3> QED BY <2>3, <3>1, IsASeq
  <2>5. Difficulty[n] \in 1 .. 8
    BY <1>1, NetworkAssumption
  <2> QED BY <2>4, <2>5 DEF ChainResponse, Sent
<1>5. CASE channel' = ch
  BY <1>2, <1>3, <1>5 DEF NetInv, ReceiveRequest
<1>6. CASE q \in links /\ channel' = [ch EXCEPT ![q] = Append(@, ChainResponse(n))]
  <2> HIDE DEF ch, q
  <2>1. ch \in [Pairs -> Seq(Sent(Mined))] /\ q \in Pairs /\ \A p \in Pairs \ links : ch[p] = <<>>
    BY <1>2, <1>6 DEF ChannelsOK, NetInv
  <2>2. Append(ch[q], ChainResponse(n)) \in Seq(Sent(Mined))
    BY <1>4, <2>1, AppendProperties
  <2>3. ChannelsOK(channel', links, Mined)
    BY <1>6, <2>1, <2>2 DEF ChannelsOK
  <2> QED BY <1>3, <2>3 DEF NetInv, ReceiveRequest
<1> QED BY <1>5, <1>6 DEF ReceiveRequest

LEMMA KeepChainStep ==
    ASSUME NetInv, NEW m, NEW n, KeepChain(m, n)
    PROVE  NetInv' /\ Extended
<1>1. NodesSound' /\ Mined' = Mined /\ Extended
  BY NodesStay DEF NetInv, KeepChain
<1>2. ChannelsOK(channel', links, Mined)
  BY ReadKeeps DEF NetInv, KeepChain
<1> QED BY <1>1, <1>2 DEF NetInv, KeepChain

LEMMA AdoptChainStep ==
    ASSUME NetInv, NEW m, NEW n, AdoptChain(m, n)
    PROVE  NetInv' /\ Extended
<1> DEFINE c == Message(m, n).chain
           s == node[n]
           r == ReturnToMempool(s, c)
           t == TakeBlocks(r, c)
<1>1. n \in Node /\ Waiting(m, n, "CHAIN_RESPONSE") /\ c # <<>>
  BY DEF AdoptChain, Waiting, Pairs, MoreWork, ValidResponse
<1>2. node' = [node EXCEPT ![n] = t] /\ channel' = Read(m, n)
  BY DEF AdoptChain
<1>3. ChannelsOK(Read(m, n), links, Mined) /\ c \in Seq(Mined)
  BY <1>1, ReadKeeps, SentFields DEF NetInv
<1> HIDE DEF c
<1>4. Sound(s) /\ Elems(s.chain) \subseteq Mined /\ Known(Mined) /\ NodesSound
  BY <1>1, ChainsMined DEF NetInv, NodesSound
<1>5. r \in SameChain(s)
  BY <1>4, ReturnToMempoolKeeps
<1> HIDE DEF r
<1>6. Sound(r) /\ r.chain = s.chain
  BY <1>4, <1>5, SameChainGrown DEF SameChain
<1>7. Grown(r, t, Mined)
  BY <1>1, <1>3, <1>4, <1>6, TakeBlocksGrows
<1> HIDE DEF t
<1>8. Grown(s, t, Mined)
  BY <1>6, <1>7 DEF Grown
<1>9. NodesSound' /\ Mined' = Mined /\ Extended
  BY <1>1, <1>2, <1>4, <1>8, NodeReaches
<1> QED BY <1>2, <1>3, <1>9 DEF NetInv, AdoptChain

LEMMA NetStep == NetInv /\ [Next]_vars => NetInv' /\ Extended
<1> SUFFICES ASSUME NetInv, [Next]_vars PROVE NetInv' /\ Extended
  OBVIOUS
<1>1. ASSUME NEW n \in Node, UserStep(n) PROVE NetInv' /\ Extended
  BY <1>1, MineBlockStep, SendMoneyStep, RequestBlockchainStep DEF UserStep
<1>2. ASSUME NEW p \in Pairs, HandleMessage(p[1], p[2]) PROVE NetInv' /\ Extended
  BY <1>2, ReceiveTransactionStep, ReceiveKnownBlockStep, ReceiveBlockStep, RejectBlockStep,
     ReceiveRequestStep, KeepChainStep, AdoptChainStep DEF HandleMessage
<1>3. CASE UNCHANGED vars
  <2>1. NodesSound' /\ Mined' = Mined /\ Extended
    BY <1>3, NodesStay DEF NetInv, vars
  <2> QED BY <1>3, <2>1 DEF NetInv, vars
<1> QED BY <1>1, <1>2, <1>3, ConnectStep, BreakStep DEF Next

-----------------------------------------------------------------------------
(* Theorems *)

\* Whatever the messages, each node has a linked chain that its balances are
\* a replay of, and only blocks somebody has mined go from node to node.
THEOREM NetInvariant == Spec => []NetInv
<1>1. NetInv /\ [Next]_vars => NetInv'
  BY NetStep
<1> QED BY NetInit, <1>1, PTL DEF Spec

LEMMA NetTypes == NetInv => NetTypeOK
<1> SUFFICES ASSUME NetInv PROVE NetTypeOK
  OBVIOUS
<1>1. Mined \subseteq Block
  BY DEF NetInv, NodesSound, Known
<1>2. Seq(Sent(Mined)) \subseteq Seq(MessageType)
  <2>1. Sent(Block) = MessageType
    BY DEF Sent, MessageType
  <2> QED BY <1>1, <2>1, SentMore, SeqMore
<1>3. node \in [Node -> [chain : Seq(Block), mempool : Seq(Tx), balances : [Addr -> Nat]]]
  BY DEF NetInv, NodesSound, NodeType, Balances
<1>4. channel \in [Pairs -> Seq(MessageType)] /\ \A p \in Pairs \ links : channel[p] = <<>>
  BY <1>2 DEF NetInv, ChannelsOK
<1> QED BY <1>3, <1>4 DEF NetInv, NetTypeOK

\* The types of what NetworkManager and Blockchain keep, and that nothing is
\* under way where there is no connection.
THEOREM NetTypeCorrect == Spec => []NetTypeOK
BY NetInvariant, NetTypes, PTL

\* Chains that share a block share those before it.
LEMMA SameBlocks ==
    ASSUME NEW K, Known(K), NEW c, Linked(c), Elems(c) \subseteq K,
           NEW d, Linked(d), Elems(d) \subseteq K,
           NEW i \in 1 .. Len(c), NEW j \in 1 .. Len(d), c[i].hash = d[j].hash
    PROVE  i = j /\ \A k \in 1 .. i : c[k] = d[k]
<1>1. /\ Len(c) \in Nat /\ Len(d) \in Nat
      /\ \A k \in 1 .. Len(c) : c[k] \in K /\ c[k].number = k - 1
      /\ \A k \in 1 .. Len(d) : d[k] \in K /\ d[k].number = k - 1
  BY LinkedBlocks DEF Elems
<1>2. \A a, b \in K : a.hash = b.hash => a = b
  BY DEF Known
<1>3. c[i] = d[j] /\ i = j
  <2>1. c[i] = d[j]
    BY <1>1, <1>2
  <2>2. i - 1 = j - 1
    BY <1>1, <2>1
  <2> QED BY <1>1, <2>1, <2>2
<1> DEFINE T == {k \in Nat : k < i => c[i - k] = d[i - k]}
<1>4. 0 \in T
  BY <1>1, <1>3
<1>5. ASSUME NEW k \in Nat, k \in T PROVE k + 1 \in T
  <2> SUFFICES ASSUME k + 1 < i PROVE c[i - (k + 1)] = d[i - (k + 1)]
    OBVIOUS
  <2> DEFINE x == i - k
  <2>1. c[x] = d[x] /\ x \in 2 .. Len(c) /\ x \in 2 .. Len(d) /\ x - 1 \in 1 .. Len(c) /\ x - 1 \in 1 .. Len(d)
        /\ i - (k + 1) = x - 1
    BY <1>1, <1>3, <1>5
  <2> HIDE DEF x
  <2>2. c[x].prev = c[x - 1].hash /\ d[x].prev = d[x - 1].hash
    BY <2>1 DEF Linked
  <2>3. c[x - 1] = d[x - 1]
    BY <1>1, <1>2, <2>1, <2>2
  <2> QED BY <2>1, <2>3
<1>6. Nat \subseteq T
  <2> HIDE DEF T
  <2> QED BY <1>4, <1>5, EveryNumber
<1>7. ASSUME NEW k \in 1 .. i PROVE c[k] = d[k]
  <2>1. i - k \in Nat /\ i - k < i /\ i - (i - k) = k
    BY <1>1
  <2>2. i - k \in T
    BY <1>6, <2>1
  <2> QED BY <2>1, <2>2
<1> QED BY <1>3, <1>7

LEMMA SamePrefix ==
    ASSUME NEW c \in Seq(Block), NEW d \in Seq(Block), NEW i \in 0 .. Len(c), i <= Len(d),
           \A k \in 1 .. i : c[k] = d[k]
    PROVE  SubSeq(c, 1, i) = SubSeq(d, 1, i)
<1>1. Len(c) \in Nat /\ Len(d) \in Nat /\ i \in Nat
  BY LenProperties
<1>2. \A k \in 1 .. i : c[k] \in Block /\ d[k] \in Block
  <2>1. \A k \in 1 .. i : k \in 1 .. Len(c) /\ k \in 1 .. Len(d)
    BY <1>1
  <2> QED BY <2>1, ElementOfSeq
<1> DEFINE a == SubSeq(c, 1, i)
           b == SubSeq(d, 1, i)
<1>3. /\ a \in Seq(Block) /\ Len(a) = i /\ \A k \in 1 .. i : a[k] = c[k]
      /\ b \in Seq(Block) /\ Len(b) = i /\ \A k \in 1 .. i : b[k] = d[k]
  <2>1. 1 \in Int /\ i \in Int /\ i - 1 + 1 = i
    BY <1>1
  <2>2. /\ SubSeq(c, 1, i) \in Seq(Block)
        /\ Len(SubSeq(c, 1, i)) = IF 1 <= i THEN i - 1 + 1 ELSE 0
        /\ \A k \in 1 .. i - 1 + 1 : SubSeq(c, 1, i)[k] = c[1 + k - 1]
    BY <1>2, <2>1, SubSeqProperties
  <2>3. /\ SubSeq(d, 1, i) \in Seq(Block)
        /\ Len(SubSeq(d, 1, i)) = IF 1 <= i THEN i - 1 + 1 ELSE 0
        /\ \A k \in 1 .. i - 1 + 1 : SubSeq(d, 1, i)[k] = d[1 + k - 1]
    BY <1>2, <2>1, SubSeqProperties
  <2> QED BY <1>1, <2>2, <2>3
<1> HIDE DEF a, b
<1>4. a = b
  BY <1>3, SeqEqual
<1> QED BY <1>4 DEF a, b

LEMMA NodesAgree == NetInv => Agreement
<1> SUFFICES ASSUME NetInv, NEW m \in Node, NEW n \in Node,
                    NEW i \in DOMAIN node[m].chain, NEW j \in DOMAIN node[n].chain,
                    node[m].chain[i].hash = node[n].chain[j].hash
             PROVE  /\ i = j /\ SubSeq(node[m].chain, 1, i) = SubSeq(node[n].chain, 1, j)
                    /\ i = Len(node[m].chain) /\ j = Len(node[n].chain) => node[m].balances = node[n].balances
  BY DEF Agreement
<1> DEFINE c == node[m].chain
           d == node[n].chain
<1>1. /\ Linked(c) /\ Linked(d) /\ c \in Seq(Block) /\ d \in Seq(Block)
      /\ node[m].balances = Rebuild(c) /\ node[n].balances = Rebuild(d)
      /\ Elems(c) \subseteq Mined /\ Elems(d) \subseteq Mined /\ Known(Mined)
  BY ChainsMined DEF NetInv, NodesSound, Sound, Linked
<1>2. Len(c) \in Nat /\ Len(d) \in Nat /\ i \in 1 .. Len(c) /\ j \in 1 .. Len(d)
  BY <1>1, LinkedBlocks
<1> HIDE DEF c, d
<1>3. i = j /\ \A k \in 1 .. i : c[k] = d[k]
  BY <1>1, <1>2, SameBlocks DEF c, d
<1>4. i \in 0 .. Len(c) /\ i <= Len(d)
  BY <1>2, <1>3
<1>5. SubSeq(c, 1, i) = SubSeq(d, 1, i)
  BY <1>1, <1>3, <1>4, SamePrefix
<1>6. ASSUME i = Len(c), j = Len(d) PROVE c = d
  BY <1>1, <1>2, <1>3, <1>6, SeqEqual
<1> QED BY <1>1, <1>3, <1>5, <1>6 DEF c, d

\* Nodes whose chains share a block share the history and, at the last block,
\* every balance, for any network and any messages.
THEOREM NodesShareHistory == Spec => []Agreement
BY NetInvariant, NodesAgree, PTL

LEMMA RewardOfBlocks == NetInv => BlocksPayOneReward
<1> SUFFICES ASSUME NetInv, NEW n \in Node, NEW i \in 2 .. Len(node[n].chain)
             PROVE  /\ node[n].chain[i].number = i - 1
                    /\ node[n].chain[i].prev = node[n].chain[i - 1].hash
                    /\ Cardinality({k \in DOMAIN node[n].chain[i].txs : IsCoinbase(node[n].chain[i].txs[k])}) = 1
  BY DEF BlocksPayOneReward
<1> DEFINE b == node[n].chain[i]
           rewards == {k \in DOMAIN b.txs : IsCoinbase(b.txs[k])}
<1>1. b.number = i - 1 /\ b.prev = node[n].chain[i - 1].hash /\ ValidateTransactions(b.txs)
  BY DEF NetInv, NodesSound, Sound, Linked
<1>2. PICK k \in DOMAIN b.txs : IsCoinbase(b.txs[k])
  BY <1>1 DEF ValidateTransactions
<1>3. rewards = {k}
  <2> HIDE DEF b
  <2> QED BY <1>1, <1>2 DEF ValidateTransactions
<1>4. Cardinality(rewards) = 1
  BY <1>3, FS_Singleton
<1> QED BY <1>1, <1>4

\* Every block a node has taken, mined by itself or received, is linked to the
\* one before it and pays exactly one reward.
THEOREM RewardPerBlock == Spec => []BlocksPayOneReward
BY NetInvariant, RewardOfBlocks, PTL

ChainGrows ==
    \A n \in Node :
      /\ Len(node[n].chain) <= Len(node'[n].chain)
      /\ SubSeq(node'[n].chain, 1, Len(node[n].chain)) = node[n].chain

LEMMA GrowsStep == NetInv /\ [Next]_vars => [ChainGrows]_vars
<1> SUFFICES ASSUME NetInv, [Next]_vars, NEW n \in Node
             PROVE  /\ Len(node[n].chain) <= Len(node'[n].chain)
                    /\ SubSeq(node'[n].chain, 1, Len(node[n].chain)) = node[n].chain
  BY DEF ChainGrows
<1> DEFINE c == node[n].chain
           d == node'[n].chain
<1>1. NetInv' /\ Extends(c, d)
  BY NetStep DEF Extended
<1>2. Linked(c) /\ Linked(d)
  BY <1>1 DEF NetInv, NodesSound, Sound
<1>3. Len(c) \in Nat /\ Len(d) \in Nat /\ c \in Seq(Block) /\ d \in Seq(Block)
  BY <1>2, LinkedBlocks DEF Linked
<1>4. Len(c) <= Len(d) /\ \A k \in 1 .. Len(c) : c[k] = d[k]
  BY <1>1 DEF Extends
<1> HIDE DEF c, d
<1>5. Len(c) \in 0 .. Len(c)
  BY <1>3
<1>6. SubSeq(c, 1, Len(c)) = SubSeq(d, 1, Len(c))
  BY <1>3, <1>4, <1>5, SamePrefix
<1>7. SubSeq(c, 1, Len(c)) = c
  BY <1>3, SubSeqFull
<1> QED BY <1>4, <1>6, <1>7 DEF c, d

\* No step of any node takes a block off a chain or replaces one.
THEOREM ChainsAreFinal == Spec => ChainsOnlyGrow
<1>1. Spec => [][ChainGrows]_vars
  BY NetInvariant, GrowsStep, PTL DEF Spec
<1> QED BY <1>1 DEF ChainsOnlyGrow, ChainGrows
=============================================================================
