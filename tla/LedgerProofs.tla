---------------------------- MODULE LedgerProofs ----------------------------
(* What the recursive definitions of Ledger.tla compute, for sequences of  *)
(* transactions and chains of any length.                                  *)
EXTENDS Ledger, FiniteSetTheorems, SequenceTheorems, TLAPS

-----------------------------------------------------------------------------
(* Induction over the natural numbers, for a set instead of a predicate *)

LEMMA EveryNumber ==
    ASSUME NEW T, 0 \in T, \A n \in Nat : n \in T => n + 1 \in T
    PROVE  Nat \subseteq T
<1> SUFFICES ASSUME Nat \ T # {} PROVE FALSE
  OBVIOUS
<1>1. PICK n \in Nat \ T : \A m \in Nat \ T : ~(<<m, n>> \in OpToRel(<, Nat))
  BY NatLessThanWellFounded, WFMin
<1>2. n \in Nat /\ n \notin T
  OBVIOUS
<1>5. n # 0
  BY <1>2
<1>6. n - 1 \in Nat /\ n - 1 < n /\ (n - 1) + 1 = n
  BY <1>2, <1>5
<1>3. <<n - 1, n>> \in OpToRel(<, Nat)
  BY <1>2, <1>6 DEF OpToRel
<1>4. n - 1 \in T
  BY <1>1, <1>3, <1>6
<1> QED BY <1>2, <1>4, <1>6

-----------------------------------------------------------------------------
(* n steps one after the other *)

Steps(n, S) == [1 .. n -> [S -> S]]
Runs(n, S) == [0 .. n -> S]

\* f goes from s0 through the steps.
Follows(f, n, s0, step) == f = [i \in 0 .. n |-> IF i = 0 THEN s0 ELSE step[i][f[i - 1]]]

LEMMA StepsExist ==
    ASSUME NEW n \in Nat, NEW S, NEW s0 \in S, NEW step \in Steps(n, S)
    PROVE  \E f : Follows(f, n, s0, step)
<1> DEFINE T == {m \in Nat : m <= n => \E f : Follows(f, m, s0, step)}
<1>1. 0 \in T
  <2>1. Follows([i \in 0 .. 0 |-> s0], 0, s0, step)
    BY DEF Follows
  <2> QED BY <2>1
<1>2. ASSUME NEW m \in Nat, m \in T PROVE m + 1 \in T
  <2> SUFFICES ASSUME m + 1 <= n PROVE \E f : Follows(f, m + 1, s0, step)
    OBVIOUS
  <2>1. PICK f : Follows(f, m, s0, step)
    BY <1>2
  <2> DEFINE g == [i \in 0 .. m + 1 |-> IF i = m + 1 THEN step[m + 1][f[m]] ELSE f[i]]
  <2>2. \A i \in 0 .. m : f[i] = IF i = 0 THEN s0 ELSE step[i][f[i - 1]]
    BY <2>1 DEF Follows
  <2>3. ASSUME NEW i \in 0 .. m + 1 PROVE g[i] = IF i = 0 THEN s0 ELSE step[i][g[i - 1]]
    <3>1. CASE i = m + 1
      BY <3>1
    <3>2. CASE i \in 1 .. m
      <4>1. i # m + 1 /\ i - 1 # m + 1 /\ i - 1 \in 0 .. m + 1 /\ i # 0 /\ i \in 0 .. m
        BY <3>2
      <4>2. g[i] = f[i] /\ g[i - 1] = f[i - 1]
        BY <4>1
      <4> HIDE DEF g
      <4> QED BY <4>1, <4>2, <2>2
    <3>3. CASE i = 0
      BY <2>2, <3>3
    <3> QED BY <3>1, <3>2, <3>3
  <2>4. Follows(g, m + 1, s0, step)
    BY <2>3 DEF Follows
  <2> QED BY <2>4
<1>3. n \in T
  <2> HIDE DEF T
  <2> QED BY <1>1, <1>2, EveryNumber
<1> QED BY <1>3

\* A function that makes the steps as long as it stays in S stays in S.
LEMMA StepsTyped ==
    ASSUME NEW n \in Nat, NEW S, NEW s0 \in S, NEW step \in Steps(n, S),
           NEW f, f = [i \in 0 .. n |-> f[i]], f[0] = s0,
           \A i \in 1 .. n : f[i - 1] \in S => f[i] = step[i][f[i - 1]]
    PROVE  f \in Runs(n, S) /\ Follows(f, n, s0, step)
<1> DEFINE T == {m \in Nat : m <= n => f[m] \in S}
<1>1. 0 \in T
  OBVIOUS
<1>2. ASSUME NEW m \in Nat, m \in T PROVE m + 1 \in T
  <2> SUFFICES ASSUME m + 1 <= n PROVE f[m + 1] \in S
    OBVIOUS
  <2>1. f[m] \in S /\ m + 1 \in 1 .. n /\ (m + 1) - 1 = m
    BY <1>2
  <2>2. f[m + 1] = step[m + 1][f[m]]
    BY <2>1
  <2>3. step[m + 1] \in [S -> S]
    BY <2>1 DEF Steps
  <2> QED BY <2>1, <2>2, <2>3
<1>3. Nat \subseteq T
  <2> HIDE DEF T
  <2> QED BY <1>1, <1>2, EveryNumber
<1>4. \A i \in 0 .. n : f[i] \in S
  BY <1>3
<1>5. \A i \in 0 .. n : f[i] = IF i = 0 THEN s0 ELSE step[i][f[i - 1]]
  <2>1. \A i \in 0 .. n : i # 0 => i \in 1 .. n /\ i - 1 \in 0 .. n
    OBVIOUS
  <2> QED BY <1>4, <2>1
<1>6. f \in Runs(n, S)
  BY <1>4 DEF Runs
<1>7. [i \in 0 .. n |-> f[i]] = [i \in 0 .. n |-> IF i = 0 THEN s0 ELSE step[i][f[i - 1]]]
  BY <1>5
<1> QED BY <1>6, <1>7 DEF Follows

Same(f, g, S) == \A i \in S : f[i] = g[i]

\* Two ways that begin with the same steps are the same so far.
LEMMA StepsAgree ==
    ASSUME NEW n \in Nat, NEW k \in Nat, NEW l \in Nat, n <= k, n <= l,
           NEW s0, NEW step, NEW other, Same(step, other, 1 .. n),
           NEW f, Follows(f, k, s0, step), NEW g, Follows(g, l, s0, other)
    PROVE  Same(f, g, 0 .. n)
<1> DEFINE T == {m \in Nat : m <= n => f[m] = g[m]}
<1>1. 0 \in T
  BY DEF Follows
<1>2. ASSUME NEW m \in Nat, m \in T PROVE m + 1 \in T
  <2> SUFFICES ASSUME m + 1 <= n PROVE f[m + 1] = g[m + 1]
    OBVIOUS
  <2>1. f[m] = g[m] /\ m + 1 \in 1 .. n /\ m + 1 \in 0 .. k /\ m + 1 \in 0 .. l /\ (m + 1) - 1 = m
    BY <1>2
  <2>2. f[m + 1] = step[m + 1][f[m]] /\ g[m + 1] = other[m + 1][g[m]]
    BY <2>1 DEF Follows
  <2>3. step[m + 1] = other[m + 1]
    BY <2>1 DEF Same
  <2> QED BY <2>1, <2>2, <2>3
<1>3. Nat \subseteq T
  <2> HIDE DEF T
  <2> QED BY <1>1, <1>2, EveryNumber
<1> QED BY <1>3 DEF Same

-----------------------------------------------------------------------------
(* Balances *)

Balances == [Addr -> Nat]

LEMMA ProcessTransactionType ==
    ASSUME NEW bal \in Balances, NEW tx \in Tx
    PROVE  ProcessTransaction(bal, tx) \in Balances
<1>1. tx.amount \in Nat /\ tx.sender \in Party /\ tx.receiver \in Party
  BY DEF Tx
<1>2. \A a : GetBalance(bal, a) \in Nat
  BY DEF GetBalance, Balances
<1>3. ASSUME tx.sender # Genesis, VerifyTransactionBalance(bal, tx)
      PROVE  GetBalance(bal, tx.sender) - tx.amount \in Nat
  BY <1>1, <1>2, <1>3 DEF VerifyTransactionBalance
<1>4. GetBalance(bal, tx.receiver) + tx.amount \in Nat
  BY <1>1, <1>2
<1>5. \A a : \A n \in Nat : [bal EXCEPT ![a] = n] \in Balances
  BY DEF Balances
<1>6. \A a, b : \A n, m \in Nat : [bal EXCEPT ![a] = n, ![b] = m] \in Balances
  BY DEF Balances
<1> QED BY <1>3, <1>4, <1>5, <1>6 DEF ProcessTransaction, WriteBalance

\* The transactions as steps from balances to balances.
TxSteps(txs) ==
    [i \in 1 .. Len(txs) |-> [b \in Balances |-> ProcessTransaction(b, txs[i])]]

LEMMA TxStepsType ==
    ASSUME NEW txs \in Seq(Tx) PROVE TxSteps(txs) \in Steps(Len(txs), Balances)
<1>1. \A i \in 1 .. Len(txs) : txs[i] \in Tx
  BY ElementOfSeq
<1> QED BY <1>1, ProcessTransactionType DEF TxSteps, Steps

\* UpdateBalances is where the transactions lead.
LEMMA UpdateBalancesFollows ==
    ASSUME NEW bal \in Balances, NEW txs \in Seq(Tx)
    PROVE  \E f \in Runs(Len(txs), Balances) :
             /\ Follows(f, Len(txs), bal, TxSteps(txs))
             /\ UpdateBalances(bal, txs) = f[Len(txs)]
<1> DEFINE n == Len(txs)
           step == TxSteps(txs)
           Eq(f) == f = [i \in 0 .. n |-> IF i = 0 THEN bal ELSE ProcessTransaction(f[i - 1], txs[i])]
<1>1. n \in Nat /\ step \in Steps(n, Balances)
  BY TxStepsType, LenProperties
<1>2. \A i \in 0 .. n : i # 0 => i \in 1 .. n /\ i - 1 \in 0 .. n
  BY <1>1
<1>3. \A i \in 1 .. n : i \in 0 .. n /\ i # 0
  BY <1>1
<1>4. \A i \in 1 .. n : \A b \in Balances : step[i][b] = ProcessTransaction(b, txs[i])
  BY DEF TxSteps
<1>5. 0 \in 0 .. n
  BY <1>1
<1>6. UpdateBalances(bal, txs) = (CHOOSE f : Eq(f))[n]
  BY DEF UpdateBalances
<1> HIDE DEF n, step
<1>7. ASSUME NEW f, Follows(f, n, bal, step) PROVE f \in Runs(n, Balances)
  <2>1. f = [i \in 0 .. n |-> IF i = 0 THEN bal ELSE step[i][f[i - 1]]]
    BY <1>7 DEF Follows
  <2>2. f = [i \in 0 .. n |-> f[i]]
    BY <2>1
  <2>3. f[0] = bal
    BY <1>5, <2>1
  <2>4. \A i \in 1 .. n : f[i - 1] \in Balances => f[i] = step[i][f[i - 1]]
    BY <1>3, <2>1
  <2> QED BY <1>1, <2>2, <2>3, <2>4, StepsTyped
<1>8. ASSUME NEW f, Eq(f) PROVE f \in Runs(n, Balances) /\ Follows(f, n, bal, step)
  <2>1. f = [i \in 0 .. n |-> f[i]]
    BY <1>8
  <2>2. f[0] = bal
    BY <1>5, <1>8
  <2>3. \A i \in 1 .. n : f[i] = ProcessTransaction(f[i - 1], txs[i])
    BY <1>3, <1>8
  <2>4. \A i \in 1 .. n : f[i - 1] \in Balances => f[i] = step[i][f[i - 1]]
    BY <1>4, <2>3
  <2> QED BY <1>1, <2>1, <2>2, <2>4, StepsTyped
<1>9. PICK g : Follows(g, n, bal, step)
  BY <1>1, StepsExist
<1>10. Eq(g)
  <2>1. g \in [0 .. n -> Balances]
    BY <1>7, <1>9 DEF Runs
  <2>2. \A i \in 0 .. n : i # 0 => step[i][g[i - 1]] = ProcessTransaction(g[i - 1], txs[i])
    BY <1>2, <1>4, <2>1
  <2> QED BY <1>9, <2>2 DEF Follows
<1>11. PICK after : Eq(after) /\ UpdateBalances(bal, txs) = after[n]
  <2> HIDE DEF Eq
  <2> QED BY <1>6, <1>10
<1> QED BY <1>8, <1>11 DEF n, step

\* A block without transactions changes nothing, and one more transaction is
\* processed after the others.
LEMMA UpdateBalancesType ==
    ASSUME NEW bal \in Balances, NEW txs \in Seq(Tx)
    PROVE  UpdateBalances(bal, txs) \in Balances
BY UpdateBalancesFollows, LenProperties DEF Runs

LEMMA UpdateBalancesEmpty ==
    ASSUME NEW bal \in Balances PROVE UpdateBalances(bal, <<>>) = bal
<1>1. <<>> \in Seq(Tx) /\ Len(<<>>) = 0
  BY EmptySeq
<1>2. PICK f \in Runs(0, Balances) :
        Follows(f, 0, bal, TxSteps(<<>>)) /\ UpdateBalances(bal, <<>>) = f[0]
  BY <1>1, UpdateBalancesFollows
<1> QED BY <1>2 DEF Follows

LEMMA UpdateBalancesNext ==
    ASSUME NEW bal \in Balances, NEW txs \in Seq(Tx), NEW i \in 1 .. Len(txs)
    PROVE  UpdateBalances(bal, SubSeq(txs, 1, i))
             = ProcessTransaction(UpdateBalances(bal, SubSeq(txs, 1, i - 1)), txs[i])
<1> DEFINE long == SubSeq(txs, 1, i)
           short == SubSeq(txs, 1, i - 1)
<1>1. Len(txs) \in Nat /\ \A j \in 1 .. Len(txs) : txs[j] \in Tx
  BY ElementOfSeq, LenProperties
<1>2. /\ long \in Seq(Tx) /\ Len(long) = i /\ \A j \in 1 .. i : long[j] = txs[j]
      /\ short \in Seq(Tx) /\ Len(short) = i - 1 /\ \A j \in 1 .. i - 1 : short[j] = txs[j]
  <2>1. i \in Int /\ i - 1 \in Int /\ 1 \in Int
    BY <1>1
  <2>2. \A j \in 1 .. i : txs[j] \in Tx
    BY <1>1
  <2>3. \A j \in 1 .. i - 1 : txs[j] \in Tx
    BY <1>1
  <2>4. /\ SubSeq(txs, 1, i) \in Seq(Tx)
        /\ Len(SubSeq(txs, 1, i)) = IF 1 <= i THEN i - 1 + 1 ELSE 0
        /\ \A j \in 1 .. i - 1 + 1 : SubSeq(txs, 1, i)[j] = txs[1 + j - 1]
    BY <2>1, <2>2, SubSeqProperties
  <2>5. /\ SubSeq(txs, 1, i - 1) \in Seq(Tx)
        /\ Len(SubSeq(txs, 1, i - 1)) = IF 1 <= i - 1 THEN (i - 1) - 1 + 1 ELSE 0
        /\ \A j \in 1 .. (i - 1) - 1 + 1 : SubSeq(txs, 1, i - 1)[j] = txs[1 + j - 1]
    BY <2>1, <2>3, SubSeqProperties
  <2> QED BY <1>1, <2>4, <2>5
<1> HIDE DEF long, short
<1>3. PICK f \in Runs(i, Balances) :
        Follows(f, i, bal, TxSteps(long)) /\ UpdateBalances(bal, long) = f[i]
  BY <1>2, UpdateBalancesFollows
<1>4. PICK g \in Runs(i - 1, Balances) :
        Follows(g, i - 1, bal, TxSteps(short)) /\ UpdateBalances(bal, short) = g[i - 1]
  BY <1>2, UpdateBalancesFollows
<1>5. \A j \in 1 .. i - 1 : TxSteps(long)[j] = TxSteps(short)[j]
  BY <1>1, <1>2 DEF TxSteps
<1>6. i \in Nat /\ i - 1 \in Nat /\ i - 1 <= i /\ i - 1 <= i - 1 /\ i - 1 \in 0 .. i - 1
  BY <1>1
<1>7. f[i - 1] = g[i - 1]
  <2> DEFINE k == i - 1
             step == TxSteps(long)
             other == TxSteps(short)
  <2>1. /\ k \in Nat /\ i \in Nat /\ k <= i /\ k <= k
        /\ Follows(f, i, bal, step) /\ Follows(g, k, bal, other)
        /\ Same(step, other, 1 .. k)
    BY <1>3, <1>4, <1>5, <1>6 DEF Same
  <2>2. Same(f, g, 0 .. k)
    <3> HIDE DEF k, step, other
    <3> QED BY <2>1, StepsAgree
  <2> QED BY <1>6, <2>2 DEF Same
<1>8. f[i] = TxSteps(long)[i][f[i - 1]]
  BY <1>3, <1>6 DEF Follows
<1>9. TxSteps(long)[i][f[i - 1]] = ProcessTransaction(f[i - 1], txs[i])
  BY <1>2, <1>3, <1>6 DEF TxSteps, Runs
<1> QED BY <1>3, <1>4, <1>7, <1>8, <1>9 DEF long, short

LEMMA UpdateBalancesOne ==
    ASSUME NEW bal \in Balances, NEW tx \in Tx
    PROVE  UpdateBalances(bal, <<tx>>) = ProcessTransaction(bal, tx)
<1> DEFINE txs == <<tx>>
<1>1. txs \in Seq(Tx) /\ Len(txs) = 1 /\ txs[1] = tx
  OBVIOUS
<1> HIDE DEF txs
<1>2. SubSeq(txs, 1, Len(txs)) = txs
  BY <1>1, SubSeqFull
<1>3. SubSeq(txs, 1, 0) = <<>>
  <2>1. 1 \in Int /\ 0 \in Int /\ 0 < 1
    OBVIOUS
  <2> QED BY <2>1, SubSeqEmpty
<1>4. 1 \in 1 .. Len(txs) /\ 1 - 1 = 0
  BY <1>1
<1>5. UpdateBalances(bal, SubSeq(txs, 1, 1))
        = ProcessTransaction(UpdateBalances(bal, SubSeq(txs, 1, 1 - 1)), txs[1])
  BY <1>1, <1>4, UpdateBalancesNext
<1>6. UpdateBalances(bal, <<>>) = bal
  BY UpdateBalancesEmpty
<1> QED BY <1>1, <1>2, <1>3, <1>4, <1>5, <1>6 DEF txs

-----------------------------------------------------------------------------
(* Replaying a chain *)

Zero == [a \in Addr |-> 0]

LEMMA ZeroType == Zero \in Balances
BY DEF Zero, Balances

BlockSteps(chain) ==
    [i \in 1 .. Len(chain) |-> [b \in Balances |-> UpdateBalances(b, chain[i].txs)]]

LEMMA BlockStepsType ==
    ASSUME NEW chain \in Seq(Block) PROVE BlockSteps(chain) \in Steps(Len(chain), Balances)
<1>1. \A i \in 1 .. Len(chain) : chain[i] \in Block
  BY ElementOfSeq
<1>2. \A i \in 1 .. Len(chain) : chain[i].txs \in Seq(Tx)
  BY <1>1 DEF Block
<1> QED BY <1>2, UpdateBalancesType DEF BlockSteps, Steps

LEMMA RebuildFollows ==
    ASSUME NEW chain \in Seq(Block)
    PROVE  \E f \in Runs(Len(chain), Balances) :
             /\ Follows(f, Len(chain), Zero, BlockSteps(chain))
             /\ Rebuild(chain) = f[Len(chain)]
<1> DEFINE n == Len(chain)
           step == BlockSteps(chain)
           Eq(f) == f = [i \in 0 .. n |-> IF i = 0 THEN [a \in Addr |-> 0]
                                          ELSE UpdateBalances(f[i - 1], chain[i].txs)]
<1>1. n \in Nat /\ step \in Steps(n, Balances)
  BY BlockStepsType, LenProperties
<1>2. \A i \in 0 .. n : i # 0 => i \in 1 .. n /\ i - 1 \in 0 .. n
  BY <1>1
<1>3. \A i \in 1 .. n : i \in 0 .. n /\ i # 0
  BY <1>1
<1>4. \A i \in 1 .. n : \A b \in Balances : step[i][b] = UpdateBalances(b, chain[i].txs)
  BY DEF BlockSteps
<1>5. 0 \in 0 .. n
  BY <1>1
<1>6. Rebuild(chain) = (CHOOSE f : Eq(f))[n]
  BY DEF Rebuild
<1> HIDE DEF n, step
<1>7. ASSUME NEW f, Follows(f, n, Zero, step) PROVE f \in Runs(n, Balances)
  <2>1. f = [i \in 0 .. n |-> IF i = 0 THEN Zero ELSE step[i][f[i - 1]]]
    BY <1>7 DEF Follows
  <2>2. f = [i \in 0 .. n |-> f[i]]
    BY <2>1
  <2>3. f[0] = Zero
    BY <1>5, <2>1
  <2>4. \A i \in 1 .. n : f[i - 1] \in Balances => f[i] = step[i][f[i - 1]]
    BY <1>3, <2>1
  <2> QED BY <1>1, <2>2, <2>3, <2>4, StepsTyped, ZeroType
<1>8. ASSUME NEW f, Eq(f) PROVE f \in Runs(n, Balances) /\ Follows(f, n, Zero, step)
  <2>1. f = [i \in 0 .. n |-> f[i]]
    BY <1>8
  <2>2. f[0] = Zero
    BY <1>5, <1>8 DEF Zero
  <2>3. \A i \in 1 .. n : f[i] = UpdateBalances(f[i - 1], chain[i].txs)
    BY <1>3, <1>8
  <2>4. \A i \in 1 .. n : f[i - 1] \in Balances => f[i] = step[i][f[i - 1]]
    BY <1>4, <2>3
  <2> QED BY <1>1, <2>1, <2>2, <2>4, StepsTyped, ZeroType
<1>9. PICK g : Follows(g, n, Zero, step)
  BY <1>1, StepsExist, ZeroType
<1>10. Eq(g)
  <2>1. g \in [0 .. n -> Balances]
    BY <1>7, <1>9 DEF Runs
  <2>2. \A i \in 0 .. n : i # 0 => step[i][g[i - 1]] = UpdateBalances(g[i - 1], chain[i].txs)
    BY <1>2, <1>4, <2>1
  <2> QED BY <1>9, <2>2 DEF Follows, Zero
<1>11. PICK after : Eq(after) /\ Rebuild(chain) = after[n]
  <2> HIDE DEF Eq
  <2> QED BY <1>6, <1>10
<1> QED BY <1>8, <1>11 DEF n, step

\* A replay gives balances; that of one more block applies it to those before.
LEMMA RebuildType ==
    ASSUME NEW chain \in Seq(Block) PROVE Rebuild(chain) \in Balances
BY RebuildFollows, LenProperties DEF Runs

LEMMA RebuildAppend ==
    ASSUME NEW chain \in Seq(Block), NEW b \in Block
    PROVE  Rebuild(Append(chain, b)) = UpdateBalances(Rebuild(chain), b.txs)
<1> DEFINE n == Len(chain)
           long == Append(chain, b)
           step == BlockSteps(long)
           other == BlockSteps(chain)
<1>1. /\ n \in Nat /\ long \in Seq(Block) /\ Len(long) = n + 1
      /\ long[n + 1] = b /\ \A i \in 1 .. n : long[i] = chain[i]
  BY AppendProperties, LenProperties
<1> HIDE DEF n, long
<1>2. PICK f \in Runs(n + 1, Balances) : Follows(f, n + 1, Zero, step) /\ Rebuild(long) = f[n + 1]
  BY <1>1, RebuildFollows
<1>3. PICK g \in Runs(n, Balances) : Follows(g, n, Zero, other) /\ Rebuild(chain) = g[n]
  BY RebuildFollows DEF n
<1>4. Same(step, other, 1 .. n)
  <2>1. \A i \in 1 .. n : i \in 1 .. n + 1
    BY <1>1
  <2> QED BY <1>1, <2>1 DEF BlockSteps, Same, n
<1>5. n <= n + 1 /\ n <= n /\ n + 1 \in Nat /\ n \in 0 .. n /\ n \in 0 .. n + 1
      /\ n + 1 \in 0 .. n + 1 /\ n + 1 # 0 /\ (n + 1) - 1 = n /\ n + 1 \in 1 .. n + 1
  BY <1>1
<1>6. Same(f, g, 0 .. n)
  <2> HIDE DEF step, other
  <2> QED BY <1>1, <1>2, <1>3, <1>4, <1>5, StepsAgree
<1>7. f[n] = g[n]
  BY <1>5, <1>6 DEF Same
<1>8. f[n + 1] = step[n + 1][f[n]]
  BY <1>2, <1>5 DEF Follows
<1>9. step[n + 1][f[n]] = UpdateBalances(f[n], b.txs)
  BY <1>1, <1>2, <1>5 DEF BlockSteps, Runs
<1> QED BY <1>2, <1>3, <1>7, <1>8, <1>9 DEF long

\* An empty chain pays nobody.
LEMMA RebuildNothing == Rebuild(<<>>) = Zero
<1>1. <<>> \in Seq(Block) /\ Len(<<>>) = 0
  BY EmptySeq
<1>2. PICK f \in Runs(0, Balances) : Follows(f, 0, Zero, BlockSteps(<<>>)) /\ Rebuild(<<>>) = f[0]
  BY <1>1, RebuildFollows
<1> QED BY <1>2 DEF Follows

\* The genesis block pays nobody.
LEMMA RebuildGenesis ==
    ASSUME NEW now \in Times PROVE Rebuild(<<GenesisBlock(now)>>) = Zero
<1> DEFINE b == GenesisBlock(now)
           tx == Transfer(Genesis, Genesis, 0, now)
<1>1. tx \in Tx /\ b \in Block /\ b.txs = <<tx>>
  BY LedgerAssumption DEF Transfer, Tx, Party, GenesisBlock, Block
<1>2. <<>> \in Seq(Block) /\ Len(<<>>) = 0 /\ Append(<<>>, b) = <<b>>
  BY EmptySeq
<1>3. Rebuild(<<>>) = Zero
  BY RebuildNothing
<1>4. UpdateBalances(Zero, <<tx>>) = ProcessTransaction(Zero, tx)
  BY <1>1, UpdateBalancesOne, ZeroType
<1>5. ProcessTransaction(Zero, tx) = Zero
  BY DEF ProcessTransaction, VerifyTransactionBalance, WriteBalance, Transfer
<1>6. Rebuild(Append(<<>>, b)) = UpdateBalances(Rebuild(<<>>), b.txs)
  <2> HIDE DEF b
  <2> QED BY <1>1, <1>2, RebuildAppend
<1> QED BY <1>1, <1>2, <1>3, <1>4, <1>5, <1>6
=============================================================================
