------------------------ MODULE BlockchainProperties ------------------------
(***************************************************************************)
(* What Blockchain.tla is checked and proved for, in two groups: what      *)
(* holds whatever the threads do, and what holds of the serial node.  With *)
(* several threads ChainLinked, which README.md claims, does not hold.     *)
(***************************************************************************)
EXTENDS Blockchain

Labels == {"idle", "mining", "apply", "write", "signing", "sending"}

\* The type of every variable.
TypeOK ==
    /\ chain \in Seq(Block)
    /\ Len(chain) > 0
    /\ mempool \in Seq(Tx)
    /\ balances \in [Addr -> Int]
    /\ walletBalance \in Int
    /\ DOMAIN stored \subseteq Nat
    /\ \A n \in DOMAIN stored : stored[n] \in Block
    /\ pc \in [Threads -> Labels]
    /\ job \in [Threads -> {"none", "mine", "receive"}]
    /\ newBlock \in [Threads -> Block]
    /\ txIndex \in [Threads -> Nat \ {0}]
    /\ readBal \in [Threads -> [from : Int, to : Int]]
    /\ newTx \in [Threads -> Tx]
    /\ gossipTxs \subseteq Tx
    /\ gossipBlocks \subseteq Block

-----------------------------------------------------------------------------
(* Whatever the threads do *)

\* No balance in the database is ever negative, although processTransaction
\* writes what it computed from balances read earlier.  The balance in the wallet
\* can be, as sendMoney debits it long after the comparison: but never by more
\* than all user threads but one can overdraw by one payment each, whatever
\* payments, views and mined blocks come in between.  One thread alone leaves it
\* at zero or above.
OverdraftBounded ==
    /\ \A a \in Addr : balances[a] >= 0
    /\ \A limit \in Amounts :
         (\A amount \in Amounts : amount <= limit)
           => walletBalance >= -(limit * (Cardinality(Users) - 1))

\* A block that lost a race is stale, never ahead: its parent is an earlier
\* block of the chain with a smaller number, and its number is at most its
\* position.
Rooted ==
    \A i \in 2 .. Len(chain) :
      /\ chain[i].number < i
      /\ \E j \in 1 .. i - 1 :
           chain[j].hash = chain[i].prev /\ chain[j].number < chain[i].number

NoRepeats(s) == \A i, j \in DOMAIN s : s[i] = s[j] => i = j

\* addTransaction keeps the pending hashes distinct, so no block holds the same
\* transaction twice, and every block has one reward and valid transactions.
BlocksWellFormed ==
    /\ NoRepeats(mempool)
    /\ \A i \in 2 .. Len(chain) :
         NoRepeats(chain[i].txs) /\ ValidateTransactions(chain[i].txs)

\* A call that has started returns: the proof of work, the balance updates and
\* the send of every thread come to an end.
CallsReturn == \A t \in Threads : (pc[t] # "idle") ~> (pc[t] = "idle")

-----------------------------------------------------------------------------
(* The serial node *)

Idle == \A t \in Threads : pc[t] = "idle"

\* Blockchain::isValidChain.  A block keeps the content it was mined with while
\* the node runs, so its stored hash is the hash of its content.
IsValidChain ==
    \A i \in 2 .. Len(chain) :
      /\ chain[i].prev = chain[i - 1].hash
      /\ ValidateTransactions(chain[i].txs)

\* "Blocks are linked by including the previous block's hash" (README.md:163):
\* isValidChain holds and every block carries the number of its place.
ChainLinked ==
    /\ IsValidChain
    /\ \A i \in DOMAIN chain : chain[i].number = i - 1

\* Between two calls the balances are those that replaying the chain in memory
\* from zero gives (rebuildBalancesFromTransactions).  A start replays the blocks
\* it has read back, whose rewards may be gone: see StatePreserved.
BalancesAreReplay == Idle => balances = Rebuild(chain)

\* Between two calls the database holds the chain: block:n is the n-th block.
ChainStored == Idle => stored = [n \in 0 .. Len(chain) - 1 |-> chain[n + 1]]

\* Mining loses no pending transaction: one leaves the mempool only when a
\* block of the chain holds it or a block of a peer has been applied.
MiningKeepsPending ==
    [][\/ \A tx \in Elems(mempool) : tx \in Elems(mempool') \/ tx \in Confirmed'
       \/ \E t \in Threads : job[t] = "receive" /\ pc[t] # "idle" /\ pc'[t] = "idle"]_vars

\* The sum of the numbers bal[a].
SumOf(bal) ==
    LET sum[S \in SUBSET DOMAIN bal] ==
          IF S = {} THEN 0
          ELSE LET a == CHOOSE x \in S : TRUE IN bal[a] + sum[S \ {a}]
    IN  sum[DOMAIN bal]

\* Blockchain::getTotalSupply: all balances of the database.
TotalSupply == SumOf(balances)

\* The places in the chain of the payments from an address to itself.
SelfPayments ==
    {p \in UNION {{<<i, j>> : j \in DOMAIN chain[i].txs} : i \in DOMAIN chain} :
       chain[p[1]].txs[p[2]].sender = chain[p[1]].txs[p[2]].receiver}

\* Coins come from one reward for each block and from payments to oneself, which
\* processTransaction credits without the debit, and nothing destroys a coin:
\* not a block that overspends, not a transaction that is confirmed twice.
CoinsAccounted ==
    Idle =>
      LET mined == Reward * (Len(chain) - 1)
          selfPaid == SumOf([p \in SelfPayments |-> chain[p[1]].txs[p[2]].amount])
      IN  TotalSupply \in mined .. mined + selfPaid
=============================================================================
