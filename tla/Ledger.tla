------------------------------- MODULE Ledger -------------------------------
(***************************************************************************)
(* Transactions, blocks and the balance rules every node shares:           *)
(* Transaction.cpp, Block.cpp, balanceMapping.cpp and the pure parts of    *)
(* Blockchain.cpp.                                                         *)
(*                                                                         *)
(* A transaction hash covers sender, receiver, amount and a timestamp in   *)
(* seconds, so a transaction stands for its own hash: two payments of the  *)
(* same amount between the same parties in the same second are the same    *)
(* record, as they are the same hash in the code.  A block hash is a fresh *)
(* element of Hash picked when its proof of work ends.                     *)
(***************************************************************************)
EXTENDS Integers, Sequences, FiniteSets

CONSTANTS Addr,         \* wallet addresses
          Genesis,      \* the "Genesis" pseudo-sender of mining rewards
          NoAddr,       \* the empty string
          Times,        \* timestamps, in seconds
          Hash,         \* block hashes
          GenesisHash,  \* Blockchain::GENESIS_HASH
          NoHash,       \* "0x0", and the hash of a block not mined yet
          Reward        \* calculateCurrentMiningReward()

ASSUME LedgerAssumption ==
    /\ Genesis \notin Addr
    /\ NoAddr \notin Addr
    /\ Genesis # NoAddr
    /\ GenesisHash \in Hash
    /\ NoHash \notin Hash
    /\ Times # {}
    /\ Reward \in Nat \ {0}

Party == Addr \cup {Genesis, NoAddr}

Tx == [sender : Party, receiver : Party, amount : Nat, ts : Times]

Block == [number : Nat, prev : Hash \cup {NoHash}, hash : Hash \cup {NoHash}, txs : Seq(Tx)]

Last(s) == s[Len(s)]

Elems(s) == {s[i] : i \in DOMAIN s}

-----------------------------------------------------------------------------
(* Transaction.cpp *)

Coinbase(miner, now) == [sender |-> Genesis, receiver |-> miner, amount |-> Reward, ts |-> now]

Transfer(from, to, amount, now) == [sender |-> from, receiver |-> to, amount |-> amount, ts |-> now]

\* Mutant: an amount that is no amount stands for "not sent".
UnsentTx(now) == [sender |-> NoAddr, receiver |-> NoAddr, amount |-> -1, ts |-> now]

\* The Transaction tx("", "", 0) a caller declares before it calls sendMoney.
EmptyTx(now) == [sender |-> NoAddr, receiver |-> NoAddr, amount |-> 0, ts |-> now]

IsCoinbase(tx) == tx.sender = Genesis /\ tx.receiver # Genesis

\* Transaction::isValid.  Honest wallets sign every transfer they create with
\* the key of its sender, so the hash, address and signature checks succeed
\* for every transaction whose sender is an address.
IsValid(tx) ==
    \/ tx.sender = Genesis /\ tx.receiver = Genesis
    \/ tx.sender # NoAddr /\ tx.receiver # NoAddr /\ tx.amount > 0

-----------------------------------------------------------------------------
(* Block.cpp *)

GenesisBlock(now) ==
    [number |-> 0, prev |-> NoHash, hash |-> GenesisHash,
     txs |-> <<Transfer(Genesis, Genesis, 0, now)>>]

\* Block::validateTransactions for a block that is not the genesis block.
ValidateTransactions(txs) ==
    /\ \A i \in DOMAIN txs : IsValid(txs[i])
    /\ \E i \in DOMAIN txs : IsCoinbase(txs[i])
    /\ \A i, j \in DOMAIN txs : IsCoinbase(txs[i]) /\ IsCoinbase(txs[j]) => i = j

-----------------------------------------------------------------------------
(* balanceMapping.cpp and Blockchain::verifyTransactionBalance.            *)
(* bal is a function from addresses to the numbers under "balance:<addr>". *)

\* BalanceMapping::getBalance: a key that is not there reads as 0.
GetBalance(bal, a) == IF a \in DOMAIN bal THEN bal[a] ELSE 0

VerifyTransactionBalance(bal, tx) == tx.sender = Genesis \/ GetBalance(bal, tx.sender) >= tx.amount

\* The write at the end of processTransaction and processCoinGeneration, from
\* the sender's and the receiver's balances read before it.  The batch puts the
\* sender's key first and the receiver's second: the later put wins when the
\* two are one key.
WriteBalance(bal, tx, fromBal, toBal) ==
    IF tx.sender = Genesis
    THEN IF tx.receiver = Genesis THEN bal
         ELSE [bal EXCEPT ![tx.receiver] = toBal + tx.amount]
    ELSE [bal EXCEPT ![tx.sender] = fromBal - tx.amount, ![tx.receiver] = toBal + tx.amount]

\* BalanceMapping::processTransaction when nothing runs beside it.
ProcessTransaction(bal, tx) ==
    IF VerifyTransactionBalance(bal, tx)
    THEN WriteBalance(bal, tx, GetBalance(bal, tx.sender), GetBalance(bal, tx.receiver))
    ELSE bal

\* Blockchain::updateBalancesForBlock: the transactions of a block in order;
\* one that cannot be applied is logged and skipped.
UpdateBalances(bal, txs) ==
    LET after[i \in 0 .. Len(txs)] ==
          IF i = 0 THEN bal ELSE ProcessTransaction(after[i - 1], txs[i])
    IN  after[Len(txs)]

\* Blockchain::rebuildBalancesFromTransactions: every balance set to zero, then
\* every block of the chain replayed.
Rebuild(chain) ==
    LET after[i \in 0 .. Len(chain)] ==
          IF i = 0 THEN [a \in Addr |-> 0] ELSE UpdateBalances(after[i - 1], chain[i].txs)
    IN  after[Len(chain)]
=============================================================================
