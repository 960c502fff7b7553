------------------------------ MODULE Storage ------------------------------
(***************************************************************************)
(* The node of Blockchain.tla with its process stopped at any moment, in   *)
(* the middle of a block or between two calls, and started again on the    *)
(* database it left: NodeApp.cpp's startup, loadFromDatabase and the block *)
(* format of BlockchainDB.cpp.  What a thread had in memory is gone, the   *)
(* "block:" and "balance:" keys stay.                                      *)
(***************************************************************************)
EXTENDS BlockchainProperties

CONSTANTS Starts,       \* the values of --clean the operator starts with
          MaxRestarts   \* bound: restarts in a run

ASSUME StorageAssumption ==
    /\ Starts \subseteq BOOLEAN
    /\ MaxRestarts \in Nat

VARIABLES restarts,     \* how often the node was started again
          cleaned       \* has it ever been started with --clean?

storageVars == <<vars, restarts, cleaned>>

-----------------------------------------------------------------------------
(* BlockchainDB.cpp: what is read back of a block that was saved *)

\* Transfers are signed by their wallet; the genesis transaction and the
\* rewards are not.
Unsigned(tx) == tx.sender \in {Genesis, NoAddr}

\* serializeBlock ends with the signature of the last transaction.  When it is
\* empty splitString returns one field less and deserializeBlock drops that
\* transaction as truncated.
Deserialized(b) ==
    [b EXCEPT !.txs = IF @ # <<>> /\ Unsigned(Last(@)) THEN SubSeq(@, 1, Len(@) - 1) ELSE @]

\* Mutant: the scan stops one block early.
FoundShort(store) ==
    LET gap == CHOOSE n \in 0 .. Cardinality(DOMAIN store) :
                 n \notin DOMAIN store /\ 0 .. n - 1 \subseteq DOMAIN store
    IN  [i \in 1 .. gap - 1 |-> Deserialized(store[i - 1])]

\* The blocks loadFromDatabase finds: block:0, block:1, ... up to the first gap.
Found(store) ==
    LET gap == CHOOSE n \in 0 .. Cardinality(DOMAIN store) :
                 n \notin DOMAIN store /\ 0 .. n - 1 \subseteq DOMAIN store
    IN  [i \in 1 .. gap |-> Deserialized(store[i - 1])]

\* Blockchain::isValidChain.  The hash of a block covers its transactions: it is
\* still right when the block has been read back whole.
LoadedIsValid(store) ==
    LET found == Found(store)
    IN  \A i \in 2 .. Len(found) :
          /\ found[i].prev = found[i - 1].hash
          /\ found[i].txs = store[i - 1].txs
          /\ ValidateTransactions(found[i].txs)

-----------------------------------------------------------------------------
(* NodeApp.cpp: the node starts *)

\* Nothing that was in the memory of the stopped process is left.
FreshMemory ==
    /\ mempool' = <<>>
    /\ walletBalance' = balances'[Me]
    /\ pc' = [t \in Threads |-> "idle"]
    /\ job' = [t \in Threads |-> "none"]
    /\ newBlock' = [t \in Threads |-> NoBlock]
    /\ txIndex' = [t \in Threads |-> 1]
    /\ readBal' = [t \in Threads |-> NoneRead]
    /\ newTx' = [t \in Threads |-> NoTx]
    /\ UNCHANGED <<gossipTxs, gossipBlocks>>

Restart(clean) ==
    /\ restarts < MaxRestarts
    /\ restarts' = restarts + 1
    /\ cleaned' = (cleaned \/ clean)

\* --clean: the chain of the Blockchain constructor; the database is neither
\* read nor emptied.
StartClean ==
    /\ TRUE \in Starts
    /\ Restart(TRUE)
    /\ \E now \in Times : chain' = <<GenesisBlock(now)>>
    /\ UNCHANGED <<balances, stored>>
    /\ FreshMemory

\* loadFromDatabase finds no block:0, and makes and saves the genesis block.
StartEmpty ==
    /\ FALSE \in Starts
    /\ Restart(FALSE)
    /\ Found(stored) = <<>>
    /\ \E now \in Times :
         /\ chain' = <<GenesisBlock(now)>>
         /\ stored' = Put(stored, GenesisBlock(now))
    /\ balances' = Rebuild(chain')
    /\ FreshMemory

\* The loaded chain is valid, and the balances are rebuilt from it.
StartLoaded ==
    /\ FALSE \in Starts
    /\ Restart(FALSE)
    /\ Found(stored) # <<>>
    /\ LoadedIsValid(stored)
    /\ chain' = Found(stored)
    /\ balances' = Rebuild(chain')
    /\ UNCHANGED stored
    /\ FreshMemory

\* Mutant: the balances are rebuilt although the chain is invalid.
StartInvalidRebuilt ==
    /\ FALSE \in Starts
    /\ Restart(FALSE)
    /\ Found(stored) # <<>>
    /\ ~LoadedIsValid(stored)
    /\ chain' = Found(stored)
    /\ balances' = Rebuild(chain')
    /\ UNCHANGED stored
    /\ FreshMemory

\* "Loaded blockchain is invalid" is thrown and caught.  Nothing resets the
\* chain: the node goes on with the blocks it has loaded, and with the balances
\* the database holds.
StartInvalid ==
    /\ FALSE \in Starts
    /\ Restart(FALSE)
    /\ Found(stored) # <<>>
    /\ ~LoadedIsValid(stored)
    /\ chain' = Found(stored)
    /\ UNCHANGED <<balances, stored>>
    /\ FreshMemory

Start ==
    \/ StartClean
    \/ StartEmpty
    \/ StartLoaded
    \/ StartInvalid

\* The first start of a node: on an empty database, or with --clean, which does
\* not save the genesis block.
StorageInit ==
    /\ restarts = 0
    /\ \/ Init /\ cleaned = FALSE
       \/ /\ TRUE \in Starts /\ cleaned = TRUE
          /\ \E now \in Times : FreshNode(now)
          /\ stored = [n \in {} |-> NoBlock]

StorageNext ==
    \/ Next /\ UNCHANGED <<restarts, cleaned>>
    \/ Start

StorageSpec == StorageInit /\ [][StorageNext]_storageVars

-----------------------------------------------------------------------------
(* Properties *)

\* The types of the node's variables and of the two added here.
StorageTypeOK ==
    /\ TypeOK
    /\ restarts \in 0 .. MaxRestarts
    /\ cleaned \in BOOLEAN

\* A node that has never been started with --clean does not fork itself: it
\* broadcasts a block only after saving it, so two blocks it mined and
\* broadcast never have the same number, wherever it was stopped.
NoSelfFork ==
    ~cleaned =>
      \A b, c \in gossipBlocks :
        b.number = c.number /\ b.number > 0
          /\ Last(b.txs).receiver = Me /\ Last(c.txs).receiver = Me => b = c

\* Without --clean a stop and a start lose no block that was saved: the node
\* goes on from the hashes and numbers in its database.
HeadersSurvive ==
    ~cleaned =>
      /\ DOMAIN stored = 0 .. Cardinality(DOMAIN stored) - 1
      /\ \A n \in DOMAIN stored :
           /\ n < Len(chain)
           /\ chain[n + 1].hash = stored[n].hash
           /\ n > 0 => stored[n].prev = stored[n - 1].hash

\* A start takes no coins away.  It leaves every balance as it was, or sets all
\* of them to zero, and the latter only when the scan finds no mined block: none
\* was saved, or the node's first start was a --clean one, which leaves block:0
\* unsaved and all that follow out of reach.
StartKeepsBalances ==
    [][restarts' # restarts =>
         \/ balances' = balances
         \/ /\ ~({0, 1} \subseteq DOMAIN stored)
            /\ \A a \in Addr : balances'[a] = 0]_storageVars

\* A stop between the balances and the block it pays for mints at most one
\* reward: the coins are those of the saved blocks and one for each restart,
\* and one for the block in work.
CrashMintsOneReward ==
    ~cleaned =>
      TotalSupply <= Reward * (Cardinality(DOMAIN stored) - 1 + restarts
                           + Cardinality({t \in Threads : pc[t] \in {"apply", "write"}}))

\* "Verify that the blockchain state is preserved" (README.md:269): a node that
\* is stopped between two calls has the same blocks when it is started again.
StatePreserved ==
    [][restarts' # restarts /\ ~cleaned' /\ (\A t \in Threads : pc[t] = "idle")
         => SubSeq(chain', 2, Len(chain')) = SubSeq(chain, 2, Len(chain))]_storageVars
=============================================================================
