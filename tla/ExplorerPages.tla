--------------------------- MODULE ExplorerPages ---------------------------
(***************************************************************************)
(* The pages that show the chain: Explorer (Explorer.js) with its search,  *)
(* the details of a block, a transaction and an address                    *)
(* (components/Explorer), and the list of all blocks (Blockchain.js).      *)
(***************************************************************************)
EXTENDS Service

CONSTANTS Rows,      \* blocks a page lists: five in the code
          MaxBlocks  \* blocks Blockchain.js asks for: twenty in the code

ASSUME RowsAssumption == Rows \in Nat \ {0} /\ MaxBlocks \in Nat \ {0}

Number == 0 .. 1  \* numbers of blocks, and names of transactions

-----------------------------------------------------------------------------
(* Explorer: data is the count of blocks, the latest blocks by their        *)
(* numbers and the latest transactions                                     *)

ExplorerOpened ==
    {Opened([height |-> 0, blocks |-> <<>>, list |-> <<>>], "getStatistics", {"loading"})}

\* fetchExplorerData: one request after the other; the first that fails ends it.
ExplorerAnswered(c) ==
    /\ page = "Explorer"
    /\ \/ /\ c.fn = "getStatistics"
          /\ \E s \in StatisticsReplies : data' = [data EXCEPT !.height = Or(s.height, 0)]
          /\ Continues(c, "getLatestBlocks", <<>>)
       \/ /\ c.fn = "getLatestBlocks"
          /\ \E blocks \in LatestBlocks(Rows) : data' = [data EXCEPT !.blocks = blocks]
          /\ Continues(c, "getLatestTransactions", <<>>)
       \/ /\ c.fn = "getLatestTransactions"
          /\ \E list \in LatestTransactions : data' = [data EXCEPT !.list = list]
          /\ Ends(c)
       \/ /\ c.fn \in {"getLatestBlocks", "getLatestTransactions"}
          /\ Ends(c)
          /\ UNCHANGED data
    /\ UNCHANGED <<page, notice>>

-----------------------------------------------------------------------------
(* BlockDetail: data is the number in the address bar, the block shown      *)
(* (Null: none, Undefined: an answer that could not be read) and the error  *)

BlockOpened(n) ==
    [data |-> [id |-> n, block |-> Null, error |-> FALSE],
     flags |-> {"loading"}, calls |-> {Call(1, "getBlockById", {"loading"}, <<n>>)}]

BlockShows ==
    CASE "loading" \in busy -> "spinner"
      [] "loading" \notin busy /\ data.error -> "error"
      [] "loading" \notin busy /\ ~data.error -> IF data.block = Null THEN "nothing" ELSE "block"

\* Back and forward in the browser's history: the page stays, and its effect
\* fetches again while an earlier answer is awaited.
OtherBlock(n) ==
    /\ page = "Block" /\ n # data.id
    /\ data' = [data EXCEPT !.id = n]
    /\ Starts("getBlockById", {"loading"}, <<n>>)
    /\ UNCHANGED <<page, notice>>

BlockAnswered(c) ==
    /\ page = "Block" /\ c.fn = "getBlockById"
    /\ \/ \E block \in {c.arg[1], Undefined} : data' = [data EXCEPT !.block = block, !.error = FALSE]
       \/ data' = [data EXCEPT !.error = TRUE]
    /\ Ends(c)
    /\ UNCHANGED <<page, notice>>

-----------------------------------------------------------------------------
(* TransactionDetail: data is the transaction asked for, the one shown      *)
(* (<<>>: none) and the error                                              *)

TransactionOpened(n) ==
    [data |-> [hash |-> n, tx |-> <<>>, error |-> FALSE],
     flags |-> {"loading"}, calls |-> {Call(1, "getTransactionByHash", {"loading"}, <<n>>)}]

TransactionShows ==
    CASE "loading" \in busy -> "spinner"
      [] "loading" \notin busy /\ data.error -> "error"
      [] "loading" \notin busy /\ ~data.error -> IF data.tx = <<>> THEN "nothing" ELSE "transaction"

\* The API's answer for a pending or a confirmed transaction, or one that could
\* not be read.
DetailReplies ==
    {Transaction(FALSE, Null, "Pending", "mempool"), Transaction(FALSE, Undefined, "none", "nowhere")}
      \cup {Transaction(FALSE, n, "Confirmed", "chain") : n \in Number}

OtherTransaction(n) ==
    /\ page = "Transaction" /\ n # data.hash
    /\ data' = [data EXCEPT !.hash = n]
    /\ Starts("getTransactionByHash", {"loading"}, <<n>>)
    /\ UNCHANGED <<page, notice>>

TransactionAnswered(c) ==
    /\ page = "Transaction" /\ c.fn = "getTransactionByHash"
    /\ \/ \E tx \in DetailReplies : data' = [data EXCEPT !.tx = <<tx>>, !.error = FALSE]
       \/ data' = [data EXCEPT !.error = TRUE]
    /\ Ends(c)
    /\ UNCHANGED <<page, notice>>

\* The chip of the details, and that of a row of the explorer.
DetailChip(tx) == IF Truthy(tx.block) THEN "Confirmed" ELSE "Pending"

-----------------------------------------------------------------------------
(* AddressDetail: the service has no getAddressDetails, and the TypeError    *)
(* is shown as an error before anything is asked                           *)

AddressOpened == [data |-> [error |-> TRUE], flags |-> {}, calls |-> {}]

-----------------------------------------------------------------------------
(* Blockchain: data is the list of all blocks *)

BlockchainOpened == {Opened([blocks |-> <<>>], "getAllBlocks", {"loading"})}

BlockchainAnswered(c) ==
    /\ page = "Blockchain" /\ c.fn = "getAllBlocks"
    /\ \E blocks \in AllBlocks(MaxBlocks) : data' = [blocks |-> blocks]
    /\ Ends(c)
    /\ UNCHANGED <<page, notice>>

-----------------------------------------------------------------------------
(* From page to page *)

\* handleSearch tells by the form of the input where to look.
Search(input) ==
    /\ page = "Explorer"
    /\ \/ input = "digits" /\ \E n \in Number : Mounts("Block", BlockOpened(n))
       \/ input = "address" /\ Mounts("Address", AddressOpened)
       \/ input \in {"hash", "other"} /\ \E n \in Number : Mounts("Transaction", TransactionOpened(n))

\* Buttons of the explorer's lists.
FollowRow ==
    /\ page = "Explorer" /\ "loading" \notin busy
    /\ \/ \E i \in DOMAIN data.blocks : Mounts("Block", BlockOpened(data.blocks[i]))
       \/ \E i \in DOMAIN data.list :
            \/ \E n \in Number : Mounts("Transaction", TransactionOpened(n))
            \/ Mounts("Address", AddressOpened)
            \/ Truthy(data.list[i].block) /\ Mounts("Block", BlockOpened(data.list[i].block))

\* Buttons of the details; an answer that could not be read has none.
FollowDetail ==
    \/ /\ page = "Block" /\ BlockShows = "block" /\ data.block # Undefined
       /\ \/ \E n \in Number : Mounts("Transaction", TransactionOpened(n))
          \/ Mounts("Address", AddressOpened)
    \/ /\ page = "Transaction" /\ TransactionShows = "transaction"
       /\ \/ Truthy(data.tx[1].block) /\ Mounts("Block", BlockOpened(data.tx[1].block))
          \/ Mounts("Address", AddressOpened)

ExplorerStep ==
    \/ \E input \in {"blank", "digits", "hash", "address", "other"} : Search(input)
    \/ FollowRow
    \/ FollowDetail
    \/ \E n \in Number : OtherBlock(n) \/ OtherTransaction(n)

ExplorerPagesAnswered(c) ==
    ExplorerAnswered(c) \/ BlockAnswered(c) \/ TransactionAnswered(c) \/ BlockchainAnswered(c)
=============================================================================
