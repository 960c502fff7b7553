---------------------------- MODULE WalletPages ----------------------------
(***************************************************************************)
(* The pages about transactions: Wallet (Wallet.js), Transactions          *)
(* (Transactions.js) and Mempool (Mempool.js), and the chips that tell a   *)
(* confirmed transaction from a pending one.                               *)
(***************************************************************************)
EXTENDS Service

CONSTANT MaxListed  \* bound: entries of the wallet's list when a payment is made

ASSUME ListedAssumption == MaxListed \in Nat \ {0}

-----------------------------------------------------------------------------
(* Chips *)

\* TransactionCard shows the status it is given.
CardChip(tx) == tx.status

\* WalletTransactionItem.isConfirmed.
ItemChip(tx) == IF tx.block \notin {Undefined, Null} \/ tx.status = "Confirmed"
                THEN "Confirmed" ELSE "Pending"

-----------------------------------------------------------------------------
(* Wallet: data is the address shown, the list of transactions and what the *)
(* form holds.  Nothing but a spinner is shown while loading                *)

Form == {"empty", "not positive", "valid"}

WalletOpened ==
    {Opened([address |-> "", list |-> <<>>, form |-> "empty"], "getWalletInfo", {"loading"})}

WalletShown == page = "Wallet" /\ "loading" \notin busy

\* processTransactions, for a list whose transactions are the wallet's own if
\* the address is.  A transaction without a hash does not occur.
ProcessTransactions(txs, address) ==
    LET IsConfirmed(tx) == tx.block # Undefined \/ tx.status = "Confirmed"
        Processed(tx) == [tx EXCEPT !.status = IF IsConfirmed(tx) THEN "Confirmed" ELSE "Pending"]
    IN  SeqExt!FlattenSeq([i \in DOMAIN txs |->
                             IF txs[i].own /\ address = "own" THEN <<Processed(txs[i])>> ELSE <<>>])

\* Mutant: the transactions of the mempool are processed like the others.
ListConfirmed(latest, mempool) ==
    latest \o [i \in DOMAIN mempool |-> [mempool[i] EXCEPT !.status = "Confirmed"]]

\* What fetchWalletData makes of the latest transactions and of the mempool,
\* whose transactions are among the former too.  Sorting by the time stamp the
\* API does not give leaves the order.
ListPending(latest, mempool) ==
    latest \o [i \in DOMAIN mempool |-> [mempool[i] EXCEPT !.status = "Pending"]]

FetchWalletData ==
    /\ WalletShown
    /\ Starts("getWalletInfo", {"loading"}, <<>>)
    /\ UNCHANGED <<page, data, notice>>

WalletInfoAnswered(c) ==
    /\ page = "Wallet" /\ c.fn = "getWalletInfo"
    /\ \E address \in WalletReplies :
         /\ data' = [data EXCEPT !.address = address]
         /\ Continues(c, "walletTransactions", <<address>>)
    /\ UNCHANGED <<page, notice>>

\* getLatestTransactions and getMempool; the list is cleared when the first
\* fails.
WalletListed(c) ==
    /\ page = "Wallet" /\ c.fn = "walletTransactions"
    /\ \/ \E latest \in LatestTransactions, mempool \in MempoolReplies :
            data' = [data EXCEPT !.list = ProcessTransactions(ListPending(latest, mempool), c.arg[1])]
       \/ data' = [data EXCEPT !.list = <<>>]
    /\ Ends(c)
    /\ UNCHANGED <<page, notice>>

FillWalletForm(form) ==
    /\ WalletShown
    /\ data' = [data EXCEPT !.form = form]
    /\ UNCHANGED <<page, busy, notice, calls>>

\* handleCreateTransaction keeps the list of the moment for when it ends.
PayFromWallet ==
    /\ WalletShown
    /\ "creating" \notin busy /\ data.form # "empty"
    /\ IF data.form = "valid"
       THEN /\ Len(data.list) < MaxListed
            /\ Starts("createTransaction", {"creating"}, data.list)
            /\ UNCHANGED notice
       ELSE /\ notice' = {"error"}
            /\ UNCHANGED <<busy, calls>>
    /\ UNCHANGED <<page, data>>

\* A transaction of the page's own making: the answer of directPost has a hash
\* only when the node accepted the payment.
Placeholder == Transaction(TRUE, Undefined, "Pending", "nowhere")

\* Mutant: the list is not fetched again.
PaidOnce(c) ==
    /\ page = "Wallet" /\ c.fn = "createTransaction"
    /\ data' = [data EXCEPT !.list = <<Placeholder>> \o c.arg, !.form = "empty"]
    /\ notice' = {"success"}
    /\ Ends(c)
    /\ UNCHANGED page

\* setTimeout's callback waits as a call without flags.
WalletPaid(c) ==
    /\ page = "Wallet" /\ c.fn = "createTransaction"
    /\ data' = [data EXCEPT !.list = <<Placeholder>> \o c.arg, !.form = "empty"]
    /\ notice' = {"success"}
    /\ EndsAndStarts(c, "timeout", {}, <<>>)
    /\ UNCHANGED page

WalletTimeout(c) ==
    /\ page = "Wallet" /\ c.fn = "timeout"
    /\ EndsAndStarts(c, "getWalletInfo", {"loading"}, <<>>)
    /\ UNCHANGED <<page, data, notice>>

\* The snackbar closes; copying an address opens it.
WalletAlert ==
    /\ page = "Wallet"
    /\ \/ notice # {} /\ notice' = {}
       \/ WalletShown /\ notice' = {"success"}
    /\ UNCHANGED <<page, data, busy, calls>>

WalletAnswered(c) ==
    \/ WalletInfoAnswered(c)
    \/ WalletListed(c)
    \/ WalletPaid(c)
    \/ WalletTimeout(c)

WalletStep ==
    \/ FetchWalletData
    \/ \E form \in Form : FillWalletForm(form)
    \/ PayFromWallet
    \/ WalletAlert

-----------------------------------------------------------------------------
(* Transactions: data is the list, the tab and what the form holds *)

TransactionsOpened ==
    {Opened([list |-> <<>>, tab |-> 0, form |-> "empty"], "getLatestTransactions", {"loading"})}

\* The list stays when it cannot be fetched.
HistoryAnswered(c) ==
    /\ page = "Transactions" /\ c.fn = "getLatestTransactions"
    /\ \/ /\ \E latest \in LatestTransactions : data' = [data EXCEPT !.list = latest]
          /\ UNCHANGED notice
       \/ /\ notice' = notice \cup {"error"}
          /\ UNCHANGED data
    /\ Ends(c)
    /\ UNCHANGED page

ChangeTab ==
    /\ page = "Transactions"
    /\ data' = [data EXCEPT !.tab = 1 - @]
    /\ UNCHANGED <<page, busy, notice, calls>>

FillTransactionForm(form) ==
    /\ page = "Transactions" /\ data.tab = 0
    /\ data' = [data EXCEPT !.form = form]
    /\ UNCHANGED <<page, busy, notice, calls>>

CreateTransaction ==
    /\ page = "Transactions" /\ data.tab = 0
    /\ "creating" \notin busy
    /\ \/ data.form = "empty" /\ notice' = notice \cup {"error"} /\ UNCHANGED <<busy, calls>>
       \/ data.form = "not positive" /\ notice' = {"error"} /\ UNCHANGED <<busy, calls>>
       \/ data.form = "valid" /\ notice' = {} /\ Starts("createTransaction", {"creating"}, <<>>)
    /\ UNCHANGED <<page, data>>

TransactionCreated(c) ==
    /\ page = "Transactions" /\ c.fn = "createTransaction"
    /\ data' = [data EXCEPT !.form = "empty", !.tab = 1]
    /\ notice' = {"success"}
    /\ EndsAndStarts(c, "getLatestTransactions", {"loading"}, <<>>)
    /\ UNCHANGED page

TransactionsAnswered(c) == HistoryAnswered(c) \/ TransactionCreated(c)

TransactionsStep ==
    \/ ChangeTab
    \/ \E form \in Form : FillTransactionForm(form)
    \/ CreateTransaction

-----------------------------------------------------------------------------
(* Mempool: data is the list *)

MempoolOpened == {Opened([list |-> <<>>], "getMempool", {"loading"})}

\* The interval and the button Refresh, whatever is under way.
FetchMempool ==
    /\ page = "Mempool"
    /\ Starts("getMempool", {"loading"}, <<>>)
    /\ notice' = {}
    /\ UNCHANGED <<page, data>>

\* The cards get the status.
MempoolAnswered(c) ==
    /\ page = "Mempool" /\ c.fn = "getMempool"
    /\ \E txs \in MempoolReplies :
         data' = [list |-> [i \in DOMAIN txs |-> [txs[i] EXCEPT !.status = "Pending"]]]
    /\ Ends(c)
    /\ UNCHANGED <<page, notice>>
=============================================================================
