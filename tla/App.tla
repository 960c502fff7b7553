-------------------------------- MODULE App --------------------------------
(***************************************************************************)
(* The browser's program: its pages (App.js), with the sidebar that leads  *)
(* from one to the other (MainLayout.js), and its list of nodes.  Three    *)
(* parts of every page are explored like pages of their own: "Header" and  *)
(* "Selector" (HeaderPages.tla), and "Any", the list, the POSTs and the    *)
(* polling of Client.tla.                                                  *)
(***************************************************************************)
EXTENDS MiningPages, WalletPages, ExplorerPages, NetworkPages, DashboardPage, HeaderPages

appVars == <<clientVars, uiVars>>

\* The routes the sidebar has.
Routes == [Dashboard    |-> DashboardOpened,
           Blockchain   |-> BlockchainOpened,
           Mempool      |-> MempoolOpened,
           Mining       |-> MiningOpened,
           Transactions |-> TransactionsOpened,
           Wallet       |-> WalletOpened,
           Explorer     |-> ExplorerOpened,
           Peers        |-> PeersOpened,
           Sync         |-> SyncOpened,
           Settings     |-> SettingsOpened]

Details == {"Block", "Transaction", "Address"}
Parts == {"Any", "Header", "Selector"}
Pages == DOMAIN Routes \cup Details \cup Parts

AnyOpened == {[data |-> <<>>, flags |-> {}, calls |-> {}]}

Opens(p, opened) ==
    /\ page = p
    /\ data = opened.data
    /\ busy = opened.flags
    /\ calls = opened.calls
    /\ notice = {}

AppInit ==
    /\ Init
    /\ \/ \E o \in DashboardOpened : Opens("Dashboard", o)
       \/ \E o \in AnyOpened : Opens("Any", o)
       \/ \E o \in HeaderOpened : Opens("Header", o)
       \/ \E o \in SelectorOpened : Opens("Selector", o)

\* A click on the sidebar.
Navigate(p) ==
    /\ page \notin Parts \cup {p}
    /\ \E o \in Routes[p] : Mounts(p, o)

\* A click on a transaction's card.
OpenCard ==
    /\ \/ page \in {"Wallet", "Transactions", "Mempool"} /\ data.list # <<>>
       \/ page = "Dashboard" /\ data.transactions # <<>>
    /\ "loading" \notin busy
    /\ \E n \in Number : Mounts("Transaction", TransactionOpened(n))

PageStep ==
    \/ MiningStep
    \/ SettingsStep
    \/ WalletStep
    \/ TransactionsStep
    \/ FetchMempool
    \/ ExplorerStep
    \/ PeersStep
    \/ SyncStep
    \/ DashboardStep
    \/ OpenCard
    \/ \E p \in DOMAIN Routes : Navigate(p)

\* A function that the page awaits goes on.
Answered(c) ==
    \/ MiningAnswered(c)
    \/ SettingsAnswered(c)
    \/ WalletAnswered(c)
    \/ TransactionsAnswered(c)
    \/ MempoolAnswered(c)
    \/ ExplorerPagesAnswered(c)
    \/ PeersPageAnswered(c)
    \/ SyncAnswered(c)
    \/ DashboardPageAnswered(c)
    \/ HeaderPagesAnswered(c)

Quietly(A) == A /\ UNCHANGED clientVars

AppNext ==
    \/ page = "Any" /\ Next /\ UNCHANGED uiVars
    \/ CheckPeriodically
    \/ HeaderListStep
    \/ SelectorStep
    \/ Quietly(PageStep)
    \/ \E c \in calls : Quietly(Answered(c))

AppSpec == AppInit /\ [][AppNext]_appVars

OnAny(A) == page = "Any" /\ A /\ UNCHANGED uiVars

\* Requests end or time out, so that every function goes on; the intervals of
\* the pages go off, that of the Dashboard (strongly fair: only the bound on
\* calls can keep it waiting) also while the user mines block after block.
AppFairSpec ==
    /\ AppSpec
    /\ WF_appVars(OnAny(DirectPost))
    /\ WF_appVars(OnAny(\E s \in sends, fate \in {"done", "refused", "lost"} : Settle(s, fate)))
    /\ WF_appVars(OnAny(Poll))
    /\ \A url \in Url : WF_appVars(OnAny(Resolve(url)))
    /\ \A id \in 1 .. MaxCalls : WF_appVars(\E c \in calls : c.id = id /\ Quietly(Answered(c)))
    /\ WF_appVars(CheckPeriodically)
    /\ SF_appVars(Quietly(FetchDashboardData))

-----------------------------------------------------------------------------
(* Properties *)

Flag == {"loading", "mining", "difficulty", "creating", "saving", "checking", "testing"}

\* The types of the variables, page by page.
AppTypeOK ==
    /\ ClientTypeOK
    /\ page \in Pages
    /\ busy \subseteq Flag
    /\ notice \subseteq {"success", "error", "warning", "info"}
    /\ \A c \in calls : c.id \in 1 .. MaxCalls /\ c.flags \subseteq Flag
    /\ \A c, d \in calls : c.id = d.id => c = d
    /\ page = "Mining"     => data \in [difficulty : 1 .. 8, slider : 1 .. 8]
    /\ page = "Settings"   => data \in [difficulty : 1 .. 8, edited : BOOLEAN]
    /\ page = "Wallet"     => data.address \in WalletReplies \cup {""} /\ data.form \in Form
    /\ page = "Explorer"   => data.height \in Nat /\ Len(data.blocks) <= Rows
    /\ page = "Blockchain" => Len(data.blocks) <= MaxBlocks
    /\ page = "Sync"       => data.progress \in 0 .. Steps
    /\ page = "Dashboard"  => Len(data.rows) <= Blocks
    /\ page = "Header"     => data.port \in Nat \cup {Undefined, Null}
    /\ page = "Selector" /\ data.dialog = "edit" => data.index \in DOMAIN nodes \cup {Undefined}

\* The pages do what Fetching.tla promises: whatever answers are late, fail or
\* come twice, no button or spinner waits for a function that is not under way.
Waiting == {[id |-> c.id, flags |-> c.flags] : c \in calls}
Fetches == INSTANCE Fetching WITH
               Page <- Pages, Id <- 1 .. MaxCalls, waiting <- Waiting,
               Flags <- {{}} \cup {{f} : f \in Flag}
PagesRefine == Fetches!FetchSpec

\* Every button becomes usable again, and every spinner goes: that of a POST,
\* and those of the pages unless the user leaves page after page for ever.
ButtonsComeBack ==
    /\ []<>(phase = "idle")
    /\ \A f \in Flag : []<>(f \notin busy) \/ []<><<page' # page>>_page

\* Of a transaction the node has listed Confirmed is said when it is in a block,
\* and only then, through all the forms it takes on its way to a page; so it is
\* of the wallet's placeholder, which is in none.  Two exceptions: of block 0
\* the explorer says Pending, as it takes the number for a truth value, and of
\* the transactions the Dashboard makes up when the node lists none or does not
\* answer it says Confirmed, although they are nowhere.
Tells(chip, tx) == (chip = "Confirmed") <=> (tx.placed = "chain")
ChipsTell ==
    /\ page = "Dashboard" =>
         \A i \in DOMAIN data.transactions :
           LET tx == data.transactions[i]
           IN  tx.placed = "nowhere" \/ Tells(CardChip(tx), tx)
    /\ page = "Wallet" => \A i \in DOMAIN data.list : Tells(ItemChip(data.list[i]), data.list[i])
    /\ page \in {"Transactions", "Mempool"} =>
         \A i \in DOMAIN data.list : Tells(CardChip(data.list[i]), data.list[i])
    /\ page = "Explorer" =>
         \A i \in DOMAIN data.list : data.list[i].block = 0 \/ Tells(DetailChip(data.list[i]), data.list[i])
    /\ page = "Transaction" /\ TransactionShows = "transaction" =>
         data.tx[1].block = 0 \/ Tells(DetailChip(data.tx[1]), data.tx[1])

\* The state of the synchronisation that is shown agrees with whether one is
\* going on, also when answers of several starts and refreshes come in between.
SyncConsistent ==
    page = "Sync" =>
      /\ (data.status = "syncing" => data.inProgress)
      /\ (data.status \in {"completed", "cancelled"} => ~data.inProgress)
      /\ (data.status = "completed" => data.progress = Steps)
      /\ (data.inProgress => data.progress < Steps \/ data.ending)

\* A page stands in for the node when the user has acted: the wallet with a
\* placeholder for the transaction it has sent, the Dashboard with a block row
\* for the one it had mined.  No stand-in stays for ever, although answers that
\* were under way, timeouts and further clicks put old lists and new stand-ins
\* back.  What comes after it is what the node lists, or, when that is nothing
\* or there is no answer, an empty list (Wallet) and rows and transactions made
\* up afresh (Dashboard), which this does not count.
StandIn ==
    \/ page = "Wallet" /\ \E i \in DOMAIN data.list : data.list[i].placed = "nowhere"
    \/ page = "Dashboard" /\ \E i \in DOMAIN data.rows : data.rows[i] = "mined"
StandInsGo == []<>~StandIn

\* Once the user stays with a node, the page comes to show that node's numbers
\* or made-up ones, and the header the first digits of its address (its port, if
\* there are none before it) or nothing, and never again those of a node that
\* was selected before, however the answers of those nodes come in.
ShowsActiveNode ==
    \A url \in Url :
      /\ <>[](page = "Any" /\ BaseUrl = url) => <>[](shown \in {url, Mock})
      /\ <>[](page = "Header" /\ BaseUrl = url) => 
            <>[](page = "Header" /\ data.port \in {FirstDigits[url], Null})
=============================================================================
