--------------------------- MODULE DashboardPage ---------------------------
(***************************************************************************)
(* The page Dashboard (Dashboard.js), which fills gaps with data of its    *)
(* own.  data is the count of blocks, the rows of the latest blocks by     *)
(* where they come from ("node": the node, "mock": generateMockBlocks,     *)
(* "mined": made up when a block has been mined) and the transactions.     *)
(***************************************************************************)
EXTENDS Service

CONSTANTS Blocks,   \* rows the page asks for: five in the code
          MaxCount  \* bound: the count of blocks shown when one is mined

ASSUME DashboardAssumption == Blocks \in Nat \ {0} /\ MaxCount \in Nat

\* generateMockBlocks gets the number of rows where it expects the height, so
\* that there is always the full number of them.
MockRows == [i \in 1 .. Blocks |-> "mock"]

\* generateMockTransactions: the first is pending, the others (one of three here)
\* are in a block nobody has mined.
MockTransactions ==
    <<Transaction(FALSE, Null, "Pending", "nowhere"),
      Transaction(FALSE, 1, "Confirmed", "nowhere")>>

\* Whose a transaction is makes no difference here.
Anyones(txs) == [i \in DOMAIN txs |-> [txs[i] EXCEPT !.own = FALSE]]

\* The blocks and transactions of mockData have other names than those read.
DashboardOpened ==
    {Opened([height |-> MockHeight, rows |-> <<>>, transactions |-> <<>>],
            "fetchDashboardData", {"loading"})}

\* fetchDashboardData, by the interval: six functions of the service at once.
FetchDashboardData ==
    /\ page = "Dashboard"
    /\ Starts("fetchDashboardData", {"loading"}, <<>>)
    /\ UNCHANGED <<page, data, notice>>

\* All six have answered, or the first that rejects ends the waiting.
DashboardAnswered(c) ==
    /\ page = "Dashboard" /\ c.fn = "fetchDashboardData"
    /\ \/ \E height \in {Or(s.height, 0) : s \in StatisticsReplies},
             blocks \in LatestBlocks(Blocks),
             txs \in {Anyones(listed) : listed \in LatestTransactions} :
            data' = [height |-> height,
                     rows |-> IF blocks = <<>> THEN MockRows ELSE [i \in DOMAIN blocks |-> "node"],
                     transactions |-> IF txs = <<>> THEN MockTransactions ELSE txs]
       \/ data' = [height |-> MockHeight, rows |-> MockRows, transactions |-> MockTransactions]
    /\ Ends(c)
    /\ UNCHANGED <<page, notice>>

\* handleMineBlock: the flag is the one of the fetches.  The callbacks see the
\* count of this moment; the timeout is armed.
DashboardMine ==
    /\ page = "Dashboard" /\ "loading" \notin busy
    /\ data.height <= MaxCount
    /\ Starts("mineBlock", {"loading"}, <<data.height, TRUE>>)
    /\ UNCHANGED <<page, data, notice>>

\* Thirty seconds: the button becomes usable while the block is mined.
MiningTimesOut(c) ==
    /\ page = "Dashboard" /\ c.fn = "mineBlock" /\ c.arg[2]
    /\ calls' = (calls \ {c}) \cup {[c EXCEPT !.arg[2] = FALSE]}
    /\ busy' = busy \ c.flags
    /\ UNCHANGED <<page, data, notice>>

\* directPost never rejects: whatever became of the block, statistics follow.
BlockMined(c) ==
    /\ page = "Dashboard" /\ c.fn = "mineBlock"
    /\ Continues(c, "getStatistics", <<c.arg[1]>>)
    /\ UNCHANGED <<page, data, notice>>

\* A block with an invented hash takes the first row.  getStatistics never
\* rejects either, so that the catch is not reached.
MinedShown(c) ==
    /\ page = "Dashboard" /\ c.fn = "getStatistics"
    /\ \E s \in StatisticsReplies :
         data' = [data EXCEPT !.height = Or(s.height, c.arg[1] + 1),
                              !.rows = <<"mined">> \o SubSeq(@, 1, Len(@) - 1)]
    /\ Ends(c)
    /\ UNCHANGED <<page, notice>>

DashboardPageAnswered(c) == DashboardAnswered(c) \/ BlockMined(c) \/ MinedShown(c)

DashboardStep == FetchDashboardData \/ DashboardMine \/ \E c \in calls : MiningTimesOut(c)
=============================================================================
