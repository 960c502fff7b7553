------------------------------ MODULE Service ------------------------------
(***************************************************************************)
(* The requests of the browser's pages: the functions of                   *)
(* blockchainService.js with the answers a page can get from each, and the *)
(* state every page keeps of the functions it waits for.                   *)
(*                                                                         *)
(* One page is mounted at a time.  busy holds its flags that are raised    *)
(* (loading, miningLoading, ...), notice the alerts it shows, data what it *)
(* shows besides, and calls the functions it awaits.  A function of the    *)
(* service makes several requests in turn, but the page sees nothing       *)
(* before the last, so that an answer is one step; it is any answer the    *)
(* node, a failing network or the made-up data of the fallbacks allow.     *)
(* Addresses and retries of the POSTs are those of Client.tla.             *)
(***************************************************************************)
EXTENDS Client

SeqExt == INSTANCE SequencesExt

CONSTANTS MaxCalls,     \* bound: functions under way at once
          Height,       \* counts of blocks a node reports
          MockHeight,   \* the count of blocks made up when a request fails
          Difficulty    \* difficulties a node reports, and the user chooses

ASSUME ServiceAssumption ==
    /\ MaxCalls \in Nat \ {0}
    /\ Height \subseteq Nat \ {0} /\ MockHeight \in Nat
    /\ Difficulty \subseteq 1 .. 8

VARIABLES page,    \* the page that is mounted
          data,    \* what it shows
          busy,    \* its flags that are raised
          notice,  \* its alerts
          calls    \* the functions it awaits

uiVars == <<page, data, busy, notice, calls>>
clientVars == vars

-----------------------------------------------------------------------------
(* A function that is awaited lowers its flags when it ends *)

Call(id, fn, flags, arg) == [id |-> id, fn |-> fn, flags |-> flags, arg |-> arg]

FreeIds == {id \in 1 .. MaxCalls : \A c \in calls : c.id # id}

Starts(fn, flags, arg) ==
    /\ FreeIds # {}
    /\ LET id == CHOOSE i \in FreeIds : \A j \in FreeIds : i <= j
       IN  calls' = calls \cup {Call(id, fn, flags, arg)}
    /\ busy' = busy \cup flags

\* Mutant: the flags stay raised, for want of a finally.
LeavesRaised(c) ==
    /\ calls' = calls \ {c}
    /\ UNCHANGED busy

Ends(c) ==
    /\ calls' = calls \ {c}
    /\ busy' = busy \ c.flags

\* The next await of the same function of the page.
Continues(c, fn, arg) ==
    /\ calls' = (calls \ {c}) \cup {Call(c.id, fn, c.flags, arg)}
    /\ UNCHANGED busy

\* A function that calls another without awaiting it, and ends.
EndsAndStarts(c, fn, flags, arg) ==
    /\ calls' = (calls \ {c}) \cup {Call(c.id, fn, flags, arg)}
    /\ busy' = (busy \cup flags) \ c.flags

\* What a page is when it has just been mounted: its effects have called fn.
Opened(shows, fn, flags) == [data |-> shows, flags |-> flags, calls |-> {Call(1, fn, flags, <<>>)}]

\* One page takes the place of another, whose functions have nobody to return
\* to: what they would still ask is left out.
Mounts(p, opened) ==
    /\ page' = p
    /\ data' = opened.data
    /\ busy' = opened.flags
    /\ calls' = opened.calls
    /\ notice' = {}

-----------------------------------------------------------------------------
(* The values of JavaScript that the pages tell apart: numbers are         *)
(* integers, undefined and null two that no answer holds                   *)

Undefined == -1
Null == -2
Truthy(n) == n > 0
Or(n, m) == IF Truthy(n) THEN n ELSE m

-----------------------------------------------------------------------------
(* blockchainService.js: the answers of its functions *)

\* getStatistics never rejects: it makes numbers up, as attemptFetchFallback
\* does when it cannot read the answer.
MockStatistics == [height |-> MockHeight, difficulty |-> 4]

\* A node without a database answers with an error text and status 200.
NoStatistics == [height |-> Undefined, difficulty |-> Undefined]

StatisticsReplies ==
    [height : Height, difficulty : Difficulty] \cup {MockStatistics, NoStatistics}

\* getSettings: no node has /settings, so that the difficulty is all that is
\* ever loaded.
SettingsReplies == Difficulty \cup {4}

\* updateSettings: no node has /settings, which counts as success; an answer
\* that cannot be read is an empty object, which does not.
UpdateReplies == {"success", "error"}

\* Transactions as the API lists them: those of the mempool first.  placed is
\* where the transaction was when the node answered.
Transaction(own, block, status, placed) ==
    [own |-> own, block |-> block, status |-> status, placed |-> placed]

AtMostOne(S) == {<<>>} \cup {<<x>> : x \in S}

PendingListed == {Transaction(own, Undefined, "Pending", "mempool") : own \in BOOLEAN}
ConfirmedListed ==
    {Transaction(own, 1, "Confirmed", "chain") : own \in BOOLEAN}
      \cup {Transaction(FALSE, 0, "Confirmed", "chain")}

\* tryEndpoints: an answer that cannot be read becomes an empty list, and only
\* when every attempt fails does the caller see it.
LatestTransactions == {m \o c : m \in AtMostOne(PendingListed), c \in AtMostOne(ConfirmedListed)}

\* getMempool never rejects.  The entries have no status.
MempoolReplies == AtMostOne({Transaction(own, Undefined, "none", "mempool") : own \in BOOLEAN})

\* getWalletInfo never rejects: the wallet's own address or 'Your Wallet'.
WalletReplies == {"own", "Your Wallet"}

\* getLatestBlocks: the blocks from the newest, five at most; none when the
\* answer could not be read.
LatestBlocks(limit) ==
    {<<>>} \cup {[i \in 1 .. IF h < limit THEN h ELSE limit |-> h - i] : h \in Height}

\* getAllBlocks asks for the count and for block after block: one that fails is
\* skipped, one whose answer cannot be read is an object without a number.
AllBlocks(maxBlocks) ==
    LET Found(h, outcome) ==
            SeqExt!FlattenSeq([i \in DOMAIN outcome |-> CASE outcome[i] = "read"   -> <<h - i>>
                                                          [] outcome[i] = "opaque" -> <<Undefined>>
                                                          [] outcome[i] = "failed" -> <<>>])
    IN  {<<>>} \cup
        UNION {{Found(h, outcome) : outcome \in [1 .. IF h < maxBlocks THEN h ELSE maxBlocks
                                                   -> {"read", "opaque", "failed"}]}
                 : h \in Height \cup {MockHeight}}
=============================================================================
