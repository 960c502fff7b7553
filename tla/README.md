# CelestialChain in TLA+

A specification of CelestialChain, the blockchain node in C++ (`src/*.cpp`, `src/api`) and
its browser client (`src/web/blockchain-ui`): what a node does to its chain, its mempool and
its balances, what its threads do to each other, what a stopped process leaves behind, what
nodes tell each other, what the browser sends where, and what its pages make of the answers.
The models are checked with TLC on small instances; what matters most is proved with TLAPS
for every value of the constants.

Line numbers below refer to the repository at the commit the project was written for.
`PROJECT.json` maps every definition to its lines.

## The system

A node is one process with three threads: the main thread with the menu of `NodeApp.cpp`,
the thread of the HTTP server (`api/CelestialChainAPI.cpp`) and the thread of the
`io_context` (`NetworkNode.cpp`). They share one `Blockchain`, one `Wallet` and one
database. `NetworkManager` has a mutex for its peers and one for its connections;
**`Blockchain`, `Wallet` and `BalanceMapping` have no lock.**

| Component | State | Operations | Talks to |
|---|---|---|---|
| Ledger rules: `Transaction`, `Block`, `BalanceMapping` | none of their own; `balance:` keys | `isValid`, `validateTransactions`, `processTransaction` | called by `Blockchain` |
| `Blockchain` | `chain`, `mempool`, `difficulty` | `mineBlock`, `addExistingBlock`, `addTransaction`, `loadFromDatabase`, `isValidChain` | calls the balances and the database; called by all three threads |
| `BlockchainDB` | LevelDB keys `block:n`, `tx:h`, `balance:a` | `saveBlock`, `getBlock`, `put`, `verifyDatabaseIntegrity` | read at the start only, written by every block |
| `Wallet` | key pair, own idea of the balance, the `.ini` file | `sendMoney`, `getBalance`, `saveToIniFile`, `loadFromHostPort` | called by the menu and the API; its balance is reset from the database |
| `NetworkManager`, messages | `failedBlockCount`, what is under way on each connection | `broadcast…`, `requestBlockchain`, `handleMessage` | other nodes; calls `Blockchain` on the network thread |
| `NetworkManager`, peers | `peers`, `connections` | `connectToPeer`, `handleAccept`, HANDSHAKE, PEER_LIST, `stop` | other nodes |
| HTTP API and explorer | none | mine, pay, connect, sync; blocks, transactions, addresses | reads and calls everything above |
| Browser, list of nodes | `nodes`, `DEFAULT_NODES`, `localStorage` | select, add, edit, remove, reset, reload, test a connection | decides where requests go |
| Browser, requests | a POST with its retries | `directPost`; the other functions of `blockchainService.js`, each several requests in turn with fallbacks and made-up data | the API of the selected node; called by the pages |
| Browser, pages | for the page that is mounted: what it shows, the flags that disable its buttons, its alerts, the functions it awaits | Dashboard, Blockchain, Mempool, Mining, Transactions, Wallet, Explorer, Peers, SyncNetwork, Settings; the details of a block, a transaction, an address | call the requests; lead from one to the other |
| Browser, header | the "port" shown (the first digits of the node's address), the dialogs of `NodeSelector` | `NodeStatus` checks by an interval; select, add, edit, test | the list of nodes, the requests |

What is hard about it, and which module has it:

- **Threads without a lock.** `mineBlock` reads the last block, works for seconds and pushes
  without looking again; `processTransaction` reads two balances and writes them later;
  `sendMoney` compares the wallet's balance, signs, and debits it whatever the menu and the
  API have debited meanwhile (`Blockchain`).
- **Stops.** Balances are written before their block is saved; blocks do not come back from
  the database as they went in; `--clean` leaves the database as it is (`Storage`). The file
  with the node's only key is emptied and rewritten on every payment; a save that fails
  after that leaves it empty, and nobody looks (`Wallet`).
- **Other nodes.** Messages are relayed, repeated, lost with their connection; a longer
  chain is appended instead of replacing (`Network`). A peer is listed before it is dialled
  and never taken off; a node may be told to dial itself, and need not know the address its
  peers see (`Peers`).
- **Retries and late answers.** A POST that mines or pays is sent up to three times while
  the user selects other nodes; answers come in any order; the list of nodes and its
  defaults share their objects (`Client`).
- **Pages that fetch.** Intervals, buttons and effects call the same function while it is
  under way; each call raises and lowers flags the others use; answers of a node selected
  before come after those of the next; where an answer is missing the page shows data of its
  own, and after a click data it has made up (`MiningPages`, `WalletPages`, `ExplorerPages`,
  `NetworkPages`, `DashboardPage`, `HeaderPages`).

`PROJECT.json` lists these hazards one by one, each at its line with the properties that
cover it, and those that no property covers yet, with the reason.

## The modules

```
Ledger ─┬─ Blockchain ── BlockchainProperties ─┬─ Explorer ── MCBlockchain
        │                                      └─ Storage ─── MCStorage
        └─ Network ── MCNetwork
Peers ── MCPeers                                 Wallet ── MCWallet

Posting ◄╌ Client ── Service ─┬─ MiningPages ──── WalletPages ───┐
                              ├─ ExplorerPages ── NetworkPages ──┼── App ── MCClient
                              └─ DashboardPage ── HeaderPages ───┘    ╎
                                                                  Fetching
Proofs:
Ledger ── LedgerProofs ─┬───────── NetworkProofs (with Network)
                        └───────── BlockchainSerialProofs ── StorageProofs (with Storage)
BlockchainProperties ── BlockchainProofs ──┘ (with Explorer)
Peers ── PeersProofs      Wallet ── WalletProofs      App ── AppProofs
```

A line is EXTENDS (`App` extends all six modules of pages), a dotted one a refinement:
`Client` and `App` instantiate the abstract specification and state that they implement it.

**`Ledger`** has the data, `Tx` and `Block`, and the rules that are functions of it:
`IsValid`, `ValidateTransactions`, `VerifyTransactionBalance`, `ProcessTransaction`,
`UpdateBalances`, `Rebuild`. A transaction *is* its hash (two with the same fields have the
same hash in the code, seconds included), a block has its number, the hash before it, its
own hash and its transactions. A mined block gets a hash that no block has. `Reward` is a
constant. Amounts are integers.

**`Blockchain`** is one node with its threads, each with a `pc`, and its peers as the
environment, which deliver any broadcast block or transaction at any time, in any order,
again. `mineBlock` is `MineBlock` (up to the proof of work), `PushMined` or `RefuseMined`,
then for each transaction `ReadBalances`/`WriteBalances` or `SkipTransaction`, and
`FinishBlock`; `addExistingBlock` is `ReceiveBlock` and the same tail. `sendMoney` is
`SendMoney` up to its comparison with the balance (or `SendMoneyFails`, whose empty
transaction the callers submit all the same), and then, when it has signed, `DebitWallet`,
between which any thread may do anything; `addTransaction` is `SubmitTransaction`. The
*serial* node is the instance in which all this is done by one thread.

**`BlockchainProperties`** states what is checked of it, **`Explorer`** what the node
answers about its chain (pure operators, checked in every state of the serial node).

**`Storage`** extends the node with `Start…`: the process is stopped in any state and
started again on the keys it left, through the four ways a start can go (`StartClean`,
`StartEmpty`, `StartLoaded`, `StartInvalid`). `Deserialized` is what a saved block is when
it is read back.

**`Network`** has several nodes, their connections and what is under way on each. A node
handles one message at a time, so that a call is one step here (the steps of overlapping
calls are in `Blockchain`). `ReceiveBlock`, `RejectBlock`, `AdoptChain`, … are the branches
of `handleMessage`.

**`Peers`** has the same nodes without their chains and with their connections in detail:
dialled, accepted, handshaken, listed, broken, and nodes that stop and start. A connection
has two *ends*, which may both be one node's: the menu and `POST /api/peers/connect` let a
node dial itself. Only the bootstrap loop and the reader of a list look for the node's own
address, and they compare it with the node's own host string; `Wildcard` are the nodes for
which that string (`0.0.0.0`, a name) is not the address their peers see.

**`Wallet`** has the key file line by line and the threads that save it, with saves that end
early (`SaveFails`) and files that cannot be opened or read (`OpenFails`,
`StartUnreadable`). Four history variables say what became of the key: which thread emptied
the file last, whether its save was cut short, whether the file was never opened for the
key, whether the last start could not read it.

**`Client`** has the list of nodes as references to objects (what a shallow copy of
`DEFAULT_NODES` shares is seen), one POST through its phases axios → fallback → fetch with
every way a request can end, and a page that polls.

**`Posting`** is what `directPost` promises: a POST has one address, the one selected when
the button was pressed, and is sent at most three times, whatever becomes of the requests.
`Client` implements it (`PostsRefine`, `DirectPostImplementsPosting`).

**`Service`** has the other functions of `blockchainService.js` and the state of a page:
`page` is the one that is mounted (`App.js` mounts one at a time), `data` what it shows,
`busy` its raised flags (`loading`, `miningLoading`, …), `notice` its alerts and `calls` the
functions it awaits, each with the flags it will lower. A function makes several requests,
but the page sees nothing before its end, so that an answer is one step, and is any value
the node, a failing network, an opaque answer or the fallbacks allow. `undefined` and
`null`, which the pages tell from numbers, are two negative numbers; `Or` is `||`.

**`MiningPages`** (Mining, Settings), **`WalletPages`** (Wallet, Transactions, Mempool and
the chips Pending and Confirmed), **`ExplorerPages`** (Explorer with its search, the three
details, Blockchain), **`NetworkPages`** (Peers, SyncNetwork with its simulated progress,
whose tick to the end and `completeSyncProcess` are two steps) and **`DashboardPage`** (rows
and transactions of the node, or made up with the status Confirmed) have one action per
handler, effect, timer and answer of a page. **`HeaderPages`** has `NodeStatus`, which shows
the first run of digits of the selected address as its port (`FirstDigits`) or none, and the
dialogs of `NodeSelector`.

**`App`** is the program: which page takes the place of which, all pages' steps and those of
`Client`. Three parts every page has are explored as pages of their own: `"Any"` (list,
POSTs and polling of `Client`), `"Header"` and `"Selector"`. They share the list of nodes
with the pages and nothing else, so that a page beside them adds no behaviour to theirs.

**`Fetching`** is what the pages promise about buttons and spinners: a flag is raised only
with a function that is awaited and will lower it. `App` implements it (`PagesRefine`,
`PagesImplementFetching`), and in `Fetching` every raised flag has such a function
(`EveryFlagComesDown`).

Operators whose comment begins with "Mutant:" are not part of the specification. Each is a
definition as a plausible bug would have it; put in its place it makes the property
`PROJECT.json` names fail, which shows that the property is about the code.

## The runs

| Run | Instance | Shows |
|---|---|---|
| `serial` | one thread, two addresses, three mined blocks (with the peer's), payments of 1 to both addresses; 226 393 states | `ChainLinked`, `BalancesAreReplay`, `CoinsAccounted`, `ChainStored`, `MiningKeepsPending`; the explorer: `NumbersLeadBack`, `ListsAgreeWithDetails` |
| `threads` | two user threads (menu and API) and the network thread, two mined blocks, amounts 1 and 2; 61 866 states | `TypeOK`, `OverdraftBounded`, `Rooted`, `BlocksWellFormed`; fair: `CallsReturn` |
| `restart` | the serial node, two stops anywhere, starts with and without `--clean`; 777 667 states | `StorageTypeOK`, `NoSelfFork`, `HeadersSurvive`, `CrashMintsOneReward`, `StartKeepsBalances` |
| `chains` | two full nodes and a wallet node in a line, different difficulties, connections that break | `NetTypeOK`, `Agreement`, `BlocksPayOneReward`, `ChainsOnlyGrow` |
| `newcomer` | a ring of the only miner, a relaying wallet node and a wallet node that asks, fair handlers | `NewcomerCatchesUp`; a block that arrives twice, by both ways round |
| `peers` | three nodes, one in the bootstrap list, one told to dial itself, one that does not know its address; they stop and start; 5 750 states | `PeersTypeOK`, `OwnPeerWasDialled`; fair: `HandshakeCompletes`, `PeersSpread` |
| `client` | the whole browser: two default nodes, a list of at most two, one POST, every page with at most two functions under way; 135 110 states | `AppTypeOK`, `OneNodePerClick`, `AtMostThreeTimes`, `ChipsTell`, `SyncConsistent`, `ReloadKeepsList`; the refinements `PagesRefine`, `PostsRefine`; fair: `ButtonsComeBack`, `StandInsGo`, `ShowsActiveNode` |
| `wallet` | two threads, three keys, two stops, saves that fail anywhere; 8 071 states | `WalletTypeOK`, `KeyFileComplete`, `KeyComesBack` |
| `race` | three threads | `ChainLinked` does **not** hold: README.md:163 |
| `preserved` | stops only between calls, no `--clean` | `StatePreserved` does **not** hold: README.md:269 |
| `adopt` | two nodes | `AdoptsLongerChain` does **not** hold: README.md:238, NetworkNode.cpp:662 |
| `discovery` | three nodes, fair | `DiscoveredAreDialled` does **not** hold: README.md:185, NetworkNode.cpp:897 |

The last four are disagreements between what the repository says and what the code does;
`PROJECT.json` describes each under "findings".

*Bounds.* The size of `Hash` bounds the blocks that can be mined in a run (a proof of work
that has started always finds a hash: `HashLeft`); `MaxPeerTxs` the transfers in a block of
a peer; `Payers`, `Askers` and `Topology` which users pay, ask and connect; `MaxRestarts`,
`MaxStops`, `MaxClicks`, `MaxDials` and `MaxNodes` what they say; `MaxChannel` the messages
under way on a connection when a *user* adds one (what handlers add is never held back).
Three mined blocks are enough for a block that follows a fork of two, for the limit of empty
blocks (the genesis block counts), for an overspending block and one after it, for a
transaction confirmed twice; two stops for a stop during the recovery from a stop; a line of
three nodes for a relay, and for a wallet node that has what it knows by relay only (in a
ring two miners could make refused blocks go round without end, so the ring of `newcomer`
has one miner). `threads` mines two: a block of the node and one of a peer that race for a
place are two, and the longer chains are in `serial`; what it needs instead is a second user
thread and a second amount, so that two payments pass the comparison before either debits,
of the same amount or of different ones. Two addresses are enough for a payment to somebody
else and one to oneself. `Times = {1}` makes two equal payments the same transaction, as
they are in the code within one second; with several times they differ, and less can happen.
The hashes other than the genesis block's, and the keys of `wallet`, are interchangeable, so
their permutations are used as symmetry in the runs without liveness properties.

In `client`: `MaxCalls` (2) is the number of functions a page awaits at once, so that a
second call of a function overlaps the first, an answer comes late, and a function started
by another goes on beside it; an action that would start a third waits. `Height` and
`Difficulty` are what nodes report, `MockHeight` is the made-up count, higher than both so
that it can be told from them. `Rows`, `Blocks` and `MaxBlocks` are the code's 5, 5 and 20,
at 2: enough for a list that is full, partly filled and empty, with a block that fails and
one that is opaque beside one that is read. `MaxListed` is the length of the wallet's list
at which the user stops paying, `MaxCount` the count at which he stops mining on the
Dashboard; `Steps` the parts in which the simulated progress is counted (the code adds
random percentages up to 100): not begun, half way, complete.

*Deadlock* is checked in `serial`, `threads`, `restart`, `client` and `wallet`, where
somebody can always do something (view a wallet, edit the list, restart). `Network` and
`Peers` can come to rest, when all hashes or dials of the bound are used and nothing is
under way, and so are run with `CHECK_DEADLOCK FALSE`.

*Fairness.* `Blockchain`: weak fairness of `Continue(t)`, since a thread inside a call is
scheduled by the operating system, and the proof of work ends with probability one; no call
is fair to *start*. `Network`, `Peers`: weak fairness of reading what has arrived on each
live connection, since the `io_context` thread runs all ready handlers; users, breaks, stops
and dials are not fair. `App`: weak fairness of the steps of a POST (`await` resumes once
the request has ended), of requests ending (axios has a timeout, a fetch ends with its
connection), of the answer of each awaited function, of the polling timer and the header's
interval; strong fairness of the Dashboard's interval. An interval goes off whatever the
user does, and only the bound `MaxCalls` can make it wait while he presses buttons, which is
why that one is strong. The user is never fair. Nothing in `Wallet` or `Storage` needs
fairness.

## What is proved

TLAPS proves, for any threads, addresses, hashes, nodes and keys (the constants are bound
only by the named assumptions of the modules, and by the hypotheses named here):

- **`LedgerProofs`** has the lemmas on the operators of `Ledger`: what each leaves of the
  types and the balances, that `Rebuild` of a chain with one more block is `UpdateBalances`
  of the chain's own, that `ReturnTransactions` only adds to the mempool. `Rebuild` and
  `UpdateBalances` are recursive functions on the naturals; what holds of them is shown by
  induction over a *set* of numbers (`EveryNumber`: a set that holds 0 and with each number
  the next one holds all of them), the form of induction that needs no operator as a
  parameter.
- **`BlockchainProofs`**, for any number of interleaved threads.
  `TypeCorrect`: the types, with `TypeInv`, which adds that the index of the transaction
  being written is in its block.
  `OverdraftIsBounded`, for finitely many user threads. For the balances in the database
  `BalanceInv` adds that what has been read covers the amount: what `WriteBalances` writes
  was read earlier, need not be what the database holds by now, and the proof does not use
  that it is. For the wallet, `WalletInv` counts the threads that have compared and not yet
  debited. Each of them may still take up to the limit, so that the balance must be at least
  minus the limit for every *other* user thread but one; or else one of those that sign is
  known better, since it compared its own amount: when that is paid, the balance is at least
  minus the limit for every other user thread (`SigningCovered`). A debit turns a thread
  that signs into one of the others; what sets the balance again sets it to a number that is
  not negative. The amounts are only counted, never summed, so that cardinalities are
  enough.
  `ChainRooted`, `ChainWellFormed`: `ChainInv` is both with what they rest on. Hashes are
  unique in the chain and a block's number is less than its place. A block a peer has
  broadcast is in the chain, or hangs on a block of it with the next number. A block being
  mined sits on a block the chain still holds, with a smaller number, and its own number is
  at most the chain's length. A block being applied is in the chain.
- **`BlockchainSerialProofs`**, under the hypothesis `Serial` that there is one thread.
  `SerialChainLinked`, `SerialChainStored`, `SerialMiningKeepsPending`: `SerialInv` adds to
  `ChainInv` that the chain is linked, that the block in work is the next one after its end
  and holds all that is pending, and that the database has all but the block in work. `race`
  shows that the hypothesis is needed.
  `SerialBalancesAreReplay`: `ReplayInv` follows the block in work transaction by
  transaction. The balances are the replay of the chain without it and of its transactions
  so far; what was read for the next one is what the database still holds.
  `SerialCoinsAccounted`, for finitely many addresses: `CoinInv` adds that no transaction
  but a block's own reward is from the pseudo-sender and none goes to it; that the sum is
  right for a chain is then an induction over its blocks and their transactions.
  `SerialListsAgree`, `SerialNumbersLeadBack`, the explorer in any state of that node: both
  follow from `SerialInv`, and from how lists are made. Flattening keeps the order of the
  blocks, newest first, and so do the selection by address and the cut at the limit; pending
  entries come first.
- **`StorageProofs`**, for any stops and starts. `StorageTypeCorrect`, `StartsKeepBalances`:
  the scan for `block:0, block:1, …` ends at a first gap; every block that was saved ends in
  its reward, which it loses when it is read back (`RewardInv`), so that the only chain a
  start accepts is the genesis block, and it changes no balance but by resetting all.
  `SavedHeadersSurvive`, `NodeForksNotItself`, for one thread: as long as `--clean` was not
  used, the database holds the headers of the chain, all but that of the block in work;
  blocks with one hash are one block; what the node has broadcast it has saved (`HeadInv`).
  After `--clean` none of this holds, as the chain begins again under the old keys.
  `CrashesMintOneReward`, for one thread, finitely many addresses and a node that is paid by
  others only (`Me \notin Receivers`: a payment to oneself creates coins, and the bound is
  about rewards): the coins are at most one reward for each saved block and each restart
  and, within a call, what the block in work has paid so far (`IncomeInv`). `restart` checks
  the same instance.
- **`NetworkProofs`**, for any nodes, connections and lengths of chains. `NetTypeCorrect`,
  `NodesShareHistory`, `RewardPerBlock`, `ChainsAreFinal`, all from `NetInv`: every chain
  begins with the genesis block and is linked, its balances are those of a replay; over all
  nodes a block is known by its hash and its parent is on a chain too; messages carry only
  such blocks. Chains that share a block then share everything before it, by induction from
  its number downwards. A longer chain is appended from the end of the node's own or not at
  all, and so nothing is taken back.
- **`PeersProofs`**. `NobodyLearnsOfItself`: a node lists itself by a handshake only if both
  ends of the connection are its own, which somebody has then dialled, and by a list only if
  it does not recognise its address (`OwnInv`). `PeersTypeCorrect`: a connection that is not
  there carries nothing (`ConnInv`).
- **`WalletProofs`**: `WalletTypeCorrect`; `FileKeepsKey` and `KeyReturns`, from `FileInv`:
  the lines in the file belong to one key, to the node's while a thread writes; and, unless
  the file was never opened for this key or the save that emptied it last was cut short, by
  a stop or by an error, each line is there or will still be written by the thread that
  emptied it or by the constructor, which has yet to open it. So a start that comes back
  with another key has one of these two reasons or a file that it could not read.
- **`AppProofs`**. Of `Client`: `PostsStayWithTheirNode`, from `ClickInv`: every request
  belongs to a click and carries the address that was selected at that click. `AtMostThree`,
  from `TryInv`: the requests of a click are numbered, no number is used twice, and the
  phase of `directPost` says which are used.
  `ReloadShowsTheList`, from `ListInv`: what is stored is the list as the user left it, or
  nothing is stored and the list is that of the defaults. It needs that the reload selects
  what was selected: the first flagged node, and that there is a first one is the
  well-foundedness of the naturals.
  `DirectPostImplementsPosting`: every step of `Client` is a step of `Posting` or a stutter.
  Of the program: `AppImplementsClient`: no page, dialog or interval touches the list or the
  POSTs but by an action of `Client`, so that what is proved of `Client` holds of the
  program (`AppKeepsPromises`). `PagesImplementFetching`: the functions awaited have
  distinct names (`CallsInv`), and every step of every page is one of four moves (`Stays`,
  `Asks`, `Hears`, `Leaves`), each a step of `Fetching`. `EveryFlagComesDown`: in `Fetching`
  it is inductive that each raised flag is covered by a function that will lower it, and the
  program has it by the refinement.
  `SynchronisationIsShown`, from `SyncInv`.
  `ClientTypeCorrect`: the objects kept are those of the defaults and of the list, and the
  list has none twice (`ObjectsInv`); they are fewer than the references, so that `Fresh`
  finds one. `AppTypeCorrect`, `ChipsTellTheTruth`: `ShownInv` has a part for each page, the
  Dashboard too. Lists hold only transactions as the API lists them and entries a page makes
  up, and so does what a payment keeps to put before them when it ends. The transactions the
  Dashboard makes up are told from the node's by their place, nowhere: it calls them
  Confirmed, which is the exception the property states. A list made by flattening is no
  longer than its page asks for, which is shown by induction over the set of lengths that
  have it. `FlagsInv`, `NoticeInv`: what functions under way will lower and announce is of
  the kinds the pages know.

Only model-checked: the liveness properties (`CallsReturn`, `NewcomerCatchesUp`,
`HandshakeCompletes`, `PeersSpread`, `ButtonsComeBack`, `StandInsGo`, `ShowsActiveNode`),
which are out of the prover's reach. Every safety property of the passing runs is proved. Of
the properties that the last four runs refute there is nothing to prove.

## What the models leave out

- Hashing, signatures and the encoding of messages. A hash identifies what it was computed
  from, a wallet's transfer verifies, and a message arrives as sent or is lost with its
  connection. `Connection::send` passes a local buffer to `async_write`, which makes any
  message possible; nothing could be said of such a network.
- Two threads inside one `std::vector` or map at once, and the `BalanceMapping` that
  `NodeApp.cpp:159` leaves dangling. A step of a thread is atomic: `ReceiveBlock` takes the
  scan of the chain (NetworkNode.cpp:545), the proof of work in `Block`'s constructor (570),
  the guards (Blockchain.cpp:82-96) and the push as one, and `DebitWallet` the `-=` of
  wallet.cpp:156. That the process may die at any step is in `Storage`.
- What the threads do to each other's balances in the database: two `processTransaction`
  that overlap lose one of their updates. The steps are in `Blockchain` and the behaviours
  in `threads`, but no property forbids it, as nothing in the code could hold it; the serial
  node has the exact balances.
- Puts that fail (the code only logs them), reads that fail or fall back
  (balanceMapping.cpp:58-72), corrupted values, and with them `verifyDatabaseIntegrity`; the
  `tx:` keys, which the node writes and never reads; journal and world state, which have no
  caller.
- The difficulty of blocks. `Network` takes it to be that of the miner's node, which does
  not change; the other modules do not need it.
- In `Network`: overlapping calls, restarts, refused payments (all in `Blockchain` and
  `Storage`), the handshake (one step, detailed in `Peers`).
- In `Peers`: `remote_endpoint()`, which throws when the other end has gone and then ends
  `io_context.run` (NetworkNode.cpp:239, 152-156). That a node never dials again after a
  break is in the model; `HandshakeCompletes` and `PeersSpread` promise nothing for a
  connection that closes.
- In `Wallet`: the balance in the file, which is not used when there is a database; a line
  of which only a part reaches the file (a line that counts is one that can be read back);
  generation of a key that fails, and `create_directories`, which may throw: the node then
  does not start. One process per host and port. The key of a stopped process is remembered
  to say what was lost.
- In the browser: that `localStorage` may fail (nodeConnectionManager.js:41-43: the list is
  then not saved, and the error only logged). The rows and transactions that the Dashboard makes up
  when the node lists none or does not answer are in the model, but stay as long as the node
  does not answer: `StandInsGo` is about what a page shows *in place of* the node's answer
  to a click, and does not count them.
- Further in the browser: names of nodes, the manager's `activeNode` field, which nobody
  reads, and a second tab with the same `localStorage`. Requests that a page would still
  make after it was left (their answers reach nobody). Charts, estimates, wording, themes,
  and elements that only show (`BlockCard`, `StatCard`, `NotFound`). Functions of the
  service without a caller: `search`, `fallbackGet`, `getBlockchain`, `getAddressInfo`,
  `getTopAddresses`; `catch` branches around functions that never reject.
- The reward's halving, which is a function of the clock: `Reward` is one constant. A node's
  difficulty is never set again (`setDifficulty`).
- Scripts, development proxies, the old GUI.

## Plan

Done, in this order: `Ledger` and `Blockchain` with the threads; the serial node and its
proofs; `Storage`; `Network`; `Peers`; `Client`; `Explorer`; `Wallet`; `Service`, the pages
and `App`; `Posting` and `Fetching` with the proofs that the browser implements them; the
proofs of the safety properties of `Ledger`, `Storage`, `Network`, `Explorer`, `Peers`,
`Wallet`, `Client` and `App`.

Next:

1. An abstract ledger (`AbstractLedger`: balances, a set of pending payments, blocks that
   apply some of them) and the serial node as its implementation, as a PROPERTY of `serial`
   and then as a theorem. What the abstract one must allow, overspent blocks and coins from
   payments to oneself, is the specification the code really has.
2. `Reward`: the halving schedule as an operator of the clock against a reference, and
   rounding of amounts on the way through the database.
3. The difficulty as a field of blocks, and `SetDifficulty` from the menu and the API, in
   `Network` (work of a chain that was mined with changing difficulties) and `Blockchain`.
4. `Storage` with failing puts and values that cannot be read, and the integrity check.
5. Proofs: the refinement of 1, and what 2 to 4 change in the invariants.
