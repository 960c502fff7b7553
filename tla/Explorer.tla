------------------------------ MODULE Explorer ------------------------------
(***************************************************************************)
(* What the node of Blockchain.tla answers when it is asked about its      *)
(* chain: the /api/explorer routes of CelestialChainAPI.cpp and the menu   *)
(* of explorer.cpp.  Every question is answered from the chain, the        *)
(* mempool and the balances at one moment; nothing is changed.             *)
(***************************************************************************)
EXTENDS BlockchainProperties

SeqExt == INSTANCE SequencesExt

CONSTANT Limits   \* numbers of entries the callers ask for

ASSUME ExplorerAssumption == Limits \subseteq 1 .. 100

Shorter(m, n) == IF m <= n THEN m ELSE n

\* The first limit entries of a list.
Top(list, limit) == SubSeq(list, 1, Shorter(limit, Len(list)))

-----------------------------------------------------------------------------
(* Blocks *)

\* What statistics and the explorer's summary call the height.
BlockCount == Len(chain)

\* A block is looked up by its place in the chain.
BlockByNumber(n) == chain[n + 1]

\* The newest blocks, newest first.
LatestBlocks(limit) == Top(SeqExt!Reverse(chain), limit)

-----------------------------------------------------------------------------
(* Transactions *)

PendingEntry(tx) == [tx |-> tx, status |-> "Pending", block |-> 0]
ConfirmedEntry(tx, b) == [tx |-> tx, status |-> "Confirmed", block |-> b.number]
NotFound(tx) == [tx |-> tx, status |-> "Not found", block |-> 0]

\* The first block of the chain that holds a transaction.
FirstBlockWith(tx) ==
    LET places == {i \in DOMAIN chain : tx \in Elems(chain[i].txs)}
    IN  chain[CHOOSE i \in places : \A j \in places : i <= j]

\* The mempool is searched first, then the chain from its beginning.
TransactionDetails(tx) ==
    IF InMempool(tx) THEN PendingEntry(tx)
    ELSE IF tx \in Confirmed THEN ConfirmedEntry(tx, FirstBlockWith(tx))
         ELSE NotFound(tx)

PendingEntries == [i \in DOMAIN mempool |-> PendingEntry(mempool[i])]

EntriesOf(b) == [i \in DOMAIN b.txs |-> ConfirmedEntry(b.txs[i], b)]

\* Mutant: the chain is scanned from its beginning.
OldestFirst == SeqExt!FlattenSeq([i \in DOMAIN chain |-> EntriesOf(chain[i])])

\* Newest block first; in a block the order of the block.
ConfirmedEntries == SeqExt!FlattenSeq([i \in DOMAIN chain |-> EntriesOf(SeqExt!Reverse(chain)[i])])

\* Pending transactions fill the list before confirmed ones.
LatestTransactions(limit) == Top(PendingEntries \o Top(ConfirmedEntries, limit), limit)

\* The entries of a list that an address pays or is paid by, in their order.
OfAddress(list, a) ==
    SeqExt!FlattenSeq([i \in DOMAIN list |->
        IF a \in {list[i].tx.sender, list[i].tx.receiver} THEN <<list[i]>> ELSE <<>>])

\* Everything pending and the newest ten confirmed transactions of an address.
AddressActivity(a) == OfAddress(PendingEntries, a) \o Top(OfAddress(ConfirmedEntries, a), 10)

-----------------------------------------------------------------------------
(* Properties *)

\* Following a number leads back: the block an answer names by its number is
\* the block that is shown under that number, and it holds the transaction the
\* answer was about.  Numbers come from the blocks, looking up goes by place.
NumbersLeadBack ==
    /\ \A limit \in Limits : \A i \in DOMAIN LatestBlocks(limit) :
         LET b == LatestBlocks(limit)[i]
         IN  b.number = BlockCount - i /\ BlockByNumber(b.number) = b
    /\ \A tx \in Confirmed \ Elems(mempool) :
         LET n == TransactionDetails(tx).block
         IN  n < BlockCount /\ tx \in Elems(BlockByNumber(n).txs)

\* The lists and the details of their entries agree, also about transactions
\* that are pending again after they were confirmed or confirmed twice: what is
\* listed as pending is pending; what is listed as confirmed is in the block
\* listed, and its details name that block or an older one, or have it pending;
\* and older blocks come later.
ListsAgreeWithDetails ==
    \A list \in {LatestTransactions(limit) : limit \in Limits} \cup {AddressActivity(a) : a \in Addr} :
      \A i \in DOMAIN list :
        LET entry == list[i]
            details == TransactionDetails(entry.tx)
        IN  /\ entry.status = "Pending" => details = entry
            /\ entry.status = "Confirmed" =>
                 /\ entry.block < BlockCount /\ entry.tx \in Elems(BlockByNumber(entry.block).txs)
                 /\ details.status = "Pending" \/ details.block <= entry.block
                 /\ \A j \in i .. Len(list) : list[j].block <= entry.block
=============================================================================
