\* The serial node with a peer: every call runs on one thread.
CONSTANTS
    Me = me
    Addr = {me, peer}
    Genesis = Genesis
    NoAddr = NoAddr
    Times = {1}
    Hash = {h0, h1, h2, h3}
    GenesisHash = h0
    NoHash = NoHash
    Reward = 1
    Users = {main}
    Net = {main}
    FullNode = TRUE
    Receivers = {me, peer}
    Amounts = {1}
    MaxPeerTxs = 1
    Limits = {2, 5}
SPECIFICATION Spec
SYMMETRY HashSymmetry
INVARIANTS ChainLinked BalancesAreReplay CoinsAccounted ChainStored NumbersLeadBack ListsAgreeWithDetails
PROPERTY MiningKeepsPending
