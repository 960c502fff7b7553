\* A block arrives while the node mines.
CONSTANTS
    Me = me
    Addr = {me, peer}
    Genesis = Genesis
    NoAddr = NoAddr
    Times = {1}
    Hash = {h0, h1, h2}
    GenesisHash = h0
    NoHash = NoHash
    Reward = 1
    Users = {cli, api}
    Net = {io}
    FullNode = TRUE
    Receivers = {me, peer}
    Amounts = {1}
    MaxPeerTxs = 1
    Limits = {2, 5}
SPECIFICATION Spec
INVARIANT ChainLinked
