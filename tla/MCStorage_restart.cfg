\* A node with a peer, stopped anywhere and started again, with and without --clean.
CONSTANTS
    Me = me
    Addr = {me, peer}
    Genesis = Genesis
    NoAddr = NoAddr
    Times = {1}
    Hash = {h0, h1, h2, h3}
    GenesisHash = h0
    NoHash = NoHash
    Reward = 1
    Users = {main}
    Net = {main}
    FullNode = TRUE
    Receivers = {peer}
    Amounts = {1}
    MaxPeerTxs = 0
    Starts = {TRUE, FALSE}
    MaxRestarts = 2
SPECIFICATION StorageSpec
SYMMETRY HashSymmetry
INVARIANTS StorageTypeOK NoSelfFork HeadersSurvive CrashMintsOneReward
PROPERTY StartKeepsBalances
