\* Payments from the menu and the API, and a process that is stopped twice.
CONSTANTS
    Key = {k1, k2, k3}
    NoKey = NoKey
    Threads = {cli, api}
    Main = cli
    MaxStops = 2
SPECIFICATION Spec
SYMMETRY KeySymmetry
INVARIANTS WalletTypeOK KeyFileComplete
PROPERTY KeyComesBack
